---------------------------- MODULE MCStackWalk ----------------------------
(* Stacks of three calls as compilers make them, stacks of anything, and     *)
(* lists of addresses in modules with and without symbols.                  *)
EXTENDS StackWalk

Func(at, size, params, name) == [k |-> "FUNC", at |-> at, size |-> size, params |-> params, name |-> name]
Pub(at, name)                == [k |-> "PUBLIC", at |-> at, params |-> 0, name |-> name]
LineOf(at, size, n, file)    == [k |-> "LINE", at |-> at, size |-> size, n |-> n, file |-> file]
FileOf(n, name)              == [k |-> "FILE", n |-> n, name |-> name]
Init_(at, rules)             == [k |-> "INIT", at |-> at, size |-> 8, rules |-> rules]
Delta(at, rules)             == [k |-> "DELTA", at |-> at, rules |-> rules]
Win(type, at, size, params, saved, locals, program, base) ==
    [k |-> "WIN", type |-> type, at |-> at, size |-> size, params |-> params, saved |-> saved,
     locals |-> locals, program |-> program, base |-> base]

Funcs == << FileOf(1, "f.c"), FileOf(1, "g.c"), Func(0, 8, 2, "f1"), LineOf(0, 4, 10, 1), LineOf(4, 4, 11, 2),
            Func(8, 8, 2, "f2"), LineOf(8, 8, 20, 1), Func(16, 8, 2, "f3") >>

Cfa(plus)     == <<".cfa", Term(<<"sp">>, plus, FALSE)>>
Ra(plus)      == <<".ra", Term(<<".cfa">>, plus, TRUE)>>
Pushing(at)   == << Init_(at, <<Cfa(2), Ra(-2)>>), Delta(at + 1, <<Cfa(4)>>), Delta(at + 4, <<Cfa(6), <<"fp", NULL>> >>) >>
Leaf(at)      == << Init_(at, << Cfa(0), <<".ra", Term(<<"lr">>, 0, FALSE)>> >>) >>
Own == << <<"T0", Term(<<"fp">>, 0, FALSE)>>, <<"ip", Term(<<"T0">>, 2, TRUE)>>, <<"fp", Term(<<"T0">>, 0, TRUE)>>,
          <<"sp", Term(<<"T0">>, 4, FALSE)>> >>
Align == << <<"T1", Term(<<".raSearch">>, 0, FALSE)>>,
            <<"T0", [Term(<<"T1">>, -2, FALSE) EXCEPT !.align = 8]>>, <<"fp", Term(<<"T1">>, -2, TRUE)>>,
            <<"ip", Term(<<"T1">>, 0, TRUE)>>, <<"sp", Term(<<"T1">>, 2, FALSE)>> >>

Text(lines) == [zero |-> FALSE, lines |-> lines]

MCSymbolFiles ==
    [fp     |-> Text(Funcs),
     cfi    |-> Text(Funcs \o << Init_(0, <<Cfa(2), Ra(-2)>>), Delta(1, <<Cfa(4)>>) >> \o Pushing(8) \o Pushing(16)),
     leaf   |-> Text(Funcs \o Leaf(0) \o Pushing(8) \o Pushing(16)),
     own    |-> Text(Funcs \o << Win("data", 0, 24, 2, 0, 2, Own, FALSE), Win("fpo", 0, 24, 2, 0, 2, <<>>, FALSE) >>),
     base   |-> Text(Funcs \o << Win("data", 0, 8, 2, 4, 2, <<>>, TRUE), Win("data", 8, 8, 4, 4, 2, <<>>, TRUE),
                        Win("data", 16, 8, 0, 4, 2, <<>>, TRUE) >>),
     fpo    |-> Text(Funcs \o << Win("fpo", 0, 24, 0, 0, 2, <<>>, FALSE), Win("fpo", 4, 24, 9, 9, 9, <<>>, FALSE) >>),
     align  |-> Text(Funcs \o << Win("data", 0, 24, 2, 0, 2, Align, FALSE), Win("data", 25, 0, 9, 9, 9, <<>>, FALSE) >>),
     still  |-> Text(<< Func(0, 32, 0, "f1"), Init_(0, << Cfa(0), <<".ra", Term(<<"ip">>, 0, FALSE)>> >>),
                        [Init_(8, << Cfa(0), <<"fp", Term(<<"ax">>, 0, FALSE)>>, Ra(0) >>) EXCEPT !.size = 24] >>),
     torn   |-> Text(<< Func(0, 32, 0, "f1"), Init_(0, << Cfa(3), Ra(-2), <<"ip", Term(<<".cfa">>, -1, TRUE)>>, <<"lr", Term(<<"fp">>, 0, FALSE)>> >>),
                        Init_(8, << Cfa(1), <<":", NULL>> >>), Delta(9, <<Cfa(2), Ra(0)>>) >>),
     bad    |-> Text(<< Func(0, 12, 0, "f1"), Win("data", 0, 32, 0, 2, 0, << <<"ip", Term(<<"ax">>, 0, FALSE)>> >>, FALSE) >>),
     skip   |-> Text(<< Func(0, 32, 0, "f1"), Win("data", 0, 32, 0, 4, 0, Align, FALSE), Win("data", 8, 8, 2, 2, 0, <<>>, TRUE) >>),
     public |-> Text(<< Pub(2, "p1"), Pub(0, "p0"), Func(4, 4, 0, "f1"), Pub(4, "p2"), Pub(12, "p3"), [k |-> "MODULE"], [k |-> "INFO"] >>),
     broken |-> [zero |-> TRUE, lines |-> << Pub(2, "p1"), Pub(2, "p2"), Func(-1, 4, 0, "f1"), LineOf(4, 4, 9, 1), Func(8, 4, 0, "f2") >>],
     stack  |-> Text(<< Func(2, 8, 0, "f1"), FileOf(-1, "x"), [k |-> "STACK"], Win("data", -1, 1, 0, 0, 0, <<>>, FALSE) >>)]

Module(base, file, debug, id) == [base |-> base, size |-> 32, file |-> file, debug |-> debug, id |-> id]

Scene == [cpu |-> "x86", os |-> "linux", modules |-> <<Module(32, "m", <<"d", "m">>, "1")>>, resolver |-> TRUE, supplier |-> TRUE,
          roots |-> <<>>, interrupts |-> {}, threads |-> <<>>, addresses |-> <<>>, limits |-> [frames |-> 8, scanned |-> 8],
          chain |-> <<>>]

Thread(words, ip, fp, lr) == [mem |-> [base |-> 128, words |-> words], regs |-> [ip |-> ip, sp |-> 128, fp |-> fp, lr |-> lr]]
S(k) == 128 + 2 * k

Call(ip, function) == [ip |-> ip, function |-> function]
Chain(a, b) == <<Call(34, "f1"), Call(a, "f2"), Call(b, "f3")>>
Bare(a, b)  == <<Call(34, ""), Call(a, ""), Call(b, "")>>

Roots(file) == << (<<"m", "1">> :> file) >>

Stack(cpu, os, file, words, fp, lr, chain) ==
    [Scene EXCEPT !.cpu = cpu, !.os = os, !.roots = IF file = "" THEN <<>> ELSE Roots(file),
                  !.threads = <<Thread(words, 34, fp, lr)>>, !.chain = chain]

Calls(i, j, k) ==
    {Stack(cpu, "linux", "fp", <<i, S(4), 48, j, S(7), 56, k, 0, 0>>, S(1), 0, Chain(48, 56)) : cpu \in {"x86", "amd64"}}
    \cup {Stack("x86", "windows", file, <<i, S(4), 48, j, S(7), 56, k, 0, 0>>, S(1), 0, Chain(48, 56)) : file \in {"own", "align"}}
    \cup {Stack(cpu, "ios", "fp", <<i, S(4), 56, j, 0, 0>>, S(1), 48, Chain(48, 56)) : cpu \in {"arm", "arm64"}}
    \cup {Stack(cpu, "linux", "cfi", <<i, 48, j, k, 56, k, j, 0>>, 0, 0, Chain(48, 56)) : cpu \in {"x86", "amd64"}}
    \cup {Stack(cpu, "linux", "leaf", <<j, k, 56, i, k, 0>>, 0, 48, Chain(48, 56)) : cpu \in {"arm", "arm64"}}
    \cup {Stack("x86", "linux", "", <<0, S(4), 48, j, S(7), 56, k, 0, 0>>, 1, 0, Bare(48, 56))}
    \cup {Stack("arm", "ios", "cfi", <<i, 56, j, k, 0, k, j, 0>>, 0, 48, Chain(48, 56))}
    \cup {Stack("x86", "windows", "base", <<S(10), i, j, 44, k, S(11), j, i, 52, j, i, 0, k, i, 0>>, 0, 0, Chain(44, 52)),
          Stack("x86", "windows", "fpo", <<i, 34, 44, j, 52, k, 0>>, 0, 0, Chain(44, 52))}

Scans == {Stack(cpu, "linux", "", <<0, 48, 0, 0, 56, 0>>, 1, 48, Bare(48, 56)) : cpu \in {"x86", "amd64", "arm", "arm64"}}

Fitting(cpu, word) == IF cpu \in {"x86", "arm"} THEN word % 256 ELSE word

Anything ==
    {[Stack(cpu[1], cpu[2], file, <<i, j, Fitting(cpu[1], k)>>, fp, 45, <<>>) EXCEPT !.limits = [frames |-> 3, scanned |-> 2]] :
        cpu \in {<<"x86", "windows">>, <<"amd64", "linux">>, <<"amd64", "nacl">>, <<"arm", "linux">>, <<"arm", "ios">>, <<"arm64", "linux">>},
        file \in {"", "still", "torn", "bad", "skip"}, fp \in {0, 128, 129, 130}, i \in {0, 45, 132}, j \in {45, 130}, k \in {0, 40, 300}}

\* Without memory, with memory at the end of the addresses, without modules.
Odd ==
    {[Scene EXCEPT !.cpu = cpu, !.roots = Roots("fp"), !.threads = << [mem |-> NULL, regs |-> [ip |-> 34, sp |-> 128, fp |-> 128, lr |-> 0]],
                                                                     [mem |-> [base |-> 250, words |-> <<45, 45, 45, 45>>],
                                                                      regs |-> [ip |-> 34, sp |-> 250, fp |-> 250, lr |-> 45]] >>,
                  !.modules = modules] : cpu \in {"x86", "amd64"}, modules \in {NULL, Scene.modules}}

Five == << Module(32, "a", <<"d", "a">>, "1"), Module(64, "b", <<"b">>, "1"), Module(96, "c", <<"c">>, "1"),
           Module(128, "a", <<"n">>, "2"), Module(160, "e", <<>>, "1"), Module(192, "g", <<"g">>, "") >>
Store(a, b) == (<<"a", "1">> :> a) @@ (<<"b", "1">> :> b) @@ (<<"n", "2">> :> "fp") @@ (<<"g", "1">> :> "fp")

Lists ==
    {[Scene EXCEPT !.cpu = "list", !.modules = Five, !.roots = roots, !.interrupts = interrupts, !.addresses = addresses,
                   !.resolver = asks[1], !.supplier = asks[2], !.threads = <<[mem |-> NULL, regs |-> NoRegs]>>] :
        roots \in {<<Store("public", "broken")>>, <<(<<"c", "2">> :> "fp"), Store("fp", "stack"), Store("public", "cfi")>>},
        interrupts \in {{}, {1}, {2}}, asks \in {<<TRUE, TRUE>>, <<TRUE, FALSE>>, <<FALSE, TRUE>>},
        addresses \in {<<>>} \cup {<<a, b>> : a, b \in {34, 38, 41, 46, 70, 75, 100, 130, 165, 195, 20}}}

MCScenes ==
    UNION {Calls(i, j, k) : i, j, k \in {0, 45, 132}} \cup Scans \cup Anything \cup Odd \cup Lists
=============================================================================
