------------------------ MODULE MinidumpProcessProofs ------------------------
(***************************************************************************)
(* Proofs about MinidumpProcess: that Process() may come between any calls  *)
(* to the reader without harm to what MinidumpProofs says of it, and that   *)
(* what it makes of the file is what the file says, as long as it is used.  *)
(***************************************************************************)
EXTENDS MinidumpProcess, MinidumpProofs, FiniteSetTheorems

---------------------------------------------------------------------------
(* What Process() asks of the reader.                                      *)

\* z keeps the parts that y keeps.
Keeps(y, z) == \A p \in Parts : y[p] # NULL => z[p] = y[p]

MHolds(m) == m = [s |-> m.s, lazy |-> m.lazy] /\ Holds(m.s, m.lazy)

\* n is what m has become by asking: nothing that was kept is lost or has
\* changed, and when a read had failed nothing happens at all.
Onward(m, n) == MHolds(n) /\ Wider(m.s, n.s) /\ Keeps(m.lazy, n.lazy) /\ (m.s.bad => n = m)

LEMMA OnwardSelf == ASSUME NEW m, MHolds(m) PROVE Onward(m, m)
BY DEF Onward, Wider, Keeps

LEMMA OnwardTwice ==
    ASSUME NEW m, NEW n, NEW o, Onward(m, n), Onward(n, o)
    PROVE  Onward(m, o)
<1>1. Wider(m.s, o.s)
  BY DEF Onward, Wider
<1>2. Keeps(m.lazy, o.lazy)
  BY DEF Onward, Keeps
<1> QED
  BY <1>1, <1>2 DEF Onward

LEMMA MFields ==
    ASSUME NEW m, NEW y, NEW z, m = [s |-> y, lazy |-> z], NEW x
    PROVE  /\ m.s = y /\ m.lazy = z
           /\ [m EXCEPT !.s = x] = [s |-> x, lazy |-> z]
OBVIOUS

\* Reading has gone on to s, with the same parts.
LEMMA OnwardState ==
    ASSUME NEW m, MHolds(m), NEW x, Holds(x, m.lazy), Wider(m.s, x), m.s.bad => x = m.s
    PROVE  Onward(m, [m EXCEPT !.s = x])
<1>1. PICK y, z : m = [s |-> y, lazy |-> z]
  BY DEF MHolds
<1>2. m.s = y /\ m.lazy = z /\ [m EXCEPT !.s = x] = [s |-> x, lazy |-> z]
  BY <1>1, MFields
<1>3. PICK n : n = [m EXCEPT !.s = x]
  OBVIOUS
<1>4. n.s = x /\ n.lazy = z /\ n = [s |-> n.s, lazy |-> n.lazy]
  BY <1>2, <1>3
<1>5. m.s.bad => n = m
  BY <1>1, <1>2, <1>3
<1>6. Keeps(m.lazy, n.lazy)
  BY <1>2, <1>4 DEF Keeps
<1>7. MHolds(n) /\ Wider(m.s, n.s)
  BY <1>2, <1>4 DEF MHolds
<1> QED
  BY <1>3, <1>5, <1>6, <1>7 DEF Onward

LEMMA AskAsks ==
    ASSUME FileOK, DirectoryOK, NEW m, MHolds(m), NEW t \in FixedStreams
    PROVE  Onward(m, Ask(m, t))
<1>1. PICK y, z : y = m.s /\ z = m.lazy /\ Holds(y, z)
  BY DEF MHolds
<1>2. Grown(y, GetFixed(y, t).s)
  BY <1>1, FixedGiven DEF Holds
<1>3. PICK x : x = GetFixed(y, t).s
  OBVIOUS
<1>4. Holds(x, z) /\ Wider(y, x) /\ (y.bad => x = y)
  BY <1>1, <1>2, <1>3, GrownHolds DEF Grown
<1>5. Onward(m, [m EXCEPT !.s = x])
  BY <1>1, <1>4, OnwardState
<1> QED
  BY <1>1, <1>3, <1>5 DEF Ask

LEMMA AskListAsks ==
    ASSUME FileOK, DirectoryOK, NEW m, MHolds(m), NEW t \in StreamTypes
    PROVE  /\ Onward(m, AskList(m, t))
           /\ t = "ModuleList" /\ AskList(m, t).s.streams[t] = NULL => m.s.bad \/ Listless
<1>1. PICK y, z : m = [s |-> y, lazy |-> z] /\ Holds(y, z)
  BY DEF MHolds
<1>2. PICK x : x = GetStream(y, t).s
  OBVIOUS
<1>3. /\ Holds(x, z) /\ Wider(y, x) /\ (y.bad => x = y)
      /\ t = "ModuleList" /\ x.streams[t] = NULL => y.bad \/ Listless
  BY <1>1, <1>2, StreamHolds
<1>4. m.s = y /\ m.lazy = z /\ [m EXCEPT !.s = x] = [s |-> x, lazy |-> z]
  BY <1>1, MFields
<1>5. PICK n : n = [m EXCEPT !.s = x]
  OBVIOUS
<1>6. Onward(m, n) /\ n.s = x
  BY <1>3, <1>4, <1>5, OnwardState
<1>7. AskList(m, t) = n
  BY <1>2, <1>4, <1>5 DEF AskList
<1> QED
  BY <1>3, <1>4, <1>6, <1>7

LEMMA PartOfAsks ==
    ASSUME FileOK, DirectoryOK, NEW m, MHolds(m), NEW p \in Parts,
           m.s.streams[Owner(p)] # NULL, InStream(p, m.s.streams[Owner(p)])
    PROVE  /\ Onward(m, PartOf(m, p))
           /\ PartOf(m, p).lazy[p] = NULL => m.s.bad \/ PartVal(p, m.s.streams[Owner(p)]) = NULL
<1>1. PICK y, z : m = [s |-> y, lazy |-> z] /\ Holds(y, z)
  BY DEF MHolds
<1>2. m.s = y /\ m.lazy = z
  BY <1>1
<1>3. CASE z[p] # NULL
  <2>1. PartOf(m, p) = m
    BY <1>2, <1>3 DEF PartOf
  <2> QED
    BY <1>2, <1>3, <2>1, OnwardSelf
<1>4. CASE z[p] = NULL
  <2>1. PICK r : r = PartRead(y, p, y.streams[Owner(p)])
    OBVIOUS
  <2>2. PICK l : l = [z EXCEPT ![p] = r.val]
    OBVIOUS
  <2>3. PartOf(m, p) = [s |-> r.s, lazy |-> l]
    BY <1>2, <1>4, <2>1, <2>2 DEF PartOf, WithPart
  <2>4. /\ Holds(r.s, l) /\ Wider(y, r.s)
        /\ ~y.bad => r.val = PartVal(p, y.streams[Owner(p)])
        /\ y.bad => r.s = y /\ r.val = NULL
    BY <1>1, <1>2, <2>1, <2>2, PartHolds
  <2>5. z = [x \in Parts |-> z[x]]
    BY <1>1 DEF Holds, KeepsParts
  <2>6. Keeps(z, l) /\ l[p] = r.val /\ (r.val = NULL => l = z)
    BY <1>4, <2>2, <2>5 DEF Keeps
  <2>7. PICK n : n = [s |-> r.s, lazy |-> l]
    OBVIOUS
  <2>8. n.s = r.s /\ n.lazy = l /\ n = [s |-> n.s, lazy |-> n.lazy]
    BY <2>7
  <2>9. y.bad => n = m
    BY <1>1, <2>4, <2>6, <2>7
  <2>10. Onward(m, n)
    BY <1>2, <2>4, <2>6, <2>8, <2>9 DEF Onward, MHolds
  <2>11. n.lazy[p] = NULL => y.bad \/ PartVal(p, y.streams[Owner(p)]) = NULL
    BY <1>1, <2>4, <2>6, <2>8 DEF Holds, IsState
  <2> QED
    BY <1>2, <2>3, <2>7, <2>10, <2>11
<1> QED
  BY <1>3, <1>4

LEMMA CreateTimeAsks ==
    ASSUME FileOK, DirectoryOK, NEW m, MHolds(m)
    PROVE  Onward(m, GetProcessCreateTime(m))
<1>1. PICK y, z : y = m.s /\ z = m.lazy /\ Holds(y, z)
  BY DEF MHolds
<1>2. IsState(y) /\ Serves(y)
  BY <1>1 DEF Holds
<1>3. PICK u : u = SeekToStreamType(y, "MiscInfo")
  OBVIOUS
<1>4. PICK r : r = MiscInfoRead(u, SizeOf("MiscInfo"))
  OBVIOUS
<1>5. InDirectory("MiscInfo") => Moved(y, r.s) /\ (~y.bad => r.val = StreamVal("MiscInfo"))
  <2> HAVE InDirectory("MiscInfo")
  <2>1. Place("MiscInfo") \in Nat /\ SizeOf("MiscInfo") \in Nat
    BY DirectoryNumbers DEF InDirectory
  <2>2. Moved(y, u) /\ u.bad = y.bad /\ (~y.bad => u.pos = Place("MiscInfo")) /\ IsState(u)
    BY <1>2, <1>3, SeekToStreamMoves DEF InDirectory
  <2>3. Moved(u, r.s) /\ (~u.bad => r.val = MiscInfoVal(u.pos, SizeOf("MiscInfo")))
    BY <1>4, <2>1, <2>2, MiscInfoReads
  <2>4. StreamVal("MiscInfo") = MiscInfoVal(Place("MiscInfo"), SizeOf("MiscInfo"))
    BY DEF StreamVal
  <2> QED
    BY <2>2, <2>3, <2>4, MovedTwice
<1>6. "MiscInfo" \in Plain
  BY DEF Plain, StreamTypes, SingleStreams
<1>7. PICK x : x = StreamOr(y, "MiscInfo", r).s
  OBVIOUS
<1>8. Grown(y, x)
  BY <1>2, <1>5, <1>6, <1>7, StreamOrGives
<1>9. Holds(x, z) /\ Wider(y, x) /\ (y.bad => x = y)
  BY <1>1, <1>8, GrownHolds DEF Grown
<1>10. Onward(m, [m EXCEPT !.s = x])
  BY <1>1, <1>9, OnwardState
<1> QED
  BY <1>1, <1>3, <1>4, <1>7, <1>10 DEF GetProcessCreateTime

LEMMA CSDVersionAsks ==
    ASSUME FileOK, DirectoryOK, NEW m, MHolds(m)
    PROVE  Onward(m, GetCSDVersion(m))
<1>1. <<"csd", 0>> \in Parts /\ Owner(<<"csd", 0>>) = "SystemInfo" /\ InStream(<<"csd", 0>>, m.s.streams["SystemInfo"])
  BY DEF Parts, Owner, InStream
<1> QED
  BY <1>1, OnwardSelf, PartOfAsks DEF GetCSDVersion

\* Whatever is asked for in a row.  A list of modules is missing then only if
\* the file has none or reading has failed.
LEMMA GatheredAsks ==
    ASSUME FileOK, DirectoryOK, NEW m, MHolds(m)
    PROVE  /\ Onward(m, Gathered(m))
           /\ Gathered(m).s.streams["ModuleList"] = NULL => Gathered(m).s.bad \/ Listless
<1>0. {"SystemInfo", "BreakpadInfo", "Exception", "Assertion"} \subseteq FixedStreams
      /\ {"ModuleList", "MemoryList", "ThreadList"} \subseteq StreamTypes
  BY DEF FixedStreams, StreamTypes, SingleStreams
<1>1. \A x, t : Onward(m, x) /\ t \in FixedStreams => Onward(m, Ask(x, t))
  BY AskAsks, OnwardTwice DEF Onward
<1>2. \A x, t : Onward(m, x) /\ t \in StreamTypes => Onward(m, AskList(x, t))
  BY AskListAsks, OnwardTwice DEF Onward
<1>3. \A x : Onward(m, x) => Onward(m, GetOSInfo(x))
  <2>1. \A x : Onward(m, x) => Onward(m, GetCSDVersion(x))
    BY CSDVersionAsks, OnwardTwice DEF Onward
  <2> QED
    BY <1>0, <1>1, <2>1 DEF GetOSInfo
<1>4. \A x : Onward(m, x) => Onward(m, GetCrashReason(x))
  <2>1. \A x : Onward(m, x) => Onward(m, CrashReason(x))
    BY <1>0, <1>1 DEF CrashReason
  <2> QED
    BY <1>0, <1>1, <2>1 DEF GetCrashReason
<1>5. \A x : Onward(m, x) => Onward(m, CopyModules(x))
  BY <1>0, <1>1 DEF CopyModules
<1>6. \A x : Onward(m, x) => Onward(m, GetCPUInfo(x)) /\ Onward(m, GetAssertion(x))
  BY <1>0, <1>1 DEF GetCPUInfo, GetAssertion
<1>7. Onward(m, GetProcessCreateTime(m))
  BY CreateTimeAsks
<1>8. Onward(m, Ask(Ask(GetOSInfo(GetCPUInfo(GetProcessCreateTime(m))), "BreakpadInfo"), "Exception"))
  BY <1>0, <1>1, <1>3, <1>6, <1>7
<1>9. PICK x : x = GetAssertion(GetCrashReason(Ask(Ask(GetOSInfo(GetCPUInfo(GetProcessCreateTime(m))),
                                                      "BreakpadInfo"), "Exception")))
  OBVIOUS
<1>10. Onward(m, x)
  BY <1>4, <1>6, <1>8, <1>9
<1>11. PICK y : y = AskList(x, "ModuleList")
  OBVIOUS
<1>12. Onward(m, y) /\ (y.s.streams["ModuleList"] = NULL => x.s.bad \/ Listless)
  <2>1. MHolds(x)
    BY <1>10 DEF Onward
  <2> QED
    BY <1>0, <1>2, <1>10, <1>11, <2>1, AskListAsks
<1>13. Onward(y, Gathered(m))
  <2>1. MHolds(y)
    BY <1>12 DEF Onward
  <2>2. \A u, t : Onward(y, u) /\ t \in StreamTypes => Onward(y, AskList(u, t))
    BY AskListAsks, OnwardTwice DEF Onward
  <2>3. Onward(y, CopyModules(y))
    BY <1>0, <2>1, AskAsks, OnwardSelf DEF CopyModules
  <2>4. Gathered(m) = AskList(AskList(CopyModules(y), "MemoryList"), "ThreadList")
    BY <1>9, <1>11 DEF Gathered
  <2> QED
    BY <1>0, <2>2, <2>3, <2>4
<1>14. Onward(m, Gathered(m))
  BY <1>12, <1>13, OnwardTwice
<1>15. ASSUME Gathered(m).s.streams["ModuleList"] = NULL
       PROVE  Gathered(m).s.bad \/ Listless
  <2>1. y.s.streams["ModuleList"] = NULL
    BY <1>0, <1>13, <1>15 DEF Onward, Wider
  <2>2. CASE x.s.bad
    <3>1. Onward(x, y)
      <4>1. MHolds(x)
        BY <1>10 DEF Onward
      <4> QED
        BY <1>0, <1>11, <4>1, AskListAsks
    <3>2. y = x
      BY <2>2, <3>1 DEF Onward
    <3>3. Gathered(m) = y
      BY <1>13, <2>2, <3>2 DEF Onward
    <3> QED
      BY <2>2, <3>2, <3>3
  <2> QED
    BY <1>12, <2>1, <2>2
<1> QED
  BY <1>14, <1>15

LEMMA MapsAsk ==
    ASSUME FileOK, DirectoryOK, NEW m, MHolds(m), NEW l,
           l = StreamOr(m.s, "LinuxMaps", LinuxMapsListRead(m.s, SizeOf("LinuxMaps")))
    PROVE  Onward(m, [m EXCEPT !.s = l.s])
<1>1. PICK y, z : y = m.s /\ z = m.lazy /\ Holds(y, z)
  BY DEF MHolds
<1>2. IsState(y) /\ Serves(y)
  BY <1>1 DEF Holds
<1>3. PICK u : u = SeekToStreamType(y, "LinuxMaps")
  OBVIOUS
<1>4. PICK r : r = ParseProcMaps(ReadBytes(u, SizeOf("LinuxMaps")))
  OBVIOUS
<1>5. InDirectory("LinuxMaps") => Moved(y, r.s) /\ (~y.bad => r.val = StreamVal("LinuxMaps"))
  <2> HAVE InDirectory("LinuxMaps")
  <2>1. Place("LinuxMaps") \in Nat /\ SizeOf("LinuxMaps") \in Nat
    BY DirectoryNumbers DEF InDirectory
  <2>2. Moved(y, u) /\ u.bad = y.bad /\ (~y.bad => u.pos = Place("LinuxMaps")) /\ IsState(u)
    BY <1>2, <1>3, SeekToStreamMoves DEF InDirectory
  <2>3. Moved(u, r.s) /\ (~u.bad => r.val = LinuxMapsVal(u.pos, SizeOf("LinuxMaps")))
    BY <1>4, <2>1, <2>2, LinuxMapsReads
  <2>4. StreamVal("LinuxMaps") = LinuxMapsVal(Place("LinuxMaps"), SizeOf("LinuxMaps"))
    BY DEF StreamVal
  <2> QED
    BY <2>2, <2>3, <2>4, MovedTwice
<1>6. "LinuxMaps" \in Plain
  BY DEF Plain, StreamTypes, SingleStreams
<1>7. l = StreamOr(y, "LinuxMaps", r)
  BY <1>1, <1>3, <1>4 DEF LinuxMapsListRead
<1>8. Grown(y, l.s)
  BY <1>2, <1>5, <1>6, <1>7, StreamOrGives
<1>9. Holds(l.s, z) /\ Wider(y, l.s) /\ (y.bad => l.s = y)
  BY <1>1, <1>8, GrownHolds DEF Grown
<1> QED
  BY <1>1, <1>9, OnwardState

\* A rating, which is about the exception's context when it looks at maps.
IsRating(m, x) ==
    Onward(m, x.m) /\ (x.rating = "interesting" => x.m.lazy[<<"exception", 0>>] # NULL)

LEMMA RatingIs ==
    ASSUME NEW m, NEW n, Onward(m, n), NEW r, r = "interesting" => n.lazy[<<"exception", 0>>] # NULL
    PROVE  IsRating(m, Rating(n, r))
BY DEF IsRating, Rating

LEMMA RatingAsks ==
    ASSUME FileOK, DirectoryOK, NEW m, MHolds(m), NEW checked
    PROVE  IsRating(m, ExploitabilityForPlatform(GetFixed(m.s, "SystemInfo"), m, checked))
<1> DEFINE exc == <<"exception", 0>>
<1>0. {"SystemInfo", "Exception"} \subseteq FixedStreams
  BY DEF FixedStreams
<1>1. ASSUME NEW n, Onward(m, n), NEW context, context = n.lazy[exc]
      PROVE  IsRating(m, WithMaps(n, context))
  <2>1. CASE context = NULL
    <3>1. WithMaps(n, context) = Rating(n, "err_processing")
      BY <2>1 DEF WithMaps
    <3> QED
      BY <1>1, <3>1, RatingIs
  <2>2. CASE context # NULL /\ context.cpu = "none"
    <3>1. WithMaps(n, context) = Rating(n, "err_processing")
      BY <2>2 DEF WithMaps
    <3> QED
      BY <1>1, <3>1, RatingIs
  <2>3. CASE context # NULL /\ context.cpu # "none"
    <3>1. PICK l : l = StreamOr(n.s, "LinuxMaps", LinuxMapsListRead(n.s, SizeOf("LinuxMaps")))
      OBVIOUS
    <3>2. PICK o : o = [n EXCEPT !.s = l.s]
      OBVIOUS
    <3>3. Onward(n, o)
      BY <1>1, <3>1, <3>2, MapsAsk DEF Onward
    <3>4. Onward(m, o)
      BY <1>1, <3>3, OnwardTwice
    <3>5. exc \in Parts
      BY DEF Parts
    <3>6. o.lazy[exc] # NULL
      BY <1>1, <2>3, <3>3, <3>5 DEF Onward, Keeps
    <3>7. \E r : WithMaps(n, context) = Rating(o, r)
      BY <2>3, <3>1, <3>2 DEF WithMaps, MapsRead, RatedByMaps
    <3> QED
      BY <3>4, <3>6, <3>7, RatingIs
  <2> QED
    BY <2>1, <2>2, <2>3
<1>2. ASSUME NEW n, Onward(m, n), NEW e, e = n.s.streams["Exception"]
      PROVE  IsRating(m, OfException(n, e))
  <2>1. CASE e = NULL \/ Get(e, "benign") = TRUE
    <3>1. OfException(n, e) = Rating(n, "err_processing") \/ OfException(n, e) = Rating(n, "none")
      BY <2>1 DEF OfException
    <3> QED
      BY <1>2, <3>1, RatingIs
  <2>2. CASE e # NULL /\ Get(e, "benign") # TRUE
    <3>1. PICK o : o = PartOf(n, exc)
      OBVIOUS
    <3>2. exc \in Parts /\ Owner(exc) = "Exception" /\ InStream(exc, e)
      BY DEF Parts, Owner, InStream
    <3>3. Onward(n, o)
      BY <1>2, <2>2, <3>1, <3>2, PartOfAsks DEF Onward
    <3>4. Onward(m, o)
      BY <1>2, <3>3, OnwardTwice
    <3>5. OfException(n, e) = WithMaps(o, o.lazy[exc])
      BY <2>2, <3>1 DEF OfException, RatedByContext
    <3> QED
      BY <1>1, <3>4, <3>5
  <2> QED
    BY <2>1, <2>2
<1>3. ASSUME NEW n, Onward(m, n)
      PROVE  IsRating(m, CheckPlatformExploitability(n, checked))
  <2>1. CASE checked
    <3>1. CheckPlatformExploitability(n, checked) = Rating(n, "high")
      BY <2>1 DEF CheckPlatformExploitability
    <3> QED
      BY <1>3, <3>1, RatingIs
  <2>2. CASE ~checked
    <3>1. PICK o : o = Ask(n, "Exception")
      OBVIOUS
    <3>2. Onward(m, o)
      BY <1>0, <1>3, <3>1, AskAsks, OnwardTwice DEF Onward
    <3>3. CheckPlatformExploitability(n, checked) = OfException(o, o.s.streams["Exception"])
      BY <2>2, <3>1 DEF CheckPlatformExploitability, AfterException
    <3> QED
      BY <1>2, <3>2, <3>3
  <2> QED
    BY <2>1, <2>2
<1>4. PICK n : n = Ask(m, "SystemInfo")
  OBVIOUS
<1>5. Onward(m, n)
  BY <1>0, <1>4, AskAsks
<1>6. PICK info : info = GetFixed(m.s, "SystemInfo").val
  OBVIOUS
<1>7. ExploitabilityForPlatform(GetFixed(m.s, "SystemInfo"), m, checked) = Engine(n, info, checked)
  BY <1>4, <1>6 DEF ExploitabilityForPlatform, Ask
<1>8. \/ Engine(n, info, checked) = CheckPlatformExploitability(n, checked)
      \/ Engine(n, info, checked) = Rating(n, "of_windows")
      \/ Engine(n, info, checked) = Rating(n, "err_noengine")
  BY DEF Engine
<1> QED
  BY <1>3, <1>5, <1>7, <1>8, RatingIs
---------------------------------------------------------------------------
(* Process() leaves the reader as its other users do.                      *)

OnwardStep == SameDirectory /\ reads' = reads /\ Onward(Reading, [s |-> rd', lazy |-> lazy'])

LEMMA ReadingHolds ==
    ASSUME IInv
    PROVE  FileOK /\ DirectoryOK /\ MHolds(Reading) /\ Reading.s = rd /\ Reading.lazy = lazy
BY InvGives DEF Reading, MHolds

\* What OnwardStep says of the variables.
LEMMA OnwardGives ==
    ASSUME IInv, OnwardStep
    PROVE  /\ IInv' /\ FailureStays
           /\ Wider(rd, rd') /\ Keeps(lazy, lazy') /\ Holds(rd', lazy')
           /\ rd.bad => rd' = rd /\ lazy' = lazy
<1>1. PICK m, n : m = Reading /\ n = [s |-> rd', lazy |-> lazy']
  OBVIOUS
<1>2. m.s = rd /\ m.lazy = lazy /\ n.s = rd' /\ n.lazy = lazy'
  BY <1>1 DEF Reading
<1>3. Onward(m, n)
  BY <1>1 DEF OnwardStep
<1>4. Wider(rd, rd') /\ Keeps(lazy, lazy') /\ Holds(rd', lazy') /\ (rd.bad => n = m)
  BY <1>2, <1>3 DEF Onward, MHolds
<1>5. rd.bad => rd' = rd /\ lazy' = lazy
  BY <1>2, <1>4
<1>6. IInv'
  BY <1>4, SameInv DEF OnwardStep
<1>7. FailureStays
  BY <1>5 DEF FailureStays, OnwardStep, SameDirectory
<1> QED
  BY <1>4, <1>5, <1>6, <1>7

LEMMA OnwardOf ==
    ASSUME UNCHANGED <<dump, len, reads, valid, directory>>, NEW n, Onward(Reading, n), rd' = n.s, lazy' = n.lazy
    PROVE  OnwardStep
<1>1. n = [s |-> rd', lazy |-> lazy']
  BY DEF Onward, MHolds
<1> QED
  BY <1>1 DEF OnwardStep, SameDirectory, SameFile

LEMMA OnwardStays ==
    ASSUME IInv, UNCHANGED <<dump, len, reads, valid, directory>>, rd' = rd, lazy' = lazy
    PROVE  OnwardStep
<1>1. Onward(Reading, Reading) /\ Reading.s = rd /\ Reading.lazy = lazy
  BY ReadingHolds, OnwardSelf
<1> QED
  BY <1>1, OnwardOf

LEMMA ProcessReads == ASSUME IInv, Process PROVE OnwardStep
<1>1. UNCHANGED <<dump, len, reads, valid, directory>>
  BY DEF Process
<1>2. CASE NoHeader
  BY <1>1, <1>2, OnwardStays DEF NoHeader
<1>3. CASE Header
  <2>1. rd' = Gathered(Reading).s /\ lazy' = Gathered(Reading).lazy
    BY <1>3 DEF Header
  <2>2. Onward(Reading, Gathered(Reading))
    BY ReadingHolds, GatheredAsks
  <2> QED
    BY <1>1, <2>1, <2>2, OnwardOf
<1> QED
  BY <1>2, <1>3 DEF Process

\* The list of threads.
LEMMA ThreadsAre ==
    ASSUME FileOK, DirectoryOK, StreamVal("ThreadList") # NULL
    PROVE  \E n \in 0..MaxItems : DOMAIN StreamVal("ThreadList") = 1..n /\ Len(StreamVal("ThreadList")) = n
<1>1. InDirectory("ThreadList")
  BY DEF StreamVal
<1> DEFINE at == Place("ThreadList")
           size == SizeOf("ThreadList")
<1>2. at \in Nat /\ size \in Nat
  BY <1>1, DirectoryNumbers DEF InDirectory
<1>3. StreamVal("ThreadList") = ThreadListVal(at, size)
  BY <1>1 DEF StreamVal
<1> HIDE DEF at, size
<1>4. StreamVal("ThreadList") = ItemCells(at, size) /\ Listed(at, size)
  BY <1>3 DEF ThreadListVal
<1>5. CountOf(at) \in Nat /\ at + size - CountOf(at) \in Int
  BY <1>2, CountIsNat
<1>6. DOMAIN ItemCells(at, size) = 1..CountOf(at) /\ Len(ItemCells(at, size)) = CountOf(at)
  BY <1>5, BlockCells DEF ItemCells
<1>7. CountOf(at) \in 0..MaxItems
  BY <1>4, <1>5, MinidumpAssumption DEF Listed
<1> QED
  BY <1>4, <1>6, <1>7

\* A region that is found in the memory list is one of it.
LEMMA RegionsAre ==
    ASSUME FileOK, DirectoryOK, NEW l, l = StreamVal("MemoryList"), l # NULL, NEW a, RetrieveRange(l.map, a, 0) # 0
    PROVE  RetrieveRange(l.map, a, 0) \in DOMAIN l.items /\ RetrieveRange(l.map, a, 0) \in 1..MaxItems
<1>1. InDirectory("MemoryList")
  BY DEF StreamVal
<1> DEFINE at == Place("MemoryList")
           size == SizeOf("MemoryList")
<1>2. at \in Nat /\ size \in Nat
  BY <1>1, DirectoryNumbers DEF InDirectory
<1>3. l = MemoryListVal(at, size)
  BY <1>1 DEF StreamVal
<1> HIDE DEF at, size
<1>4. l = RegionsOf(ItemCells(at, size)) /\ Listed(at, size)
  BY <1>3 DEF MemoryListVal
<1>5. CountOf(at) \in Nat /\ at + size - CountOf(at) \in Int
  BY <1>2, CountIsNat
<1>6. DOMAIN ItemCells(at, size) = 1..CountOf(at)
  BY <1>5, BlockCells DEF ItemCells
<1>7. CountOf(at) \in 0..MaxItems
  BY <1>4, <1>5, MinidumpAssumption DEF Listed
<1>8. l.items = ItemCells(at, size) /\ l.map = Spans(ItemCells(at, size))
  BY <1>4 DEF RegionsOf
<1>9. \A r \in l.map : r.index \in DOMAIN l.items
  BY <1>8 DEF Spans, Span
<1>10. PICK r : r \in l.map /\ RetrieveRange(l.map, a, 0) = r.index
  BY DEF RetrieveRange, Within
<1>11. PICK c \in 0..MaxItems : c = CountOf(at)
  BY <1>7
<1>12. PICK x : x = r.index
  OBVIOUS
<1>13. x \in DOMAIN l.items
  BY <1>9, <1>10, <1>12
<1>14. x \in 1..c
  BY <1>6, <1>8, <1>11, <1>13
<1>15. x \in 1..MaxItems
  BY <1>14, MinidumpAssumption
<1> QED
  BY <1>10, <1>12, <1>13, <1>15
---------------------------------------------------------------------------
(* One round of the loop over the threads.                                 *)

ThreadsVal == StreamVal("ThreadList")

Exc == <<"exception", 0>>

\* What holds while the loop runs.
LoopOK ==
    processing.pc = "threads" =>
        /\ valid
        /\ Threads # NULL
        /\ processing.k \in 1..(Len(ThreadsVal) + 1)
        /\ ps.crashed => rd.streams["Exception"] # NULL

\* The exception's context, or the reason why it is not used.
CrashOf(of) ==
    \/ of[1] = "exception"
    \/ rd.bad /\ lazy[Exc] = NULL
    \/ valid /\ PartVal(Exc, StreamVal("Exception")) = NULL

\* A part that is asked for is there.
IsThere(m, p) == p \in Parts /\ m.s.streams[Owner(p)] # NULL /\ InStream(p, m.s.streams[Owner(p)])

LEMMA StaysThere ==
    ASSUME NEW m, NEW n, Onward(m, n), NEW p, IsThere(m, p)
    PROVE  IsThere(n, p)
<1>1. Owner(p) \in StreamTypes
  BY PartKinds DEF IsThere, Plain
<1>2. n.s.streams[Owner(p)] = m.s.streams[Owner(p)]
  BY <1>1 DEF Onward, Wider, IsThere
<1> QED
  BY <1>2 DEF IsThere

LEMMA ThereAsks ==
    ASSUME FileOK, DirectoryOK, NEW m, MHolds(m), NEW p, IsThere(m, p)
    PROVE  /\ Onward(m, PartOf(m, p))
           /\ PartOf(m, p).lazy[p] = NULL => m.s.bad \/ PartVal(p, StreamVal(Owner(p))) = NULL
<1>1. p \in Parts /\ Owner(p) \in Plain
  BY PartKinds DEF IsThere
<1>2. m.s.streams[Owner(p)] = StreamVal(Owner(p))
  BY <1>1, KeptInDirectory DEF MHolds, IsThere, Plain
<1> QED
  BY <1>1, <1>2, PartOfAsks DEF IsThere

\* The context that is walked from.
LEMMA ContextAsks ==
    ASSUME FileOK, DirectoryOK, NEW m, MHolds(m), NEW k, IsThere(m, <<"context", k>>),
           NEW crashed \in BOOLEAN, crashed => IsThere(m, Exc), NEW n, n = WithContext(m, k, crashed)
    PROVE  /\ Onward(m, n)
           /\ crashed /\ n.lazy[Exc] = NULL => n.s.bad \/ PartVal(Exc, StreamVal("Exception")) = NULL
<1>1. CASE ~crashed
  <2>1. n = m
    BY <1>1 DEF WithContext
  <2> QED
    BY <1>1, <2>1, OnwardSelf
<1>2. CASE crashed
  <2>1. PICK o : o = PartOf(m, Exc)
    OBVIOUS
  <2>2. /\ Onward(m, o)
        /\ o.lazy[Exc] = NULL => m.s.bad \/ PartVal(Exc, StreamVal(Owner(Exc))) = NULL
    BY <1>2, <2>1, ThereAsks
  <2>3. Owner(Exc) = "Exception" /\ Exc \in Parts
    BY DEF Owner, Exc, Parts
  <2>4. CASE o.lazy[Exc] # NULL
    <3>1. n = o
      BY <1>2, <2>1, <2>4 DEF WithContext, OrOwn, Exc
    <3> QED
      BY <2>2, <2>4, <3>1
  <2>5. CASE o.lazy[Exc] = NULL
    <3>1. n = PartOf(o, <<"context", k>>)
      BY <1>2, <2>1, <2>5 DEF WithContext, OrOwn, Exc
    <3>2. Onward(o, n)
      BY <2>2, <3>1, StaysThere, ThereAsks DEF Onward
    <3>3. Onward(m, n)
      BY <2>2, <3>2, OnwardTwice
    <3>4. m.s.bad => n = m
      BY <3>3 DEF Onward
    <3> QED
      BY <2>2, <2>3, <2>5, <3>3, <3>4
  <2> QED
    BY <2>4, <2>5
<1> QED
  BY <1>1, <1>2

\* The memory that is walked is a stack or a region of the file.
LEMMA MemoryIsThere ==
    ASSUME FileOK, DirectoryOK, NEW m, MHolds(m), NEW k, IsThere(m, <<"context", k>>), NEW t,
           NEW mem, mem = StackMemory(t, k, m.s.streams["MemoryList"]), mem # NULL
    PROVE  IsThere(m, mem)
<1> DEFINE l == m.s.streams["MemoryList"]
           i == RegionAt(l, Get(t, "start"))
<1>1. CASE mem = <<"stack", k>>
  BY <1>1 DEF IsThere, Parts, Owner, InStream
<1>2. CASE mem # <<"stack", k>>
  <2>1. i # 0 /\ mem = <<"region", i>>
    BY <1>2 DEF StackMemory
  <2>2. l # NULL /\ i = RetrieveRange(l.map, Get(t, "start"), 0)
    BY <2>1 DEF RegionAt
  <2>3. "MemoryList" \in Plain /\ "MemoryList" \in StreamTypes
    BY DEF Plain, StreamTypes, SingleStreams
  <2>4. l = StreamVal("MemoryList")
    BY <2>2, <2>3, KeptInDirectory DEF MHolds
  <2> HIDE DEF l
  <2>5. i \in DOMAIN l.items /\ i \in 1..MaxItems
    BY <2>1, <2>2, <2>4, RegionsAre
  <2> HIDE DEF i
  <2>6. mem \in Parts /\ Owner(mem) = "MemoryList" /\ InStream(mem, l)
    BY <2>1, <2>5 DEF Parts, Owner, InStream
  <2> QED
    BY <2>2, <2>6 DEF IsThere, l
<1> QED
  BY <1>1, <1>2
\* What a round does to the state that Process() fills.
Pushed(k, id, of) ==
    \E walker, interrupted, mem :
       /\ processing' = [processing EXCEPT !.k = @ + 1, !.found = @ \/ id = processing.wanted,
                                           !.interrupted = @ \/ interrupted]
       /\ ps' = [ps EXCEPT !.requesting = IF id = processing.wanted THEN NextIndex(ps, k) ELSE @,
                           !.threads = Append(@, [id |-> id, of |-> of, walked |-> walker, mem |-> mem]),
                           !.regions = Append(@, mem)]

Round(k, id) ==
    \/ /\ id = processing.dumper
       /\ processing' = [processing EXCEPT !.k = @ + 1]
       /\ UNCHANGED ps
    \/ /\ processing' = Ending("duplicate_requesting_threads")
       /\ UNCHANGED ps
    \/ /\ id # processing.dumper
       /\ ~(id = processing.wanted /\ processing.found)
       /\ \E of : /\ Pushed(k, id, of)
                  /\ id = processing.wanted /\ ps.crashed => CrashOf(of)'

LEMMA LoopThreads ==
    ASSUME IInv, LoopOK, processing.pc = "threads"
    PROVE  /\ valid /\ Threads = ThreadsVal /\ ThreadsVal # NULL
           /\ \E n \in 0..MaxItems : /\ DOMAIN ThreadsVal = 1..n /\ Len(ThreadsVal) = n
                                     /\ processing.k \in 1..(n + 1)
<1>1. FileOK /\ DirectoryOK /\ Holds(rd, lazy)
  BY InvGives
<1>2. valid /\ Threads # NULL /\ processing.k \in 1..(Len(ThreadsVal) + 1)
  BY DEF LoopOK
<1>3. "ThreadList" \in Plain /\ "ThreadList" \in StreamTypes
  BY DEF Plain, StreamTypes, SingleStreams
<1>4. Threads = ThreadsVal
  BY <1>1, <1>2, <1>3, KeptInDirectory DEF Threads, ThreadsVal
<1>5. PICK n \in 0..MaxItems : DOMAIN ThreadsVal = 1..n /\ Len(ThreadsVal) = n
  BY <1>1, <1>2, <1>4, ThreadsAre DEF ThreadsVal
<1> QED
  BY <1>2, <1>4, <1>5

LEMMA CrashStays ==
    ASSUME SameDirectory, NEW of
    PROVE  CrashOf(of)' <=> \/ of[1] = "exception"
                            \/ rd'.bad /\ lazy'[Exc] = NULL
                            \/ valid /\ PartVal(Exc, StreamVal("Exception")) = NULL
<1>1. PartVal(Exc, StreamVal("Exception"))' = PartVal(Exc, StreamVal("Exception"))
  <2>1. StreamVal("Exception")' = StreamVal("Exception")
    BY SameStreams
  <2>2. \A v : PartVal(Exc, v)' = PartVal(Exc, v)
    BY SameParts
  <2> QED
    BY <2>1, <2>2
<1>2. valid' = valid
  BY DEF SameDirectory
<1> QED
  BY <1>1, <1>2 DEF CrashOf

LEMMA ThreadRound ==
    ASSUME IInv, LoopOK, Process_Thread
    PROVE  OnwardStep /\ Round(processing.k, ThreadsVal[processing.k].id)
<1> DEFINE k == processing.k
           t == ThreadsVal[k]
<1>1. /\ processing.pc = "threads" /\ k <= Len(Threads)
      /\ UNCHANGED <<dump, len, reads, valid, directory>>
      /\ Process_Dumper \/ \E x \in {Threads[k]} : Process_Other(k, x, x.id = processing.wanted /\ ps.crashed)
  BY DEF Process_Thread, Threads
<1>2. PICK n \in 0..MaxItems : /\ DOMAIN ThreadsVal = 1..n /\ Len(ThreadsVal) = n /\ k \in 1..(n + 1)
                               /\ valid /\ Threads = ThreadsVal /\ ThreadsVal # NULL
  BY <1>1, LoopThreads
<1>3. FileOK /\ DirectoryOK /\ MHolds(Reading) /\ Reading.s = rd /\ Reading.lazy = lazy
  BY ReadingHolds
<1>4. SameDirectory
  BY <1>1 DEF SameDirectory, SameFile
<1>5. CASE Process_Dumper
  <2>1. t.id = processing.dumper /\ rd' = rd /\ lazy' = lazy /\ ps' = ps /\ processing' = [processing EXCEPT !.k = @ + 1]
    BY <1>2, <1>5 DEF Process_Dumper, Threads
  <2> QED
    BY <1>1, <2>1, OnwardStays DEF Round
<1>6. CASE Process_Other(k, t, t.id = processing.wanted /\ ps.crashed)
  <2> DEFINE crashed == t.id = processing.wanted /\ ps.crashed
  <2>1. PICK m : m = PartOf(Reading, <<"context", k>>)
    OBVIOUS
  <2>2. k \in 1..n /\ k \in 1..MaxItems
    BY <1>1, <1>2, MinidumpAssumption
  <2>3. IsThere(Reading, <<"context", k>>)
    <3>1. <<"context", k>> \in Parts /\ Owner(<<"context", k>>) = "ThreadList"
      BY <2>2 DEF Parts, Owner
    <3>2. InStream(<<"context", k>>, ThreadsVal)
      BY <1>2, <2>2 DEF InStream
    <3> QED
      BY <1>2, <1>3, <3>1, <3>2 DEF IsThere, Threads
  <2>4. Onward(Reading, m) /\ IsThere(m, <<"context", k>>) /\ MHolds(m)
    BY <1>3, <2>1, <2>3, ThereAsks, StaysThere DEF Onward
  <2>5. /\ t.id # processing.dumper
        /\ IF t.id = processing.wanted /\ processing.found
           THEN processing' = Ending("duplicate_requesting_threads") /\ rd' = m.s /\ lazy' = m.lazy /\ UNCHANGED ps
           ELSE Process_Stack(WithContext(m, k, crashed), k, t.id,
                              IF crashed THEN CrashedContext(WithContext(m, k, crashed), k) ELSE <<"context", k>>,
                              StackMemory(t, k, rd.streams["MemoryList"]))
    BY <1>6, <2>1 DEF Process_Other
  <2>6. CASE t.id = processing.wanted /\ processing.found
    <3>1. processing' = Ending("duplicate_requesting_threads") /\ rd' = m.s /\ lazy' = m.lazy /\ UNCHANGED ps
      BY <2>5, <2>6
    <3> QED
      BY <1>1, <2>4, <3>1, OnwardOf DEF Round
  <2>7. CASE ~(t.id = processing.wanted /\ processing.found)
    <3>1. PICK c : c = WithContext(m, k, crashed)
      OBVIOUS
    <3>2. PICK of : of = IF crashed THEN CrashedContext(c, k) ELSE <<"context", k>>
      OBVIOUS
    <3>3. PICK mem : mem = StackMemory(t, k, rd.streams["MemoryList"])
      OBVIOUS
    <3>4. Process_Stack(c, k, t.id, of, mem)
      BY <2>5, <2>7, <3>1, <3>2, <3>3
    <3>5. crashed => IsThere(m, Exc)
      <4>1. Exc \in Parts /\ Owner(Exc) = "Exception" /\ \A v : InStream(Exc, v)
        BY DEF Parts, Owner, Exc, InStream
      <4>2. crashed => rd.streams["Exception"] # NULL
        BY <1>1 DEF LoopOK
      <4>3. crashed => IsThere(Reading, Exc)
        BY <1>3, <4>1, <4>2 DEF IsThere
      <4> QED
        BY <2>4, <4>3, StaysThere
    <3>6. PICK w \in BOOLEAN : w <=> crashed
      OBVIOUS
    <3>7. /\ Onward(m, c)
          /\ crashed /\ c.lazy[Exc] = NULL => c.s.bad \/ PartVal(Exc, StreamVal("Exception")) = NULL
      <4>1. c = WithContext(m, k, w)
        BY <3>1, <3>6 DEF WithContext
      <4> HIDE DEF crashed
      <4> QED
        BY <1>3, <2>4, <3>5, <3>6, <4>1, ContextAsks
    <3>8. Onward(Reading, c) /\ MHolds(c)
      BY <2>4, <3>7, OnwardTwice DEF Onward
    <3>9. mem # NULL => IsThere(c, mem)
      <4>1. mem # NULL => IsThere(Reading, mem)
        BY <1>3, <2>3, <3>3, MemoryIsThere
      <4> QED
        BY <3>8, <4>1, StaysThere
    <3> HIDE DEF crashed, t
    <3>a. PICK used \in BOOLEAN, interrupted \in BOOLEAN, walker \in {c.lazy[of] # NULL /\ c.lazy[of].cpu # "none"} :
              /\ used => walker /\ mem # NULL
              /\ interrupted => walker
              /\ \E y \in {IF used THEN PartOf(c, mem) ELSE c} : rd' = y.s /\ lazy' = y.lazy
              /\ processing' = [processing EXCEPT !.k = @ + 1, !.found = @ \/ t.id = processing.wanted,
                                           !.interrupted = @ \/ interrupted]
              /\ ps' = [ps EXCEPT !.requesting = IF t.id = processing.wanted THEN NextIndex(ps, k) ELSE @,
                           !.threads = Append(@, [id |-> t.id, of |-> of, walked |-> walker, mem |-> mem]),
                           !.regions = Append(@, mem)]
      BY <3>4, Zenon DEF Process_Stack
    <3>10. /\ used => mem # NULL
           /\ rd' = (IF used THEN PartOf(c, mem) ELSE c).s
           /\ lazy' = (IF used THEN PartOf(c, mem) ELSE c).lazy
           /\ processing' = [processing EXCEPT !.k = @ + 1, !.found = @ \/ t.id = processing.wanted,
                                           !.interrupted = @ \/ interrupted]
              /\ ps' = [ps EXCEPT !.requesting = IF t.id = processing.wanted THEN NextIndex(ps, k) ELSE @,
                           !.threads = Append(@, [id |-> t.id, of |-> of, walked |-> walker, mem |-> mem]),
                           !.regions = Append(@, mem)]
      BY <3>a, Zenon
    <3>11. PICK x : x = IF used THEN PartOf(c, mem) ELSE c
      OBVIOUS
    <3>12. Onward(c, x)
      BY <1>3, <3>8, <3>9, <3>10, <3>11, ThereAsks, OnwardSelf
    <3>13. Onward(Reading, x) /\ rd' = x.s /\ lazy' = x.lazy
      BY <3>8, <3>10, <3>11, <3>12, OnwardTwice
    <3>14. OnwardStep
      BY <1>1, <3>13, OnwardOf
    <3>15. Pushed(k, t.id, of)
      BY <3>10 DEF Pushed
    <3>16. t.id = processing.wanted /\ ps.crashed => CrashOf(of)'
      <4> HAVE t.id = processing.wanted /\ ps.crashed
      <4>0. crashed
        BY DEF crashed
      <4>1. CASE c.lazy[Exc] # NULL
        <5>1. of = <<"exception", 0>>
          BY <3>2, <4>0, <4>1 DEF CrashedContext, Exc
        <5> QED
          BY <1>4, <5>1, CrashStays
      <4>2. CASE c.lazy[Exc] = NULL /\ c.s.bad
        <5>1. x = c
          BY <3>12, <4>2 DEF Onward
        <5> QED
          BY <1>4, <3>13, <4>2, <5>1, CrashStays
      <4>3. CASE c.lazy[Exc] = NULL /\ PartVal(Exc, StreamVal("Exception")) = NULL
        BY <1>2, <1>4, <4>3, CrashStays
      <4> QED
        BY <3>7, <4>0, <4>1, <4>2, <4>3
    <3> QED
      BY <2>5, <2>7, <3>14, <3>15, <3>16 DEF Round, t
  <2> QED
    BY <2>6, <2>7
<1> QED
  BY <1>1, <1>2, <1>5, <1>6
\* How the loop ends.
LEMMA EndReads ==
    ASSUME IInv, LoopOK, Process_End
    PROVE  /\ OnwardStep
           /\ processing.pc = "threads" /\ processing.k = Len(ThreadsVal) + 1
           /\ \/ processing' = Ending("interrupted") /\ ps' = ps
              \/ /\ processing' = Ending("ok")
                 /\ \E r : /\ ps' = [ps EXCEPT !.rating = r]
                           /\ r = "interesting" => lazy'[Exc] # NULL
<1>1. /\ processing.pc = "threads" /\ processing.k > Len(Threads)
      /\ UNCHANGED <<dump, len, reads, valid, directory>>
  BY DEF Process_End, Threads
<1>2. processing.k = Len(ThreadsVal) + 1
  <2>1. PICK n \in 0..MaxItems : Len(ThreadsVal) = n /\ processing.k \in 1..(n + 1) /\ Threads = ThreadsVal
    BY <1>1, LoopThreads
  <2> QED
    BY <1>1, <2>1, MinidumpAssumption
<1>3. MHolds(Reading) /\ FileOK /\ DirectoryOK /\ Reading.s = rd
  BY ReadingHolds
<1>4. CASE processing.interrupted
  <2>1. processing' = Ending("interrupted") /\ ps' = ps /\ rd' = rd /\ lazy' = lazy
    BY <1>4 DEF Process_End
  <2> QED
    BY <1>1, <1>2, <2>1, OnwardStays
<1>5. CASE ~processing.interrupted /\ ~EnableExploitability
  <2>1. processing' = Ending("ok") /\ ps' = [ps EXCEPT !.rating = "not_analyzed"] /\ rd' = rd /\ lazy' = lazy
    BY <1>5 DEF Process_End
  <2>2. \E r : ps' = [ps EXCEPT !.rating = r] /\ (r = "interesting" => lazy'[Exc] # NULL)
    BY <2>1
  <2> QED
    BY <1>1, <1>2, <2>1, <2>2, OnwardStays
<1>6. CASE ~processing.interrupted /\ EnableExploitability
  <2>1. PICK checked : \E x \in {ExploitabilityForPlatform(GetFixed(rd, "SystemInfo"), Reading, checked)} :
                          ps' = [ps EXCEPT !.rating = x.rating] /\ rd' = x.m.s /\ lazy' = x.m.lazy
    BY <1>6 DEF Process_End
  <2>2. PICK x : /\ x = ExploitabilityForPlatform(GetFixed(rd, "SystemInfo"), Reading, checked)
                 /\ ps' = [ps EXCEPT !.rating = x.rating] /\ rd' = x.m.s /\ lazy' = x.m.lazy
    BY <2>1
  <2>3. IsRating(Reading, x)
    <3>1. IsRating(Reading, ExploitabilityForPlatform(GetFixed(Reading.s, "SystemInfo"), Reading, checked))
      BY <1>3, RatingAsks
    <3> QED
      BY <1>3, <2>2, <3>1
  <2>4. Onward(Reading, x.m) /\ (x.rating = "interesting" => lazy'[Exc] # NULL)
    BY <2>2, <2>3 DEF IsRating, Exc
  <2>5. \E r : ps' = [ps EXCEPT !.rating = r] /\ (r = "interesting" => lazy'[Exc] # NULL)
    BY <2>2, <2>4
  <2>6. processing' = Ending("ok")
    BY <1>6 DEF Process_End
  <2> QED
    BY <1>1, <1>2, <2>2, <2>4, <2>5, <2>6, OnwardOf
<1> QED
  BY <1>4, <1>5, <1>6

\* Once Process() has found a header, the directory stays what it is for good,
\* unless a read fails, after which there is none any more.
LEMMA OtherGoes ==
    ASSUME IInv, Next, valid \/ rd.bad
    PROVE  /\ IInv' /\ FailureStays
           /\ (valid /\ valid' /\ SameDirectory) \/ (~valid' /\ rd'.bad)
<1>1. IInv'
  BY NextKeeps
<1>2. FailureStays
  <2>1. CASE UNCHANGED minidump
    BY <2>1 DEF minidump, FailureStays
  <2> QED
    BY <2>1, NextKeeps
<1>3. CASE Read
  <2>1. /\ valid' \in BOOLEAN
        /\ directory' = (IF valid' THEN DirectoryVal ELSE <<>>)
        /\ rd.bad => rd'.bad /\ ~valid'
        /\ ~rd.bad /\ Readable => valid'
        /\ SameFile
    BY <1>3, ReadReads
  <2>2. CASE rd.bad
    BY <1>1, <1>2, <2>1, <2>2
  <2>3. CASE ~rd.bad
    <3>1. valid /\ Readable /\ directory = DirectoryVal
      BY <2>3 DEF IInv
    <3>2. valid' = TRUE /\ valid = TRUE
      BY <2>1, <2>3, <3>1 DEF IInv
    <3> QED
      BY <1>1, <1>2, <2>1, <3>1, <3>2 DEF SameDirectory
  <2> QED
    BY <2>2, <2>3
<1>4. CASE ~Read
  <2>1. SameDirectory
    BY <1>4 DEF Next, Get_Stream, Get_Part, FreeMemory, Get_Records, SameDirectory, SameFile
  <2> QED
    BY <1>1, <1>2, <2>1 DEF SameDirectory, FailureStays
<1> QED
  BY <1>3, <1>4

\* Without a directory nothing is kept.
LEMMA NothingKept ==
    ASSUME IInv, ~valid
    PROVE  /\ \A t \in StreamTypes : rd.streams[t] = NULL
           /\ \A p \in Parts : lazy[p] = NULL
<1>1. Holds(rd, lazy)
  BY InvGives
<1>2. \A t \in StreamTypes : rd.streams[t] = NULL
  BY <1>1, KeptInDirectory DEF InDirectory
<1>3. \A p \in Parts : Owner(p) \in StreamTypes
  BY PartKinds DEF Plain
<1> QED
  BY <1>1, <1>2, <1>3 DEF Holds, KeepsParts
---------------------------------------------------------------------------
(* The records that Process() keeps, field by field.                       *)

IsProcessing(p) ==
    p = [pc |-> p.pc, k |-> p.k, calls |-> p.calls, result |-> p.result, dumper |-> p.dumper, wanted |-> p.wanted,
         found |-> p.found, interrupted |-> p.interrupted]

IsProcessState(p) ==
    p = [crashed |-> p.crashed, address |-> p.address, assertion |-> p.assertion, system |-> p.system,
         requesting |-> p.requesting, threads |-> p.threads, modules |-> p.modules, regions |-> p.regions,
         rating |-> p.rating]

LEMMA NextRound ==
    ASSUME NEW p, IsProcessing(p), NEW q, q = [p EXCEPT !.k = @ + 1]
    PROVE  /\ IsProcessing(q) /\ q.pc = p.pc /\ q.k = p.k + 1 /\ q.calls = p.calls /\ q.result = p.result
           /\ q.dumper = p.dumper /\ q.wanted = p.wanted /\ q.found = p.found
BY DEF IsProcessing

LEMMA EndedAs ==
    ASSUME IsProcessing(processing), NEW r, NEW q, q = Ending(r)
    PROVE  /\ IsProcessing(q) /\ q.pc = "idle" /\ q.k = processing.k /\ q.calls = processing.calls /\ q.result = r
           /\ q.dumper = processing.dumper /\ q.wanted = processing.wanted /\ q.found = processing.found
BY DEF IsProcessing, Ending

LEMMA CalledIs ==
    ASSUME IsProcessing(processing)
    PROVE  /\ IsProcessing(Called) /\ Called.pc = processing.pc /\ Called.k = 1 /\ Called.calls = processing.calls + 1
           /\ Called.result = NULL /\ Called.found = FALSE /\ Called.wanted = processing.wanted
<1>1. PICK a, b, c, d, e, f, g, h :
          processing = [pc |-> a, k |-> b, calls |-> c, result |-> d, dumper |-> e, wanted |-> f, found |-> g,
                        interrupted |-> h]
  BY DEF IsProcessing
<1>2. PICK z : z = FALSE
  OBVIOUS
<1>3. Called = [processing EXCEPT !.calls = @ + 1, !.found = z, !.interrupted = z, !.k = 1, !.result = NULL]
  BY <1>2 DEF Called
<1>4. Called = [pc |-> a, k |-> 1, calls |-> c + 1, result |-> NULL, dumper |-> e, wanted |-> f, found |-> z,
                interrupted |-> z]
  BY <1>1, <1>3
<1>5. IsProcessing(Called)
  BY <1>4 DEF IsProcessing
<1> QED
  BY <1>1, <1>2, <1>4, <1>5

LEMMA CalledEnds ==
    ASSUME NEW p, IsProcessing(p), NEW r, NEW q, q = [p EXCEPT !.result = r]
    PROVE  IsProcessing(q) /\ q.pc = p.pc /\ q.k = p.k /\ q.calls = p.calls /\ q.result = r /\ q.found = p.found
BY DEF IsProcessing

LEMMA StateRated ==
    ASSUME NEW p, IsProcessState(p), NEW x, NEW q, q = [p EXCEPT !.rating = x]
    PROVE  /\ IsProcessState(q) /\ q.crashed = p.crashed /\ q.requesting = p.requesting /\ q.threads = p.threads
           /\ q.regions = p.regions /\ q.modules = p.modules /\ q.rating = x
BY DEF IsProcessState

LEMMA StateCleared ==
    ASSUME NEW p, IsProcessState(p), NEW q, q = Cleared(p)
    PROVE  /\ IsProcessState(q) /\ q.requesting = -1 /\ q.threads = <<>> /\ q.regions = p.regions /\ q.modules = {}
           /\ q.crashed = FALSE
BY DEF IsProcessState, Cleared

\* Sequences of whatever.
IsSequence(q) == q \in Seq({q[i] : i \in 1..Len(q)}) /\ Len(q) \in Nat /\ DOMAIN q = 1..Len(q)

LEMMA NoElement == IsSequence(<<>>) /\ Len(<<>>) = 0
<1>1. <<>> \in Seq({<<>>[i] : i \in 1..Len(<<>>)}) /\ Len(<<>>) = 0
  OBVIOUS
<1> QED
  BY <1>1 DEF IsSequence

LEMMA OneMoreElement ==
    ASSUME NEW q, IsSequence(q), NEW x
    PROVE  /\ IsSequence(Append(q, x)) /\ Len(Append(q, x)) = Len(q) + 1
           /\ \A i \in 1..Len(q) : Append(q, x)[i] = q[i]
           /\ Append(q, x)[Len(q) + 1] = x
<1> DEFINE S == {q[i] : i \in 1..Len(q)} \cup {x}
<1>1. q \in Seq(S) /\ x \in S
  BY DEF IsSequence
<1> HIDE DEF S
<1>2. PICK w : w = Append(q, x)
  OBVIOUS
<1>3. /\ w \in Seq(S) /\ Len(w) = Len(q) + 1 /\ DOMAIN w = 1..Len(w)
      /\ \A i \in 1..Len(q) : w[i] = q[i]
      /\ w[Len(q) + 1] = x
  BY <1>1, <1>2, AppendProperties
<1>4. w \in Seq({w[i] : i \in 1..Len(w)})
  BY <1>3
<1>5. IsSequence(w)
  BY <1>3, <1>4 DEF IsSequence
<1> QED
  BY <1>2, <1>3, <1>5
---------------------------------------------------------------------------
(* The stacks and the list they follow.                                    *)

\* How many of the first i threads have a stack.
RankOf(l, dumper, i) == Cardinality({j \in 1..i : l[j].id # dumper})

LEMMA RankBegins == ASSUME NEW l, NEW d PROVE RankOf(l, d, 0) = 0
<1>1. {j \in 1..0 : l[j].id # d} = {}
  OBVIOUS
<1> QED
  BY <1>1, FS_EmptySet DEF RankOf

LEMMA RankGrows ==
    ASSUME NEW l, NEW d, NEW i \in Nat
    PROVE  /\ RankOf(l, d, i) \in Nat
           /\ l[i + 1].id # d => RankOf(l, d, i + 1) = RankOf(l, d, i) + 1
           /\ l[i + 1].id = d => RankOf(l, d, i + 1) = RankOf(l, d, i)
<1> DEFINE S == {j \in 1..i : l[j].id # d}
           T == {j \in 1..(i + 1) : l[j].id # d}
<1>1. IsFiniteSet(S) /\ Cardinality(S) \in Nat
  <2>1. IsFiniteSet(1..i) /\ S \in SUBSET (1..i)
    BY FS_Interval
  <2> HIDE DEF S
  <2> QED
    BY <2>1, FS_Subset, FS_CardinalityType
<1>2. CASE l[i + 1].id # d
  <2>1. T = S \cup {i + 1} /\ (i + 1) \notin S
    BY <1>2
  <2> HIDE DEF S, T
  <2>2. Cardinality(T) = Cardinality(S) + 1
    BY <1>1, <2>1, FS_AddElement
  <2> QED
    BY <1>1, <1>2, <2>2 DEF RankOf, S, T
<1>3. CASE l[i + 1].id = d
  <2>1. T = S
    BY <1>3
  <2> HIDE DEF S, T
  <2>2. Cardinality(T) = Cardinality(S)
    BY <1>1, <2>1
  <2> QED
    BY <1>1, <1>3, <2>2 DEF RankOf, S, T
<1> QED
  BY <1>2, <1>3

\* The threads before another one have no higher rank than it.
LEMMA RankOrder ==
    ASSUME NEW l, NEW d, NEW n \in Nat, NEW i \in 1..n, l[i].id # d
    PROVE  RankOf(l, d, i) \in 1..RankOf(l, d, n)
<1> DEFINE S == {j \in 1..i : l[j].id # d}
           T == {j \in 1..n : l[j].id # d}
<1>1. S \in SUBSET T /\ T \in SUBSET (1..n) /\ IsFiniteSet(1..n)
  BY FS_Interval
<1>2. Cardinality(S) <= Cardinality(T)
  <2> HIDE DEF S, T
  <2> QED
    BY <1>1, FS_Subset
<1>3. i - 1 \in Nat /\ i = (i - 1) + 1
  OBVIOUS
<1>4. RankOf(l, d, i - 1) \in Nat /\ RankOf(l, d, i) = RankOf(l, d, i - 1) + 1
  BY <1>3, RankGrows
<1>5. RankOf(l, d, n) \in Nat
  BY RankGrows
<1> QED
  BY <1>2, <1>4, <1>5 DEF RankOf, S, T

\* In p the loop has come to some thread; q has the stacks of those before it.
Follows(l, p, q) ==
    /\ l # NULL
    /\ p.k \in 1..(Len(l) + 1)
    /\ Len(q.threads) = RankOf(l, p.dumper, p.k - 1)
    /\ \A i \in 1..(p.k - 1) : l[i].id # p.dumper => q.threads[RankOf(l, p.dumper, i)].id = l[i].id
    /\ p.found \/ \A i \in 1..(p.k - 1) : l[i].id = p.wanted => p.wanted = p.dumper

LEMMA FollowsFirst ==
    ASSUME NEW l, l # NULL, Len(l) \in Nat, NEW p, p.k = 1, NEW q, q.threads = <<>>
    PROVE  Follows(l, p, q)
<1>1. p.k - 1 = 0 /\ Len(q.threads) = 0
  BY NoElement
<1>2. RankOf(l, p.dumper, p.k - 1) = 0
  BY <1>1, RankBegins
<1> QED
  BY <1>1, <1>2 DEF Follows

LEMMA FollowsDumper ==
    ASSUME NEW l, NEW n \in Nat, Len(l) = n, NEW p, NEW q, Follows(l, p, q), p.k <= n, l[p.k].id = p.dumper,
           NEW v, v.k = p.k + 1, v.dumper = p.dumper, v.wanted = p.wanted, v.found = p.found
    PROVE  Follows(l, v, q)
<1>1. PICK k \in 1..n : k = p.k
  BY DEF Follows
<1>2. k - 1 \in Nat /\ k = (k - 1) + 1 /\ v.k - 1 = k
  BY <1>1
<1>3. RankOf(l, p.dumper, k) = RankOf(l, p.dumper, k - 1) + 0 /\ RankOf(l, p.dumper, k - 1) \in Nat
  BY <1>1, <1>2, RankGrows
<1>4. Len(q.threads) = RankOf(l, v.dumper, v.k - 1)
  BY <1>1, <1>2, <1>3 DEF Follows
<1>5. \A i \in 1..k : i = k \/ i \in 1..(k - 1)
  OBVIOUS
<1>6. \A i \in 1..k : l[i].id # p.dumper => q.threads[RankOf(l, p.dumper, i)].id = l[i].id
  BY <1>1, <1>5 DEF Follows
<1>7. p.found \/ \A i \in 1..k : l[i].id = p.wanted => p.wanted = p.dumper
  BY <1>1, <1>5 DEF Follows
<1> QED
  BY <1>1, <1>2, <1>4, <1>6, <1>7 DEF Follows

LEMMA FollowsPushed ==
    ASSUME NEW l, NEW n \in Nat, Len(l) = n, NEW p, NEW q, Follows(l, p, q), p.k <= n, l[p.k].id # p.dumper,
           IsSequence(q.threads), NEW x, x.id = l[p.k].id,
           NEW v, v.k = p.k + 1, v.dumper = p.dumper, v.wanted = p.wanted, v.found <=> p.found \/ x.id = p.wanted,
           NEW w, w.threads = Append(q.threads, x)
    PROVE  Follows(l, v, w)
<1>1. PICK k \in 1..n : k = p.k
  BY DEF Follows
<1>2. k - 1 \in Nat /\ k = (k - 1) + 1 /\ v.k - 1 = k
  BY <1>1
<1>3. RankOf(l, p.dumper, k) = RankOf(l, p.dumper, k - 1) + 1 /\ RankOf(l, p.dumper, k - 1) \in Nat
  <2>1. l[k].id # p.dumper
    BY <1>1
  <2>2. PICK j \in Nat : j = k - 1 /\ k = j + 1
    BY <1>2
  <2>3. PICK d : d = p.dumper
    OBVIOUS
  <2>4. RankOf(l, d, j) \in Nat
    BY RankGrows
  <2>5. l[j + 1].id # d => RankOf(l, d, j + 1) = RankOf(l, d, j) + 1
    BY RankGrows
  <2> QED
    BY <2>1, <2>2, <2>3, <2>4, <2>5
<1>4. /\ Len(w.threads) = Len(q.threads) + 1
      /\ \A i \in 1..Len(q.threads) : w.threads[i] = q.threads[i]
      /\ w.threads[Len(q.threads) + 1] = x
  BY OneMoreElement
<1>5. Len(q.threads) = RankOf(l, p.dumper, k - 1)
  BY <1>1 DEF Follows
<1>6. \A i \in 1..k : i = k \/ i \in 1..(k - 1)
  OBVIOUS
<1>7. ASSUME NEW i \in 1..k, l[i].id # p.dumper
      PROVE  w.threads[RankOf(l, p.dumper, i)].id = l[i].id
  <2>1. CASE i = k
    BY <1>1, <1>3, <1>4, <1>5, <2>1
  <2>2. CASE i \in 1..(k - 1)
    <3>1. RankOf(l, p.dumper, i) \in 1..Len(q.threads)
      BY <1>2, <1>5, <1>7, <2>2, RankOrder
    <3>2. q.threads[RankOf(l, p.dumper, i)].id = l[i].id
      BY <1>1, <1>7, <2>2 DEF Follows
    <3> QED
      BY <1>4, <3>1, <3>2
  <2> QED
    BY <1>6, <2>1, <2>2
<1>8. v.found \/ \A i \in 1..k : l[i].id = p.wanted => p.wanted = p.dumper
  BY <1>1, <1>6 DEF Follows
<1>9. Len(w.threads) = RankOf(l, v.dumper, v.k - 1) /\ v.k \in 1..(Len(l) + 1)
  BY <1>1, <1>2, <1>3, <1>4, <1>5
<1> QED
  BY <1>1, <1>2, <1>7, <1>8, <1>9 DEF Follows
\* The memory that is kept of the stacks, behind what earlier calls have left.
RegionsFit(p, q) ==
    /\ Len(q.regions) >= Len(q.threads)
    /\ \A i \in 1..Len(q.threads) : q.regions[Len(q.regions) - Len(q.threads) + i] = q.threads[i].mem
    /\ p.calls = 0 => Len(q.regions) = 0
    /\ p.calls <= 1 => Len(q.regions) = Len(q.threads)

LEMMA TailIndex ==
    ASSUME NEW a \in Nat, NEW b \in Nat, a <= b, NEW i \in 1..(a + 1)
    PROVE  /\ i = a + 1 => (b + 1) - (a + 1) + i = b + 1
           /\ i # a + 1 => i \in 1..a /\ (b + 1) - (a + 1) + i = b - a + i /\ b - a + i \in 1..b
OBVIOUS

LEMMA RegionsPushed ==
    ASSUME NEW p, NEW q, RegionsFit(p, q), IsSequence(q.threads), IsSequence(q.regions), p.calls \in Nat, p.calls > 0,
           NEW v, v.calls = p.calls, NEW x, NEW mem, x.mem = mem,
           NEW w, w.threads = Append(q.threads, x), w.regions = Append(q.regions, mem)
    PROVE  RegionsFit(v, w)
<1>1. /\ Len(w.threads) = Len(q.threads) + 1 /\ Len(q.threads) \in Nat
      /\ \A i \in 1..Len(q.threads) : w.threads[i] = q.threads[i]
      /\ w.threads[Len(q.threads) + 1] = x
  BY OneMoreElement DEF IsSequence
<1>2. /\ Len(w.regions) = Len(q.regions) + 1 /\ Len(q.regions) \in Nat
      /\ \A i \in 1..Len(q.regions) : w.regions[i] = q.regions[i]
      /\ w.regions[Len(q.regions) + 1] = mem
  BY OneMoreElement DEF IsSequence
<1>3. PICK a \in Nat, b \in Nat : a = Len(q.threads) /\ b = Len(q.regions)
  BY <1>1, <1>2
<1>4. a <= b /\ \A i \in 1..a : q.regions[b - a + i] = q.threads[i].mem
  BY <1>3 DEF RegionsFit
<1>5. ASSUME NEW i \in 1..(a + 1)
      PROVE  w.regions[(b + 1) - (a + 1) + i] = w.threads[i].mem
  <2>1. CASE i = a + 1
    <3>1. (b + 1) - (a + 1) + i = b + 1
      BY <1>3, <1>4, <2>1, TailIndex
    <3> QED
      BY <1>1, <1>2, <1>3, <2>1, <3>1
  <2>2. CASE i # a + 1
    <3>1. i \in 1..a /\ (b + 1) - (a + 1) + i = b - a + i /\ b - a + i \in 1..b
      BY <1>3, <1>4, <2>2, TailIndex
    <3> QED
      BY <1>1, <1>2, <1>3, <1>4, <2>2, <3>1
  <2> QED
    BY <2>1, <2>2
<1>6. Len(w.threads) = a + 1 /\ Len(w.regions) = b + 1 /\ b + 1 >= a + 1
  BY <1>1, <1>2, <1>3, <1>4
<1>7. p.calls <= 1 => b = a
  BY <1>3 DEF RegionsFit
<1>8. \A i \in 1..Len(w.threads) : w.regions[Len(w.regions) - Len(w.threads) + i] = w.threads[i].mem
  BY <1>5, <1>6
<1>9. v.calls # 0 /\ (v.calls <= 1 => Len(w.regions) = Len(w.threads))
  BY <1>6, <1>7
<1> QED
  BY <1>6, <1>8, <1>9 DEF RegionsFit

\* requesting_thread_ is -1 or the place of the wanted thread's stack.
RequestedIs(p, q) ==
    /\ q.requesting \in Int /\ -1 <= q.requesting /\ q.requesting < Len(q.threads)
    /\ p.found \in BOOLEAN
    /\ p.found <=> q.requesting # -1
    /\ q.requesting # -1 => q.threads[q.requesting + 1].id = p.wanted

LEMMA RequestedPushed ==
    ASSUME NEW p, NEW q, RequestedIs(p, q), IsSequence(q.threads),
           NEW x, NEW v, v.wanted = p.wanted, v.found \in BOOLEAN, v.found <=> p.found \/ x.id = p.wanted,
           NEW w, w.threads = Append(q.threads, x),
           w.requesting = IF x.id = p.wanted THEN Len(q.threads) ELSE q.requesting
    PROVE  RequestedIs(v, w)
<1>1. /\ Len(w.threads) = Len(q.threads) + 1 /\ Len(q.threads) \in Nat
      /\ \A i \in 1..Len(q.threads) : w.threads[i] = q.threads[i]
      /\ w.threads[Len(q.threads) + 1] = x
  BY OneMoreElement DEF IsSequence
<1>2. PICK a \in Nat : a = Len(q.threads)
  BY <1>1
<1>3. PICK r \in -1..(a - 1) : r = q.requesting
  BY <1>2 DEF RequestedIs
<1>4. CASE x.id = p.wanted
  <2>1. w.requesting = a
    BY <1>2, <1>4
  <2> QED
    BY <1>1, <1>2, <1>4, <2>1 DEF RequestedIs
<1>5. CASE x.id # p.wanted
  <2>1. w.requesting = r
    BY <1>3, <1>5
  <2>2. r # -1 => r + 1 \in 1..a /\ q.threads[r + 1].id = p.wanted
    BY <1>2, <1>3 DEF RequestedIs
  <2>3. v.found <=> r # -1
    BY <1>3, <1>5 DEF RequestedIs
  <2> QED
    BY <1>1, <1>2, <1>3, <2>1, <2>2, <2>3 DEF RequestedIs
<1> QED
  BY <1>4, <1>5

LEMMA RequestedNone ==
    ASSUME NEW p, p.found = FALSE, NEW q, q.requesting = -1, q.threads = <<>>
    PROVE  RequestedIs(p, q)
<1>1. Len(q.threads) = 0 /\ p.found \in BOOLEAN /\ ~p.found
  BY NoElement
<1> QED
  BY <1>1 DEF RequestedIs
---------------------------------------------------------------------------
(* The modules that Process() copies, one after the other.                 *)

Copying(c, cells, n) == c[0] = {} /\ \A i \in 1..n : c[i] = Fitting(c[i - 1], cells[i], i)

\* modules are those of n cells that fit.
IsCopy(modules, cells, n) == \E c : Copying(c, cells, n) /\ modules = c[n]

LEMMA FittingRanges ==
    ASSUME NEW map \in SUBSET Ranges, NEW m, IsCell(m), NEW i \in Nat
    PROVE  Fitting(map, m, i) \in SUBSET Ranges
<1>1. Get(m, "base") \in Nat /\ Get(m, "size") \in Nat
  BY DEF IsCell, Unsigned
<1>2. PICK a \in Nat, b \in Nat : a = Get(m, "base") /\ b = Get(m, "size")
  BY <1>1
<1>3. Wrap(a + b - 1) \in Int /\ a \in Int
  BY AddrSpaceAssumption DEF Wrap
<1>4. [base |-> a, high |-> Wrap(a + b - 1), index |-> i] \in Ranges
  BY <1>3 DEF Ranges
<1> QED
  BY <1>2, <1>4 DEF Fitting, StoreRange

LEMMA CopyInSteps ==
    ASSUME NEW v, NEW n \in Nat, DOMAIN v.items = 1..n, NEW cells,
           \A i \in 1..n : v.items[i].raw = cells[i] /\ IsCell(cells[i])
    PROVE  IsCopy(Copy(v), cells, n)
<1> DEFINE X == SUBSET Ranges
           x0 == {}
           step == [i \in 1..n |-> [p \in X |-> Fitting(p, cells[i], i)]]
           seq == [i \in DOMAIN v.items |-> i]
           it == CHOOSE it : it = [s \in SUBSET (1..n) |->
                    IF s = {} THEN x0 ELSE Fitting(it[s \ {Max(s)}], v.items[seq[Max(s)]].raw, seq[Max(s)])]
<1>1. x0 \in X
  OBVIOUS
<1>3. \A i \in 1..n : \A p \in X : Fitting(p, cells[i], i) \in X
  BY FittingRanges
<1> HIDE DEF X, x0
<1>4. \A i \in 1..n : \A p \in X : step[i][p] = Fitting(p, cells[i], i)
  OBVIOUS
<1>5. \A i \in 1..n : \A p \in X : step[i][p] \in X
  BY <1>3, <1>4
<1> HIDE DEF step
<1>6. DOMAIN seq = 1..n /\ \A i \in 1..n : seq[i] = i
  OBVIOUS
<1> HIDE DEF seq
<1> DEFINE Body(g, s) == Fitting(g[s \ {Max(s)}], v.items[seq[Max(s)]].raw, seq[Max(s)])
<1>8. \A g : \A s \in SUBSET (1..n) : s # {} /\ g[s \ {Max(s)}] \in X => Body(g, s) = step[Max(s)][g[s \ {Max(s)}]]
  <2> SUFFICES ASSUME NEW g, NEW s \in SUBSET (1..n), s # {}, g[s \ {Max(s)}] \in X
               PROVE  Body(g, s) = step[Max(s)][g[s \ {Max(s)}]]
    OBVIOUS
  <2>1. Max(s) \in 1..n
    BY MaxUpTo
  <2>2. seq[Max(s)] = Max(s) /\ v.items[Max(s)].raw = cells[Max(s)]
    BY <1>6, <2>1
  <2>3. step[Max(s)][g[s \ {Max(s)}]] = Fitting(g[s \ {Max(s)}], cells[Max(s)], Max(s))
    BY <1>4, <2>1
  <2> QED
    BY <2>2, <2>3
<1>9. it = [s \in SUBSET (1..n) |-> IF s = {} THEN x0 ELSE Body(it, s)]
  <2>1. PICK g : IsFold(g, n, X, x0, step)
    BY <1>1, <1>5, FoldExists
  <2>2. g \in [SUBSET (1..n) -> X] /\ \A s \in SUBSET (1..n) : g[s] = IF s = {} THEN x0 ELSE step[Max(s)][g[s \ {Max(s)}]]
    BY <2>1 DEF IsFold
  <2>3. \A s \in SUBSET (1..n) : s # {} => g[s \ {Max(s)}] \in X
    BY <2>2
  <2>4. \A s \in SUBSET (1..n) : g[s] = IF s = {} THEN x0 ELSE Body(g, s)
    BY <1>8, <2>2, <2>3
  <2>5. g = [s \in SUBSET (1..n) |-> g[s]]
    BY <2>2
  <2> HIDE DEF Body
  <2>6. g = [s \in SUBSET (1..n) |-> IF s = {} THEN x0 ELSE Body(g, s)]
    BY <2>4, <2>5
  <2> USE DEF Body
  <2> QED
    BY <2>6, Zenon
<1>10. Copy(v) = it[1..n]
  <2>1. FoldLeft(LAMBDA map, i : Fitting(map, v.items[i].raw, i), x0, seq) = it[1..n]
    BY <1>6, Zenon DEF FoldLeft, MapThenFoldSet
  <2> HIDE DEF it
  <2> QED
    BY <2>1, Zenon DEF Copy, x0, seq
<1> HIDE DEF it
<1>11. it[{}] = x0
  BY <1>9
<1>12. \A s \in SUBSET (1..n) : s # {} /\ it[s \ {Max(s)}] \in X => it[s] = step[Max(s)][it[s \ {Max(s)}]]
  <2>1. \A s \in SUBSET (1..n) : it[s] = IF s = {} THEN x0 ELSE Body(it, s)
    <3> HIDE DEF Body
    <3> QED
      BY <1>9
  <2> HIDE DEF Body
  <2> QED
    BY <1>8, <2>1
<1> HIDE DEF Body
<1>13. PICK f : Steps(f, n, X, x0, step) /\ f[n] = it[1..n]
  <2>1. FoldsBy(it, n, X, x0, step)
    BY <1>11, <1>12 DEF FoldsBy
  <2> QED
    <3>1. \E f : StepsTo(it[1..n], f, n, X, x0, step)
      BY <1>1, <1>5, <2>1, FoldSteps
    <3> QED
      BY <3>1 DEF StepsTo
<1>14. f[0] = x0 /\ (\A i \in 0..n : f[i] \in X) /\ \A i \in 1..n : f[i] = step[i][f[i - 1]]
  BY <1>13 DEF Steps
<1>15. \A i \in 1..n : f[i] = Fitting(f[i - 1], cells[i], i)
  <2>1. \A i \in 1..n : i - 1 \in 0..n
    OBVIOUS
  <2> QED
    BY <1>4, <1>14, <2>1
<1>16. Copying(f, cells, n)
  BY <1>14, <1>15 DEF Copying, x0
<1> QED
  BY <1>10, <1>13, <1>16 DEF IsCopy

\* Every address from lo to hi is in one of the ranges.
Filled(map, lo, hi) == \A a \in Int : lo <= a /\ a <= hi => \E r \in map : r.base <= a /\ a <= r.high

\* What the copy of the first i modules has to do with the map that the reader
\* has made of them: its ranges are those of whole modules, it has the ones
\* that are whole in the map, and it has no address that the map has not.  The
\* map has no gap from one of the copy's modules on to the last address.
Beside(map, last, copy, items, i) ==
    /\ \A r \in copy : r.index \in 1..i /\ r.base = BaseOf(items, r.index) /\ r.high = EndOf(items, r.index) - 1
    /\ \A r \in map : r.base = BaseOf(items, r.index) => r \in copy
    /\ \A r \in copy : Filled(map, r.base, r.high)
    /\ last = 0 \/ \E r \in copy : r.base < last /\ Filled(map, r.base, last - 1)

\* How the copy takes one more module.
LEMMA FittingOne ==
    ASSUME NEW map, NEW m, Get(m, "base") \in Nat, Get(m, "size") \in Nat, Sound(m), NEW i,
           NEW base, base = Get(m, "base"), NEW end, end = Get(m, "base") + Get(m, "size")
    PROVE  \/ FreeOf(map, base, end - 1) /\ Fitting(map, m, i) = map \cup {[base |-> base, high |-> end - 1, index |-> i]}
           \/ ~FreeOf(map, base, end - 1) /\ Fitting(map, m, i) = map
<1>1. PICK s \in Nat : s = Get(m, "size")
  OBVIOUS
<1>2. base \in Nat /\ s # 0 /\ s <= AddrSpace - 1 - base /\ AddrSpace \in Nat \ {0} /\ end = base + s
  BY <1>1, AddrSpaceAssumption DEF Sound, FitsIn
<1>3. base + s - 1 = end - 1 /\ end - 1 \in 0..(AddrSpace - 1) /\ end - 1 >= base /\ s > 0
  BY <1>2
<1>4. Wrap(base + s - 1) = end - 1
  BY <1>3, WrapSmall
<1>5. Storable(map, base, s) <=> FreeOf(map, base, end - 1)
  BY <1>3, <1>4 DEF Storable, FreeOf
<1>6. StoreRange(map, base, s, i) = map \cup {[base |-> base, high |-> end - 1, index |-> i]}
  BY <1>4 DEF StoreRange
<1> QED
  BY <1>1, <1>5, <1>6 DEF Fitting

\* When no address of the map is in a range, none of the copy is.
LEMMA CopyIsFree ==
    ASSUME NEW map, NEW copy, NEW lo \in Int, NEW hi \in Int, FreeOf(map, lo, hi), lo <= hi,
           \A r \in map \cup copy : r.base \in Int /\ r.high \in Int /\ r.base <= r.high,
           \A r \in copy : Filled(map, r.base, r.high)
    PROVE  FreeOf(copy, lo, hi)
<1> SUFFICES ASSUME NEW r \in copy, ~(hi < r.base \/ r.high < lo)
             PROVE  FALSE
  BY DEF FreeOf
<1>1. PICK a \in Int : r.base <= a /\ a <= r.high /\ lo <= a /\ a <= hi
  <2>1. r.base \in Int /\ r.high \in Int /\ r.base <= r.high
    OBVIOUS
  <2>2. CASE r.base <= lo
    BY <2>1, <2>2
  <2>3. CASE lo < r.base
    BY <2>1, <2>3
  <2> QED
    BY <2>1, <2>2, <2>3
<1>2. PICK x \in map : x.base <= a /\ a <= x.high
  BY <1>1 DEF Filled
<1>3. x.base \in Int /\ x.high \in Int /\ (hi < x.base \/ x.high < lo)
  BY DEF FreeOf
<1> QED
  BY <1>1, <1>2, <1>3

LEMMA FilledMore ==
    ASSUME NEW map, NEW more, NEW lo, NEW hi, Filled(map, lo, hi)
    PROVE  Filled(map \cup more, lo, hi)
BY DEF Filled

\* What is filled up to a range and the range.
LEMMA FilledOn ==
    ASSUME NEW map, NEW lo \in Int, NEW at \in Int, NEW hi \in Int, Filled(map, lo, at - 1),
           NEW r \in map, r.base = at, r.high = hi
    PROVE  Filled(map, lo, hi)
<1> SUFFICES ASSUME NEW a \in Int, lo <= a, a <= hi
             PROVE  \E x \in map : x.base <= a /\ a <= x.high
  BY DEF Filled
<1>1. CASE a <= at - 1
  BY <1>1 DEF Filled
<1>2. CASE at <= a
  BY <1>2
<1> QED
  BY <1>1, <1>2

NoneEmpty(map) == \A r \in map : r.base <= r.high

ProperEnds(items, i) ==
    \A j \in 1..i : /\ BaseOf(items, j) \in Nat /\ EndOf(items, j) \in 1..(AddrSpace - 1)
                    /\ BaseOf(items, j) < EndOf(items, j)

\* How the copy goes from c to d by the i-th module, from base up to end.
Copied(c, d, base, end, i) ==
    \/ FreeOf(c, base, end - 1) /\ d = c \cup {[base |-> base, high |-> end - 1, index |-> i]}
    \/ ~FreeOf(c, base, end - 1) /\ d = c

\* One more module, in the reader's map and in the copy.
LEMMA OneMoreCopied ==
    ASSUME NEW items, NEW i \in Nat \ {0}, ProperEnds(items, i), ~IsAshmem(items[i]),
           NEW p, NEW q, LastIs(p.last, items, i - 1), Inside(p.map, items, i - 1), NoneEmpty(p.map),
           TakesPlace(p, q, BaseOf(items, i), EndOf(items, i) - BaseOf(items, i), items[i], i),
           NEW c, NEW d, Beside(p.map, p.last, c, items, i - 1),
           NEW base, base = BaseOf(items, i), NEW end, end = EndOf(items, i), Copied(c, d, base, end, i)
    PROVE  Beside(q.map, q.last, d, items, i) /\ NoneEmpty(q.map)
<1>0. /\ \A j \in 1..i : /\ BaseOf(items, j) \in Nat /\ EndOf(items, j) \in 1..(AddrSpace - 1)
                         /\ BaseOf(items, j) < EndOf(items, j)
      /\ \A r \in p.map : r.base <= r.high
      /\ \/ FreeOf(c, base, end - 1) /\ d = c \cup {[base |-> base, high |-> end - 1, index |-> i]}
         \/ ~FreeOf(c, base, end - 1) /\ d = c
  BY DEF ProperEnds, NoneEmpty, Copied
<1>1. base \in Nat /\ end \in Nat /\ base < end /\ base + (end - base) = end /\ base + (end - base) - 1 = end - 1
      /\ base <= end - 1 /\ end - 1 \in Int
  BY <1>0
<1>2. PICK lo \in Int : /\ q.last = end /\ lo <= end - 1
                        /\ q.map = p.map \cup {[base |-> lo, high |-> end - 1, index |-> i]}
                        /\ (lo = base /\ FreeOf(p.map, base, end - 1)) \/ (base < p.last /\ lo = p.last)
  BY <1>1 DEF TakesPlace
<1>3. PICK x : x = [base |-> lo, high |-> end - 1, index |-> i]
  OBVIOUS
<1>4. x.base = lo /\ x.high = end - 1 /\ x.index = i /\ q.map = p.map \cup {x}
  BY <1>2, <1>3
<1>5. PICK y : y = [base |-> base, high |-> end - 1, index |-> i]
  OBVIOUS
<1>6. y.base = base /\ y.high = end - 1 /\ y.index = i /\ (d = c \/ d = c \cup {y})
  BY <1>0, <1>5
<1>7. NoneEmpty(q.map)
  BY <1>0, <1>2, <1>4 DEF NoneEmpty
<1>8. \A r \in p.map : r.base \in Int /\ r.high \in Int /\ r.index \in 1..(i - 1)
  BY DEF Inside
<1>9. \A r \in c : r.base \in Int /\ r.high \in Int /\ r.base <= r.high
  <2> SUFFICES ASSUME NEW r \in c PROVE r.base \in Int /\ r.high \in Int /\ r.base <= r.high
    OBVIOUS
  <2>1. PICK k : k = r.index /\ k \in 1..(i - 1) /\ r.base = BaseOf(items, k) /\ r.high = EndOf(items, k) - 1
    BY DEF Beside
  <2>2. k \in 1..i
    BY <2>1
  <2>3. BaseOf(items, k) \in Int /\ EndOf(items, k) \in Int /\ BaseOf(items, k) < EndOf(items, k)
    BY <1>0, <2>2
  <2> QED
    BY <2>1, <2>3
<1>10. \A r \in d : r.index \in 1..i /\ r.base = BaseOf(items, r.index) /\ r.high = EndOf(items, r.index) - 1
  <2>1. \A k \in 1..(i - 1) : k \in 1..i
    OBVIOUS
  <2>2. ASSUME NEW r \in c
        PROVE  r.index \in 1..i /\ r.base = BaseOf(items, r.index) /\ r.high = EndOf(items, r.index) - 1
    <3>1. r.index \in 1..(i - 1) /\ r.base = BaseOf(items, r.index) /\ r.high = EndOf(items, r.index) - 1
      BY DEF Beside
    <3> QED
      BY <2>1, <3>1
  <2>3. y.index \in 1..i /\ y.base = BaseOf(items, y.index) /\ y.high = EndOf(items, y.index) - 1
    BY <1>6
  <2> QED
    BY <1>6, <2>2, <2>3
<1>11. ASSUME NEW r \in c PROVE Filled(q.map, r.base, r.high)
  <2>1. Filled(p.map, r.base, r.high)
    BY DEF Beside
  <2>2. Filled(p.map \cup {x}, r.base, r.high)
    BY <2>1, FilledMore
  <2> QED
    BY <1>4, <2>2
<1>12. CASE lo = base /\ FreeOf(p.map, base, end - 1)
  <2>1. FreeOf(c, base, end - 1)
    BY <1>0, <1>1, <1>8, <1>9, <1>12, CopyIsFree DEF Beside
  <2>2. d = c \cup {y} /\ y \in d /\ x = y
    BY <1>0, <1>3, <1>5, <1>12, <2>1
  <2>3. \A r \in q.map : r.base = BaseOf(items, r.index) => r \in d
    BY <1>4, <2>2 DEF Beside
  <2>4. Filled(q.map, base, end - 1)
    BY <1>4, <1>12 DEF Filled
  <2>5. \A r \in d : Filled(q.map, r.base, r.high)
    BY <1>6, <1>11, <2>2, <2>4
  <2>6. \E r \in d : r.base < q.last /\ Filled(q.map, r.base, q.last - 1)
    BY <1>1, <1>2, <1>6, <2>2, <2>4
  <2> QED
    BY <1>7, <1>10, <2>3, <2>5, <2>6 DEF Beside
<1>13. CASE base < p.last /\ lo = p.last
  <2>1. p.last \in Int /\ p.last # 0 /\ lo # base
    BY <1>1, <1>2, <1>13
  <2>2. PICK r \in c : r.base < p.last /\ Filled(p.map, r.base, p.last - 1)
    BY <2>1 DEF Beside
  <2>3. r.base \in Int /\ r.high \in Int /\ r.base <= r.high
    BY <1>9
  <2>4. Filled(q.map, r.base, end - 1)
    <3>1. Filled(q.map, r.base, lo - 1)
      <4>1. Filled(p.map \cup {x}, r.base, p.last - 1)
        BY <2>2, FilledMore
      <4>2. p.last - 1 = lo - 1
        BY <1>13
      <4> QED
        BY <1>4, <4>1, <4>2
    <3>2. x \in q.map
      BY <1>4
    <3> QED
      BY <1>1, <1>4, <2>3, <3>1, <3>2, FilledOn
  <2>5. r.base < q.last /\ r \in d
    BY <1>1, <1>2, <1>6, <1>13, <2>1, <2>2, <2>3
  <2>6. FreeOf(c, base, end - 1) => Filled(q.map, base, end - 1)
    <3> HAVE FreeOf(c, base, end - 1)
    <3>1. end - 1 < r.base \/ r.high < base
      BY DEF FreeOf
    <3>2. r.base < base
      BY <1>1, <1>2, <1>13, <2>1, <2>2, <2>3, <3>1
    <3> QED
      BY <1>1, <2>3, <2>4, <3>2 DEF Filled
  <2>7. \A z \in q.map : z.base = BaseOf(items, z.index) => z \in d
    <3> SUFFICES ASSUME NEW z \in q.map, z.base = BaseOf(items, z.index) PROVE z \in d
      OBVIOUS
    <3>1. z # x
      BY <1>4, <2>1
    <3> QED
      BY <1>4, <1>6, <3>1 DEF Beside
  <2>8. \A z \in d : Filled(q.map, z.base, z.high)
    <3>1. y \in d /\ y \notin c => FreeOf(c, base, end - 1)
      BY <1>0, <1>5
    <3> QED
      BY <1>6, <1>11, <2>6, <3>1
  <2>9. \E z \in d : z.base < q.last /\ Filled(q.map, z.base, q.last - 1)
    BY <1>2, <2>4, <2>5
  <2> QED
    BY <1>7, <1>10, <2>7, <2>8, <2>9 DEF Beside
<1> QED
  BY <1>2, <1>12, <1>13

\* The copy's ranges are those of its modules, which have their own places.
Whole(copy, items, i) ==
    \A r \in copy : r.index \in 1..i /\ r.base = BaseOf(items, r.index) /\ r.high = EndOf(items, r.index) - 1

\* Copying goes from one module to the next like that.
LEMMA CopyingStep ==
    ASSUME NEW items, NEW n \in Nat, SoundModules(items, n), NEW cells, \A i \in 1..n : items[i].raw = cells[i],
           NEW c, Copying(c, cells, n), NEW k \in 1..n, NEW base, base = BaseOf(items, k), NEW end, end = EndOf(items, k)
    PROVE  Copied(c[k - 1], c[k], base, end, k)
<1>1. PICK m : m = cells[k] /\ items[k].raw = m
  OBVIOUS
<1>2. Get(m, "base") \in Nat /\ Get(m, "size") \in Nat /\ Sound(m)
  BY <1>1 DEF SoundModules
<1>3. base = Get(m, "base") /\ end = Get(m, "base") + Get(m, "size")
  BY <1>1 DEF BaseOf, EndOf
<1>4. c[k] = Fitting(c[k - 1], m, k)
  BY <1>1 DEF Copying
<1>5. PICK map : map = c[k - 1]
  OBVIOUS
<1>6. \/ FreeOf(map, base, end - 1) /\ Fitting(map, m, k) = map \cup {[base |-> base, high |-> end - 1, index |-> k]}
      \/ ~FreeOf(map, base, end - 1) /\ Fitting(map, m, k) = map
  BY <1>2, <1>3, FittingOne
<1> QED
  BY <1>4, <1>5, <1>6 DEF Copied

LEMMA CopyIsWhole ==
    ASSUME NEW items, NEW n \in Nat, SoundModules(items, n), NEW cells, \A i \in 1..n : items[i].raw = cells[i],
           NEW c, Copying(c, cells, n)
    PROVE  Whole(c[n], items, n)
<1> DEFINE T == {i \in 0..n : Whole(c[i], items, i)}
<1>1. 0 \in T
  BY DEF Copying, Whole
<1>2. ASSUME NEW i \in 0..(n - 1), Whole(c[i], items, i)
      PROVE  Whole(c[i + 1], items, i + 1)
  <2>1. PICK k \in 1..n : k = i + 1 /\ k - 1 = i
    OBVIOUS
  <2>2. PICK y : y = [base |-> BaseOf(items, k), high |-> EndOf(items, k) - 1, index |-> k]
    OBVIOUS
  <2>3. y.base = BaseOf(items, k) /\ y.high = EndOf(items, k) - 1 /\ y.index = k
    BY <2>2
  <2>4. c[k] = c[k - 1] \cup {y} \/ c[k] = c[k - 1]
    BY <2>2, CopyingStep DEF Copied
  <2>5. \A j \in 1..i : j \in 1..k
    BY <2>1
  <2>6. k \in 1..k
    BY <2>1
  <2> SUFFICES ASSUME NEW r \in c[k]
               PROVE  r.index \in 1..k /\ r.base = BaseOf(items, r.index) /\ r.high = EndOf(items, r.index) - 1
    BY <2>1 DEF Whole
  <2>7. CASE r = y
    BY <2>3, <2>6, <2>7
  <2>8. CASE r \in c[i]
    <3>1. r.index \in 1..i /\ r.base = BaseOf(items, r.index) /\ r.high = EndOf(items, r.index) - 1
      BY <1>2, <2>8 DEF Whole
    <3> QED
      BY <2>5, <3>1
  <2> QED
    BY <2>1, <2>4, <2>7, <2>8
<1>3. \A i \in 0..(n - 1) : i \in T => i + 1 \in T
  BY <1>2
<1> HIDE DEF T
<1>4. \A i \in 0..n : i \in T
  BY <1>1, <1>3, Induct
<1> QED
  BY <1>4 DEF T

\* The copy is beside the reader's map all the way, when no mapping is ignored.
LEMMA CopyIsBeside ==
    ASSUME NEW items, NEW n \in Nat, SoundModules(items, n), \A i \in 1..n : ~IsAshmem(items[i]),
           NEW h, Placing(h, items, n),
           NEW cells, \A i \in 1..n : items[i].raw = cells[i], NEW c, Copying(c, cells, n)
    PROVE  Beside(h[n].map, h[n].last, c[n], items, n)
<1> DEFINE Good(i) == Beside(h[i].map, h[i].last, c[i], items, i) /\ NoneEmpty(h[i].map)
           T == {i \in 0..n : Good(i)}
<1>1. Good(0)
  BY DEF Placing, Copying, Beside, NoneEmpty
<1>2. ASSUME NEW i \in 0..(n - 1), Good(i)
      PROVE  Good(i + 1)
  <2>1. PICK k \in Nat \ {0} : k = i + 1 /\ k - 1 = i /\ k \in 1..n
    OBVIOUS
  <2>2. PICK p, q, u, v : p = h[k - 1] /\ q = h[k] /\ u = c[k - 1] /\ v = c[k]
    OBVIOUS
  <2>3. PICK base, end : base = BaseOf(items, k) /\ end = EndOf(items, k)
    OBVIOUS
  <2>4. \A j \in 1..k : /\ BaseOf(items, j) \in Nat /\ EndOf(items, j) \in 1..(AddrSpace - 1)
                        /\ BaseOf(items, j) < EndOf(items, j)
                        /\ EndOf(items, j) - BaseOf(items, j) = Get(items[j].raw, "size")
    BY <2>1, SoundEnds
  <2>5. LastIs(p.last, items, k - 1) /\ Inside(p.map, items, k - 1)
    <3>1. k - 1 \in 0..n
      BY <2>1
    <3> QED
      BY <2>2, <3>1, AllPlaced
  <2>6. p.last \in 0..(AddrSpace - 1)
    <3>1. k - 1 # 0 => k - 1 \in 1..k
      BY <2>1
    <3> QED
      BY <2>4, <2>5, <3>1, AddrSpaceAssumption DEF LastIs
  <2>7. TakesPlace(p, q, BaseOf(items, k), EndOf(items, k) - BaseOf(items, k), items[k], k)
    <3>1. k \in 1..k /\ Placed(p, q, items[k], k)
      BY <2>1, <2>2 DEF Placing
    <3>2. Get(items[k].raw, "base") \in Nat /\ Get(items[k].raw, "size") \in Nat /\ Sound(items[k].raw)
      BY <2>1 DEF SoundModules
    <3>3. TakesPlace(p, q, Get(items[k].raw, "base"), Get(items[k].raw, "size"), items[k], k)
      BY <2>6, <3>1, <3>2, PlaceTaken
    <3> QED
      BY <2>4, <3>1, <3>3 DEF BaseOf
  <2>8. Copied(u, v, base, end, k)
    BY <2>1, <2>2, <2>3, CopyingStep
  <2>9. Beside(p.map, p.last, u, items, k - 1) /\ NoneEmpty(p.map)
    BY <1>2, <2>1, <2>2
  <2>10. ~IsAshmem(items[k])
    BY <2>1
  <2>11. ProperEnds(items, k)
    BY <2>4 DEF ProperEnds
  <2>12. Beside(q.map, q.last, v, items, k) /\ NoneEmpty(q.map)
    BY <2>3, <2>5, <2>7, <2>8, <2>9, <2>10, <2>11, OneMoreCopied
  <2> QED
    BY <2>1, <2>2, <2>12
<1> HIDE DEF Good
<1>3. 0 \in T /\ \A i \in 0..(n - 1) : i \in T => i + 1 \in T
  BY <1>1, <1>2
<1>4. \A i \in 0..n : i \in T
  BY <1>3, Induct
<1> QED
  BY <1>4 DEF Good

\* The copies of a list that is kept.
LEMMA CopyKept ==
    ASSUME FileOK, DirectoryOK, NEW v, ModulesOK(v), NEW modules,
           IsCopy(modules, ItemCells(Place("ModuleList"), SizeOf("ModuleList")), CountOf(Place("ModuleList")))
    PROVE  /\ \A r \in modules : /\ r.base = Get(v.items[r.index].raw, "base")
                                 /\ r.high = r.base + Get(v.items[r.index].raw, "size") - 1
           /\ (\A i \in DOMAIN v.items : ~IsAshmem(v.items[i])) =>
                 \A r \in v.map : r.base = Get(v.items[r.index].raw, "base") => r \in modules
<1>1. PICK cells, n : /\ cells = ItemCells(Place("ModuleList"), SizeOf("ModuleList"))
                      /\ n = CountOf(Place("ModuleList"))
  OBVIOUS
<1>2. PICK c : Copying(c, cells, n) /\ modules = c[n]
  BY <1>1 DEF IsCopy
<1>3. /\ n \in Nat /\ v.items = [i \in 1..n |-> v.items[i]] /\ SoundModules(v.items, n)
      /\ \A i \in 1..n : v.items[i].raw = cells[i]
      /\ \E h : Placing(h, v.items, n) /\ v.map = h[n].map
  BY <1>1, ListPlaced
<1>4. PICK h : Placing(h, v.items, n) /\ v.map = h[n].map
  BY <1>3
<1>5. Whole(modules, v.items, n)
  BY <1>2, <1>3, CopyIsWhole
<1>6. ASSUME NEW r \in modules
      PROVE  /\ r.base = Get(v.items[r.index].raw, "base")
             /\ r.high = r.base + Get(v.items[r.index].raw, "size") - 1
  <2>1. PICK k \in 1..n : k = r.index /\ r.base = BaseOf(v.items, k) /\ r.high = EndOf(v.items, k) - 1
    BY <1>5 DEF Whole
  <2>2. Get(v.items[k].raw, "base") \in Nat /\ Get(v.items[k].raw, "size") \in Nat
    BY <1>3 DEF SoundModules
  <2> QED
    BY <2>1, <2>2 DEF BaseOf, EndOf
<1>7. DOMAIN v.items = 1..n
  BY <1>3
<1>8. ASSUME \A i \in DOMAIN v.items : ~IsAshmem(v.items[i])
      PROVE  \A r \in v.map : r.base = Get(v.items[r.index].raw, "base") => r \in modules
  <2>1. Beside(v.map, h[n].last, modules, v.items, n)
    BY <1>2, <1>3, <1>4, <1>7, <1>8, CopyIsBeside
  <2> QED
    BY <2>1 DEF Beside, BaseOf
<1> QED
  BY <1>6, <1>8

\* What is copied from a list that is kept is a copy of the file's.
LEMMA CopyOfKept ==
    ASSUME FileOK, DirectoryOK, NEW v, ModulesOK(v)
    PROVE  IsCopy(Copy(v), ItemCells(Place("ModuleList"), SizeOf("ModuleList")), CountOf(Place("ModuleList")))
<1>1. PICK cells, n : /\ cells = ItemCells(Place("ModuleList"), SizeOf("ModuleList"))
                      /\ n = CountOf(Place("ModuleList"))
  OBVIOUS
<1>2. /\ n \in Nat /\ v.items = [i \in 1..n |-> v.items[i]]
      /\ \A i \in 1..n : v.items[i].raw = cells[i] /\ IsCell(cells[i])
  BY <1>1, ListPlaced
<1>3. DOMAIN v.items = 1..n
  BY <1>2
<1> QED
  BY <1>1, <1>2, <1>3, CopyInSteps
---------------------------------------------------------------------------
(* The invariant of Process().                                             *)

Used == processing.calls > 0 /\ processing.result # "no_header"

Looping == processing.pc = "threads"

ProcessTypes ==
    /\ IsProcessing(processing) /\ IsProcessState(ps)
    /\ processing.pc \in {"idle", "threads"} /\ processing.calls \in 0..MaxProcess
    /\ IsSequence(ps.threads) /\ IsSequence(ps.regions)

\* The directory that was used is still there, or a read has failed since.
UsedOK ==
    /\ Used => valid \/ rd.bad
    /\ Looping => Used /\ trace = NULL
    /\ Walked => Used

StacksOK ==
    (Looping \/ Walked) /\ valid =>
        /\ Follows(ThreadsVal, processing, ps)
        /\ Walked => processing.k = Len(ThreadsVal) + 1

\* What the stack of the crashed thread was walked from.
CrashOK ==
    /\ (Looping \/ Walked) /\ ps.crashed /\ ps.requesting # -1 => CrashOf(ps.threads[ps.requesting + 1].of)
    /\ Walked /\ processing.result = "ok" /\ ps.crashed /\ ps.requesting # -1 /\ ps.rating = "interesting"
          => ps.threads[ps.requesting + 1].of[1] = "exception"

CopyOf(modules) ==
    IsCopy(modules, ItemCells(Place("ModuleList"), SizeOf("ModuleList")), CountOf(Place("ModuleList")))

\* The modules are copied from the list of the file, unless it has none or
\* none was read before reading failed.
CopyOK ==
    Used /\ valid => \/ CopyOf(ps.modules) \/ Listless
                     \/ rd.bad /\ rd.streams["ModuleList"] = NULL

TraceOK ==
    trace # NULL =>
        trace = [i \in DOMAIN ps.threads |-> [index |-> RfPrintProcessState(ps)[i],
                                              mem   |-> ps.regions[RfPrintProcessState(ps)[i] + 1]]]

PInv ==
    /\ IInv
    /\ ProcessTypes /\ UsedOK /\ LoopOK /\ StacksOK
    /\ RegionsFit(processing, ps) /\ RequestedIs(processing, ps)
    /\ CrashOK /\ CopyOK /\ TraceOK

\* How the directory that was used may go on.
Goes == (valid /\ valid' /\ SameDirectory) \/ (~valid' /\ rd'.bad)

LEMMA ExceptionPart == Exc \in Parts /\ Owner(Exc) = "Exception" /\ "Exception" \in Plain
BY DEF Exc, Parts, Owner, Plain, StreamTypes, SingleStreams

LEMMA NoCrashContext ==
    ASSUME IInv', ~valid'
    PROVE  lazy'[Exc] = NULL
<1>1. StreamVal("Exception")' = NULL
  BY DEF StreamVal, InDirectory
<1>2. Serves(rd)' /\ KeepsParts(rd, lazy)'
  BY DEF IInv, Holds
<1>3. rd'.streams["Exception"] = NULL
  <2>1. rd'.streams["Exception"] \in {NULL, StreamVal("Exception")'}
    BY <1>2, ExceptionPart DEF Serves
  <2> QED
    BY <1>1, <2>1
<1>4. \A p \in Parts : lazy'[p] # NULL => rd'.streams[Owner(p)] # NULL
  BY <1>2 DEF KeepsParts
<1> QED
  BY <1>3, <1>4, ExceptionPart

LEMMA CrashGoes ==
    ASSUME IInv', FailureStays, Goes, NEW of, CrashOf(of)
    PROVE  CrashOf(of)'
<1>1. CASE valid /\ valid' /\ SameDirectory
  <2>1. rd.bad /\ lazy[Exc] = NULL => rd'.bad /\ lazy'[Exc] = NULL
    BY ExceptionPart DEF FailureStays
  <2> QED
    BY <1>1, <2>1, CrashStays DEF CrashOf
<1>2. CASE ~valid' /\ rd'.bad
  <2>1. lazy'[Exc] = NULL
    BY <1>2, NoCrashContext
  <2> QED
    BY <1>2, <2>1 DEF CrashOf
<1> QED
  BY <1>1, <1>2 DEF Goes

LEMMA SameThreads == ASSUME SameDirectory PROVE ThreadsVal' = ThreadsVal
BY SameStreams DEF ThreadsVal

LEMMA SameCopies ==
    ASSUME SameDirectory, NEW modules
    PROVE  CopyOf(modules)' <=> CopyOf(modules)
<1>1. Place("ModuleList")' = Place("ModuleList") /\ SizeOf("ModuleList")' = SizeOf("ModuleList")
  BY SameStreams
<1>2. \A o, n : ItemCells(o, n)' = ItemCells(o, n) /\ CountOf(o)' = CountOf(o)
  BY SameCells DEF SameDirectory
<1>3. PICK cells, n : cells = ItemCells(Place("ModuleList"), SizeOf("ModuleList")) /\ n = CountOf(Place("ModuleList"))
  OBVIOUS
<1>4. cells = ItemCells(Place("ModuleList"), SizeOf("ModuleList"))' /\ n = CountOf(Place("ModuleList"))'
  BY <1>1, <1>2, <1>3
<1>5. CopyOf(modules) <=> IsCopy(modules, cells, n)
  BY <1>3 DEF CopyOf
<1>6. CopyOf(modules)' <=> IsCopy(modules, cells, n)
  BY <1>4 DEF CopyOf, IsCopy, Copying, Fitting, Storable, StoreRange, Wrap
<1> QED
  BY <1>5, <1>6

LEMMA CopyGoes ==
    ASSUME CopyOK, FailureStays, Used' => Used /\ Goes, ps'.modules = ps.modules
    PROVE  CopyOK'
<1> SUFFICES ASSUME Used', valid', ~CopyOf(ps.modules)', ~Listless'
             PROVE  rd'.bad /\ rd'.streams["ModuleList"] = NULL
  BY DEF CopyOK
<1>1. Used /\ valid /\ SameDirectory
  BY DEF Goes
<1>2. ~Listless
  BY <1>1, SameListless
<1>3. ~CopyOf(ps.modules)
  <2>1. PICK x : x = ps.modules
    OBVIOUS
  <2>2. ~CopyOf(x)'
    BY <2>1 DEF CopyOf
  <2> QED
    BY <1>1, <2>1, <2>2, SameCopies
<1>4. rd.bad /\ rd.streams["ModuleList"] = NULL
  BY <1>1, <1>2, <1>3 DEF CopyOK
<1>5. "ModuleList" \in StreamTypes
  BY DEF StreamTypes, SingleStreams
<1> QED
  BY <1>4, <1>5 DEF FailureStays

\* A step that leaves alone what Process() has made.
LEMMA SameProcess ==
    ASSUME PInv, processing' = processing, ps' = ps, IInv', FailureStays, Used => Goes, LoopOK', TraceOK',
           Looping => trace' = NULL
    PROVE  PInv'
<1>1. ProcessTypes' /\ RegionsFit(processing, ps)' /\ RequestedIs(processing, ps)'
  BY DEF PInv, ProcessTypes, RegionsFit, RequestedIs
<1>2. (Used' <=> Used) /\ (Looping' <=> Looping) /\ (Walked' <=> Walked)
  BY DEF Used, Looping, Walked
<1>3. UsedOK'
  BY <1>2 DEF PInv, UsedOK, Goes
<1>4. Looping \/ Walked => Used
  BY DEF PInv, UsedOK
<1>5. StacksOK'
  <2> SUFFICES ASSUME (Looping \/ Walked)', valid'
               PROVE  Follows(ThreadsVal, processing, ps)' /\ (Walked' => processing'.k = Len(ThreadsVal)' + 1)
    BY DEF StacksOK
  <2>1. valid /\ SameDirectory
    BY <1>2, <1>4 DEF Goes
  <2>2. ThreadsVal' = ThreadsVal
    BY <2>1, SameThreads
  <2>3. Follows(ThreadsVal, processing, ps) /\ (Walked => processing.k = Len(ThreadsVal) + 1)
    BY <1>2, <2>1 DEF PInv, StacksOK
  <2> QED
    BY <1>2, <2>2, <2>3 DEF Follows, RankOf
<1>6. CrashOK'
  <2>1. ((Looping \/ Walked) /\ ps.crashed /\ ps.requesting # -1 => CrashOf(ps.threads[ps.requesting + 1].of))'
    <3> SUFFICES ASSUME (Looping \/ Walked)', ps'.crashed, ps'.requesting # -1
                 PROVE  CrashOf(ps.threads[ps.requesting + 1].of)'
      OBVIOUS
    <3>1. PICK of : of = ps.threads[ps.requesting + 1].of
      OBVIOUS
    <3>2. CrashOf(of)
      BY <1>2, <3>1 DEF PInv, CrashOK
    <3>3. CrashOf(of)'
      BY <1>2, <1>4, <3>2, CrashGoes
    <3> QED
      BY <3>1, <3>3 DEF CrashOf
  <2>2. (Walked /\ processing.result = "ok" /\ ps.crashed /\ ps.requesting # -1 /\ ps.rating = "interesting"
            => ps.threads[ps.requesting + 1].of[1] = "exception")'
    BY <1>2 DEF PInv, CrashOK
  <2> QED
    BY <2>1, <2>2 DEF CrashOK
<1>7. CopyOK'
  BY <1>2, CopyGoes DEF PInv
<1> QED
  BY <1>1, <1>3, <1>5, <1>6, <1>7 DEF PInv

LEMMA OtherKeeps == ASSUME PInv, Other PROVE PInv' /\ FailureStays
<1>1. processing.pc = "idle" /\ Next /\ processing' = processing /\ ps' = ps /\ trace' = trace
  BY DEF Other
<1>2. IInv /\ UsedOK
  BY DEF PInv
<1>3. IInv' /\ FailureStays
  <2>1. IInv' /\ (UNCHANGED minidump \/ FailureStays)
    BY <1>1, <1>2, NextKeeps
  <2>2. UNCHANGED minidump => FailureStays
    BY DEF minidump, FailureStays
  <2> QED
    BY <2>1, <2>2
<1>4. Used => Goes
  BY <1>1, <1>2, OtherGoes DEF UsedOK, Goes
<1>5. LoopOK' /\ (Looping => trace' = NULL)
  BY <1>1 DEF LoopOK, Looping
<1>6. TraceOK'
  BY <1>1 DEF PInv, TraceOK, RfPrintProcessState
<1> QED
  BY <1>1, <1>3, <1>4, <1>5, <1>6, SameProcess

\* The reader is left alone.
LEMMA ReaderStays ==
    ASSUME PInv, UNCHANGED minidump
    PROVE  IInv' /\ FailureStays /\ (Used => Goes)
<1>1. IInv'
  BY NextKeeps DEF PInv
<1>2. FailureStays /\ SameDirectory /\ rd' = rd
  BY DEF minidump, FailureStays, SameDirectory, SameFile
<1>3. Used => Goes
  BY <1>2 DEF PInv, UsedOK, Goes, SameDirectory
<1> QED
  BY <1>1, <1>2, <1>3

LEMMA StutterKeeps == ASSUME PInv, UNCHANGED vars PROVE PInv' /\ FailureStays
<1>1. UNCHANGED minidump /\ processing' = processing /\ ps' = ps /\ trace' = trace
  BY DEF vars
<1>2. IInv' /\ FailureStays /\ (Used => Goes)
  BY <1>1, ReaderStays
<1>3. TraceOK'
  BY <1>1 DEF PInv, TraceOK, RfPrintProcessState
<1>4. Looping => trace' = NULL
  BY <1>1 DEF PInv, UsedOK
<1>5. LoopOK'
  <2>1. ThreadsVal' = ThreadsVal
    BY <1>1, SameThreads DEF minidump, SameDirectory, SameFile
  <2> QED
    BY <1>1, <2>1 DEF PInv, LoopOK, minidump, Threads
<1> QED
  BY <1>1, <1>2, <1>3, <1>4, <1>5, SameProcess

LEMMA PrintKeeps == ASSUME PInv, RfMinidumpProcess PROVE PInv' /\ FailureStays
<1>1. UNCHANGED minidump /\ processing' = processing /\ ps' = ps /\ processing.pc = "idle"
  BY DEF RfMinidumpProcess
<1>2. IInv' /\ FailureStays /\ (Used => Goes)
  BY <1>1, ReaderStays
<1>3. TraceOK'
  BY <1>1 DEF RfMinidumpProcess, TraceOK, RfPrintProcessState
<1>4. LoopOK' /\ (Looping => trace' = NULL)
  BY <1>1 DEF LoopOK, Looping
<1> QED
  BY <1>1, <1>2, <1>3, <1>4, SameProcess
\* What Process() begins with, whatever it comes to.
LEMMA BeginsWith ==
    ASSUME PInv, Process, ps'.threads = <<>>, ps'.regions = ps.regions, ps'.requesting = -1,
           processing'.calls = processing.calls + 1, processing'.found = FALSE
    PROVE  /\ processing'.calls \in 1..MaxProcess
           /\ IsSequence(ps'.threads) /\ IsSequence(ps'.regions)
           /\ RegionsFit(processing, ps)' /\ RequestedIs(processing, ps)' /\ TraceOK' /\ CrashOK'
<1>1. processing.calls \in 0..MaxProcess /\ processing.calls < MaxProcess /\ MaxProcess \in Nat
  BY ProcessAssumption DEF PInv, ProcessTypes, Process
<1>2. processing'.calls \in 1..MaxProcess
  BY <1>1
<1>3. IsSequence(ps'.threads) /\ Len(ps'.threads) = 0 /\ IsSequence(ps'.regions)
  BY NoElement DEF PInv, ProcessTypes
<1>4. RegionsFit(processing, ps)'
  <2>1. Len(ps.regions) \in Nat /\ (processing.calls = 0 => Len(ps.regions) = 0)
    BY DEF PInv, ProcessTypes, IsSequence, RegionsFit
  <2>2. processing'.calls <= 1 => processing.calls = 0
    BY <1>1
  <2> QED
    BY <1>2, <1>3, <2>1, <2>2 DEF RegionsFit
<1>5. RequestedIs(processing, ps)'
  <2>1. RequestedIs(processing', ps')
    BY RequestedNone
  <2> QED
    BY <2>1 DEF RequestedIs
<1>6. TraceOK'
  BY DEF Process, TraceOK
<1> QED
  BY <1>2, <1>3, <1>4, <1>5, <1>6 DEF CrashOK

LEMMA NoHeaderKeeps == ASSUME PInv, Process, NoHeader PROVE PInv'
<1>1. IInv'
  BY ProcessReads, OnwardGives DEF PInv
<1>2. IsProcessing(processing) /\ IsProcessState(ps) /\ processing.pc = "idle"
  BY DEF PInv, ProcessTypes, Process
<1>3. /\ IsProcessing(processing') /\ processing'.pc = "idle" /\ processing'.calls = processing.calls + 1
      /\ processing'.result = "no_header" /\ processing'.found = FALSE
  <2>1. PICK p : p = Called
    OBVIOUS
  <2>2. processing' = [p EXCEPT !.result = "no_header"]
    BY <2>1 DEF NoHeader
  <2>3. IsProcessing(p) /\ p.pc = processing.pc /\ p.calls = processing.calls + 1 /\ p.found = FALSE
    BY <1>2, <2>1, CalledIs
  <2>4. /\ IsProcessing(processing') /\ processing'.pc = p.pc /\ processing'.calls = p.calls
        /\ processing'.result = "no_header" /\ processing'.found = p.found
    BY <2>2, <2>3, CalledEnds
  <2> QED
    BY <1>2, <2>3, <2>4
<1>4. IsProcessState(ps') /\ ps'.requesting = -1 /\ ps'.threads = <<>> /\ ps'.regions = ps.regions
  BY <1>2, StateCleared DEF NoHeader
<1>5. /\ processing'.calls \in 1..MaxProcess /\ IsSequence(ps'.threads) /\ IsSequence(ps'.regions)
      /\ RegionsFit(processing, ps)' /\ RequestedIs(processing, ps)' /\ TraceOK' /\ CrashOK'
  BY <1>3, <1>4, BeginsWith
<1>6. ProcessTypes'
  BY <1>3, <1>4, <1>5 DEF ProcessTypes
<1>7. ~Used' /\ ~Looping' /\ ~Walked'
  BY <1>3 DEF Used, Looping, Walked
<1>8. UsedOK' /\ LoopOK' /\ StacksOK' /\ CopyOK'
  BY <1>7 DEF UsedOK, LoopOK, StacksOK, CopyOK, Looping
<1> QED
  BY <1>1, <1>5, <1>6, <1>8 DEF PInv

\* The list of threads that is kept, or none.
LEMMA KeptThreads ==
    ASSUME IInv, Threads # NULL
    PROVE  valid /\ Threads = ThreadsVal /\ ThreadsVal # NULL /\ Len(ThreadsVal) \in 0..MaxItems
<1>1. FileOK /\ DirectoryOK /\ Holds(rd, lazy)
  BY InvGives
<1>2. "ThreadList" \in Plain /\ "ThreadList" \in StreamTypes
  BY DEF Plain, StreamTypes, SingleStreams
<1>3. Threads = ThreadsVal /\ InDirectory("ThreadList")
  BY <1>1, <1>2, KeptInDirectory DEF Threads, ThreadsVal
<1>4. Len(ThreadsVal) \in 0..MaxItems
  BY <1>1, <1>3, ThreadsAre DEF ThreadsVal
<1>5. valid
  BY <1>2, NothingKept DEF Threads
<1> QED
  BY <1>3, <1>4, <1>5

LEMMA HeaderKeeps == ASSUME PInv, Process, Header PROVE PInv'
<1>1. IInv' /\ OnwardStep /\ valid' /\ SameDirectory /\ Holds(rd', lazy')
  <2>1. OnwardStep
    BY ProcessReads DEF PInv
  <2> QED
    BY <2>1, OnwardGives DEF PInv, OnwardStep, SameDirectory, Header
<1>2. IsProcessing(processing) /\ IsProcessState(ps) /\ processing.pc = "idle"
  BY DEF PInv, ProcessTypes, Process
<1>3. PICK has : has = rd'.streams
  OBVIOUS
<1>4. /\ \E a, b, c, d, e : /\ ps' = [Cleared(ps) EXCEPT !.crashed = a, !.address = b, !.assertion = c, !.system = d,
                                                       !.modules = e]
                            /\ a <=> has["Exception"] # NULL
                            /\ e = (IF has["ModuleList"] = NULL THEN {} ELSE Copy(has["ModuleList"]))
      /\ processing' = IF has["ThreadList"] = NULL THEN [Called EXCEPT !.result = "no_thread_list"]
                       ELSE ToThreads(has["Exception"], has["BreakpadInfo"])
  <2>a. PICK m \in {Gathered(Reading)} : \E h \in {m.s.streams} :
          /\ rd' = m.s /\ lazy' = m.lazy
          /\ ps' = [Cleared(ps) EXCEPT
                       !.crashed = h["Exception"] # NULL,
                       !.address = IF h["Exception"] = NULL THEN 0 ELSE CrashAddress(h["Exception"], h["SystemInfo"]),
                       !.assertion = h["Assertion"] # NULL,
                       !.system = IF h["SystemInfo"] = NULL THEN "" ELSE h["SystemInfo"].arch,
                       !.modules = IF h["ModuleList"] = NULL THEN {} ELSE Copy(h["ModuleList"])]
          /\ processing' = IF h["ThreadList"] = NULL THEN [Called EXCEPT !.result = "no_thread_list"]
                           ELSE ToThreads(h["Exception"], h["BreakpadInfo"])
    BY Zenon DEF Header
  <2>1. PICK h \in {m.s.streams} :
          /\ rd' = m.s /\ lazy' = m.lazy
          /\ ps' = [Cleared(ps) EXCEPT
                       !.crashed = h["Exception"] # NULL,
                       !.address = IF h["Exception"] = NULL THEN 0 ELSE CrashAddress(h["Exception"], h["SystemInfo"]),
                       !.assertion = h["Assertion"] # NULL,
                       !.system = IF h["SystemInfo"] = NULL THEN "" ELSE h["SystemInfo"].arch,
                       !.modules = IF h["ModuleList"] = NULL THEN {} ELSE Copy(h["ModuleList"])]
          /\ processing' = IF h["ThreadList"] = NULL THEN [Called EXCEPT !.result = "no_thread_list"]
                           ELSE ToThreads(h["Exception"], h["BreakpadInfo"])
    BY <2>a, Zenon
  <2>2. h = has
    BY <1>3, <2>1
  <2>3. PICK a, b, c, d, e : /\ a = (h["Exception"] # NULL)
                             /\ b = (IF h["Exception"] = NULL THEN 0 ELSE CrashAddress(h["Exception"], h["SystemInfo"]))
                             /\ c = (h["Assertion"] # NULL)
                             /\ d = (IF h["SystemInfo"] = NULL THEN "" ELSE h["SystemInfo"].arch)
                             /\ e = (IF h["ModuleList"] = NULL THEN {} ELSE Copy(h["ModuleList"]))
    OBVIOUS
  <2>4. ps' = [Cleared(ps) EXCEPT !.crashed = a, !.address = b, !.assertion = c, !.system = d, !.modules = e]
    BY <2>1, <2>3, Zenon
  <2>5. /\ a <=> has["Exception"] # NULL
        /\ e = (IF has["ModuleList"] = NULL THEN {} ELSE Copy(has["ModuleList"]))
    BY <2>2, <2>3
  <2>6. \E u, v, w, y, z : /\ ps' = [Cleared(ps) EXCEPT !.crashed = u, !.address = v, !.assertion = w, !.system = y,
                                                        !.modules = z]
                           /\ u <=> has["Exception"] # NULL
                           /\ z = (IF has["ModuleList"] = NULL THEN {} ELSE Copy(has["ModuleList"]))
    BY <2>4, <2>5, Zenon
  <2> QED
    BY <2>1, <2>2, <2>6, Zenon
<1>5. /\ IsProcessState(ps') /\ ps'.requesting = -1 /\ ps'.threads = <<>> /\ ps'.regions = ps.regions
      /\ ps'.crashed <=> has["Exception"] # NULL
      /\ ps'.modules = IF has["ModuleList"] = NULL THEN {} ELSE Copy(has["ModuleList"])
  <2>1. PICK q : q = Cleared(ps)
    OBVIOUS
  <2>2. IsProcessState(q) /\ q.requesting = -1 /\ q.threads = <<>> /\ q.regions = ps.regions
    BY <1>2, <2>1, StateCleared
  <2>a. PICK a, b, c, d, e : /\ ps' = [Cleared(ps) EXCEPT !.crashed = a, !.address = b, !.assertion = c, !.system = d,
                                                       !.modules = e]
                             /\ a <=> has["Exception"] # NULL
                             /\ e = (IF has["ModuleList"] = NULL THEN {} ELSE Copy(has["ModuleList"]))
    BY <1>4
  <2>3. ps' = [q EXCEPT !.crashed = a, !.address = b, !.assertion = c, !.system = d, !.modules = e]
    BY <2>1, <2>a, Zenon
  <2>4. /\ IsProcessState(ps') /\ ps'.requesting = q.requesting /\ ps'.threads = q.threads /\ ps'.regions = q.regions
        /\ ps'.crashed = a /\ ps'.modules = e
    BY <2>2, <2>3 DEF IsProcessState
  <2> QED
    BY <2>2, <2>a, <2>4
<1>6. /\ IsProcessing(processing') /\ processing'.calls = processing.calls + 1 /\ processing'.found = FALSE
      /\ processing'.k = 1
      /\ has["ThreadList"] = NULL => processing'.pc = "idle" /\ processing'.result = "no_thread_list"
      /\ has["ThreadList"] # NULL => processing'.pc = "threads" /\ processing'.result = NULL
  <2>1. PICK p : p = Called
    OBVIOUS
  <2>a. /\ IsProcessing(p) /\ p.pc = "idle" /\ p.calls = processing.calls + 1 /\ p.found = FALSE /\ p.k = 1
        /\ p.result = NULL
    BY <1>2, <2>1, CalledIs
  <2>2. CASE has["ThreadList"] = NULL
    <3>1. processing' = [p EXCEPT !.result = "no_thread_list"]
      BY <1>4, <2>1, <2>2
    <3>2. /\ IsProcessing(processing') /\ processing'.pc = p.pc /\ processing'.calls = p.calls
          /\ processing'.result = "no_thread_list" /\ processing'.found = p.found /\ processing'.k = p.k
      BY <2>a, <3>1, CalledEnds
    <3> QED
      BY <2>a, <2>2, <3>2
  <2>3. CASE has["ThreadList"] # NULL
    <3>1. PICK d, w : processing' = [p EXCEPT !.pc = "threads", !.dumper = d, !.wanted = w]
      BY <1>4, <2>1, <2>3 DEF ToThreads
    <3>2. /\ IsProcessing(processing') /\ processing'.pc = "threads" /\ processing'.calls = p.calls
          /\ processing'.result = p.result /\ processing'.found = p.found /\ processing'.k = p.k
      BY <2>a, <3>1 DEF IsProcessing
    <3> QED
      BY <2>a, <2>3, <3>2
  <2> QED
    BY <2>2, <2>3
<1>7. /\ processing'.calls \in 1..MaxProcess /\ IsSequence(ps'.threads) /\ IsSequence(ps'.regions)
      /\ RegionsFit(processing, ps)' /\ RequestedIs(processing, ps)' /\ TraceOK' /\ CrashOK'
  BY <1>5, <1>6, BeginsWith
<1>8. ProcessTypes'
  BY <1>5, <1>6, <1>7 DEF ProcessTypes
<1>9. Used' /\ trace' = NULL /\ ~Walked' /\ (Looping' => has["ThreadList"] # NULL)
  <2>1. ~Walked'
    BY <1>6, ProcessAssumption DEF Walked
  <2> QED
    BY <1>6, <1>7, <2>1, ProcessAssumption DEF Used, Looping, Process
<1>10. UsedOK'
  BY <1>1, <1>9 DEF UsedOK
<1>11. Looping' => /\ Threads' # NULL /\ ThreadsVal' # NULL /\ Len(ThreadsVal)' \in 0..MaxItems
  <2> HAVE Looping'
  <2>1. rd'.streams["ThreadList"] # NULL
    BY <1>3, <1>9
  <2>2. Holds(rd, lazy)'
    BY <1>1 DEF IInv
  <2>3. "ThreadList" \in Plain
    BY DEF Plain, StreamTypes, SingleStreams
  <2>4. ThreadsVal' = ThreadsVal
    BY <1>1, SameThreads
  <2>5. rd'.streams["ThreadList"] \in {NULL, ThreadsVal'}
    BY <2>2, <2>3 DEF Holds, Serves, ThreadsVal
  <2>6. FileOK /\ DirectoryOK
    BY InvGives DEF PInv
  <2>7. ThreadsVal # NULL => Len(ThreadsVal) \in 0..MaxItems
    BY <2>6, ThreadsAre DEF ThreadsVal
  <2> QED
    BY <2>1, <2>4, <2>5, <2>7 DEF Threads
<1>12. Looping' => processing'.k \in 1..(Len(ThreadsVal)' + 1)
  BY <1>6, <1>11, MinidumpAssumption
<1>13. LoopOK'
  BY <1>1, <1>3, <1>5, <1>11, <1>12 DEF LoopOK, Looping
<1>14. StacksOK'
  <2> SUFFICES ASSUME Looping'
               PROVE  Follows(ThreadsVal, processing, ps)'
    BY <1>9 DEF StacksOK
  <2>1. PICK l : l = ThreadsVal'
    OBVIOUS
  <2>2. Len(l) \in Nat /\ l # NULL
    BY <1>11, <2>1, MinidumpAssumption
  <2>3. Follows(l, processing', ps')
    BY <1>5, <1>6, <2>2, FollowsFirst
  <2> QED
    BY <2>1, <2>3 DEF Follows, RankOf
<1>15. CopyOK'
  <2> SUFFICES ASSUME ~Listless'
               PROVE  CopyOf(ps.modules)' \/ (rd'.bad /\ has["ModuleList"] = NULL)
    BY <1>3 DEF CopyOK
  <2>1. ~Listless /\ FileOK /\ DirectoryOK
    BY <1>1, SameListless, InvGives DEF PInv
  <2>2. CASE has["ModuleList"] = NULL
    <3>1. rd' = Gathered(Reading).s
      BY DEF Header
    <3>2. MHolds(Reading)
      BY ReadingHolds DEF PInv
    <3>3. rd'.bad
      BY <1>3, <2>1, <2>2, <3>1, <3>2, GatheredAsks
    <3> QED
      BY <2>2, <3>3
  <2>3. CASE has["ModuleList"] # NULL
    <3>1. PICK v : v = has["ModuleList"]
      OBVIOUS
    <3>2. ModulesOK(v)
      BY <1>1, <1>3, <2>3, <3>1 DEF Holds, KeepsModules
    <3>3. PICK x : x = Copy(v)
      OBVIOUS
    <3>4. CopyOf(x)
      BY <2>1, <3>2, <3>3, CopyOfKept DEF CopyOf
    <3>5. CopyOf(x)'
      BY <1>1, <3>4, SameCopies
    <3>6. ps'.modules = x
      BY <1>5, <2>3, <3>1, <3>3
    <3> QED
      BY <3>5, <3>6 DEF CopyOf
  <2> QED
    BY <2>2, <2>3
<1> QED
  BY <1>1, <1>7, <1>8, <1>10, <1>13, <1>14, <1>15 DEF PInv

LEMMA ProcessKeeps == ASSUME PInv, Process PROVE PInv' /\ FailureStays
<1>1. FailureStays
  BY ProcessReads, OnwardGives DEF PInv
<1> QED
  BY <1>1, NoHeaderKeeps, HeaderKeeps DEF Process
\* In the loop the directory stays and what was there is still there.
LEMMA LoopReads ==
    ASSUME PInv, Looping, OnwardStep
    PROVE  /\ IInv' /\ FailureStays /\ Goes /\ valid' /\ valid /\ SameDirectory
           /\ Threads' # NULL /\ ThreadsVal' = ThreadsVal
           /\ rd.streams["Exception"] # NULL => rd'.streams["Exception"] # NULL
           /\ \E n \in Nat : Len(ThreadsVal) = n /\ processing.k \in 1..(n + 1)
           /\ Threads = ThreadsVal /\ Follows(ThreadsVal, processing, ps) /\ Used /\ trace = NULL
<1>1. IInv' /\ FailureStays /\ Wider(rd, rd')
  BY OnwardGives DEF PInv
<1>2. SameDirectory /\ processing.pc = "threads" /\ LoopOK /\ IInv
  BY DEF OnwardStep, PInv, Looping
<1>3. valid /\ Threads = ThreadsVal /\ Threads # NULL
  BY <1>2, LoopThreads DEF LoopOK
<1>4. \E n \in Nat : Len(ThreadsVal) = n /\ processing.k \in 1..(n + 1)
  BY <1>2, LoopThreads, MinidumpAssumption
<1>5. valid' /\ Goes
  BY <1>2, <1>3 DEF SameDirectory, Goes
<1>6. ThreadsVal' = ThreadsVal
  BY <1>2, SameThreads
<1>7. {"ThreadList", "Exception"} \subseteq StreamTypes
  BY DEF StreamTypes, SingleStreams
<1>8. Threads' # NULL /\ (rd.streams["Exception"] # NULL => rd'.streams["Exception"] # NULL)
  BY <1>1, <1>3, <1>7 DEF Wider, Threads
<1>9. Follows(ThreadsVal, processing, ps) /\ Used /\ trace = NULL
  BY <1>3 DEF PInv, StacksOK, UsedOK, Looping
<1> QED
  BY <1>1, <1>2, <1>3, <1>4, <1>5, <1>6, <1>8, <1>9

\* A crashed thread's context is still what it was, while its stack is kept.
LEMMA CrashKeeps ==
    ASSUME PInv, Looping, OnwardStep, ps'.threads = ps.threads, ps'.requesting = ps.requesting,
           ps'.crashed, ps.crashed, ps.requesting # -1
    PROVE  CrashOf(ps.threads[ps.requesting + 1].of)'
<1>1. PICK of : of = ps.threads[ps.requesting + 1].of
  OBVIOUS
<1>2. CrashOf(of)
  BY <1>1 DEF PInv, CrashOK
<1>3. CrashOf(of)'
  BY <1>2, LoopReads, CrashGoes
<1> QED
  BY <1>1, <1>3 DEF CrashOf

LEMMA FollowsSame ==
    ASSUME NEW l, NEW p, NEW q, Follows(l, p, q), ThreadsVal' = l, processing' = p, ps' = q
    PROVE  Follows(ThreadsVal, processing, ps)'
BY DEF Follows, RankOf

LEMMA DumperKeeps ==
    ASSUME PInv, Looping, OnwardStep, trace' = trace, processing.k <= Len(ThreadsVal),
           ThreadsVal[processing.k].id = processing.dumper,
           processing' = [processing EXCEPT !.k = @ + 1], ps' = ps
    PROVE  PInv'
<1>1. PICK l, p, q, v : l = ThreadsVal /\ p = processing /\ q = ps /\ v = processing'
  OBVIOUS
<1>2. IsProcessing(p) /\ v = [p EXCEPT !.k = @ + 1]
  BY <1>1 DEF PInv, ProcessTypes
<1>3. /\ IsProcessing(v) /\ v.pc = p.pc /\ v.k = p.k + 1 /\ v.calls = p.calls /\ v.result = p.result
      /\ v.dumper = p.dumper /\ v.wanted = p.wanted /\ v.found = p.found
  BY <1>2, NextRound
<1>4. PICK n \in Nat : Len(l) = n /\ p.k \in 1..(n + 1) /\ p.k <= n
  BY <1>1, LoopReads
<1>5. Follows(l, v, q) /\ v.k \in 1..(n + 1)
  <2>1. Follows(l, p, q) /\ l[p.k].id = p.dumper
    BY <1>1, LoopReads
  <2> QED
    BY <1>3, <1>4, <2>1, FollowsDumper
<1>6. Used' /\ trace' = NULL /\ Looping' /\ ~Walked' /\ v.pc = "threads"
  <2>1. Used /\ trace = NULL
    BY LoopReads
  <2>2. v.pc = "threads"
    BY <1>1, <1>3 DEF Looping
  <2> QED
    BY <1>1, <1>3, <2>1, <2>2 DEF Used, Looping, Walked
<1>7. UsedOK' /\ TraceOK'
  BY <1>6, LoopReads DEF UsedOK, TraceOK
<1>8. ProcessTypes' /\ RegionsFit(processing, ps)' /\ RequestedIs(processing, ps)'
  BY <1>1, <1>3 DEF PInv, ProcessTypes, RegionsFit, RequestedIs
<1>9. LoopOK'
  <2>1. valid' /\ Threads' # NULL /\ ThreadsVal' = l /\ (rd.streams["Exception"] # NULL => rd'.streams["Exception"] # NULL)
    BY <1>1, LoopReads
  <2>2. ps.crashed => rd.streams["Exception"] # NULL
    BY DEF PInv, LoopOK, Looping
  <2>3. processing'.k \in 1..(Len(ThreadsVal)' + 1)
    BY <1>1, <1>4, <1>5, <2>1
  <2> QED
    BY <2>1, <2>2, <2>3 DEF LoopOK
<1>10. StacksOK'
  <2>1. Follows(ThreadsVal, processing, ps)'
    <3>1. ThreadsVal' = l /\ processing' = v /\ ps' = q
      BY <1>1, LoopReads
    <3> QED
      BY <1>5, <3>1, FollowsSame
  <2> QED
    BY <1>6, <2>1 DEF StacksOK
<1>11. CrashOK'
  BY <1>6, CrashKeeps DEF CrashOK
<1>12. CopyOK'
  BY LoopReads, CopyGoes DEF PInv
<1> QED
  BY <1>7, <1>8, <1>9, <1>10, <1>11, <1>12, LoopReads DEF PInv

LEMMA DuplicateKeeps ==
    ASSUME PInv, Looping, OnwardStep, trace' = trace, processing' = Ending("duplicate_requesting_threads"), ps' = ps
    PROVE  PInv'
<1>1. PICK p, v : p = processing /\ v = processing'
  OBVIOUS
<1>2. /\ IsProcessing(v) /\ v.pc = "idle" /\ v.calls = p.calls /\ v.result = "duplicate_requesting_threads"
      /\ v.wanted = p.wanted /\ v.found = p.found
  BY <1>1, EndedAs DEF PInv, ProcessTypes
<1>3. ~Looping' /\ ~Walked' /\ trace' = NULL
  BY <1>1, <1>2, LoopReads DEF Looping, Walked
<1>4. UsedOK' /\ LoopOK' /\ StacksOK' /\ CrashOK' /\ TraceOK'
  BY <1>3, LoopReads DEF UsedOK, LoopOK, StacksOK, CrashOK, TraceOK, Looping
<1>5. ProcessTypes' /\ RegionsFit(processing, ps)' /\ RequestedIs(processing, ps)'
  BY <1>1, <1>2 DEF PInv, ProcessTypes, RegionsFit, RequestedIs
<1>6. CopyOK'
  BY LoopReads, CopyGoes DEF PInv
<1> QED
  BY <1>4, <1>5, <1>6, LoopReads DEF PInv

LEMMA KeptException ==
    ASSUME NEW s, NEW lz, Holds(s, lz), lz[Exc] # NULL
    PROVE  PartVal(Exc, StreamVal("Exception")) # NULL
<1>1. s.streams["Exception"] # NULL /\ lz[Exc] = PartVal(Exc, s.streams["Exception"])
  BY ExceptionPart DEF Holds, KeepsParts
<1>2. s.streams["Exception"] = StreamVal("Exception")
  BY <1>1, ExceptionPart DEF Holds, Serves
<1> QED
  BY <1>1, <1>2

LEMMA EndKeeps == ASSUME PInv, Process_End PROVE PInv' /\ FailureStays
<1>1. Looping /\ trace' = trace /\ LoopOK /\ IInv
  BY DEF Process_End, PInv, Looping
<1>2. /\ OnwardStep
      /\ processing.k = Len(ThreadsVal) + 1
      /\ \/ processing' = Ending("interrupted") /\ ps' = ps
         \/ /\ processing' = Ending("ok")
            /\ \E r : /\ ps' = [ps EXCEPT !.rating = r]
                      /\ r = "interesting" => lazy'[Exc] # NULL
  BY <1>1, EndReads
<1>3. PICK p, q, v, w : p = processing /\ q = ps /\ v = processing' /\ w = ps'
  OBVIOUS
<1>4. IsProcessing(p) /\ IsProcessState(q)
  BY <1>3 DEF PInv, ProcessTypes
<1>5. /\ IsProcessing(v) /\ v.pc = "idle" /\ v.k = p.k /\ v.calls = p.calls /\ v.result \in {"ok", "interrupted"}
      /\ v.dumper = p.dumper /\ v.wanted = p.wanted /\ v.found = p.found
  BY <1>2, <1>3, <1>4, EndedAs
<1>6. /\ IsProcessState(w) /\ w.crashed = q.crashed /\ w.requesting = q.requesting /\ w.threads = q.threads
      /\ w.regions = q.regions /\ w.modules = q.modules
      /\ v.result = "ok" /\ w.rating = "interesting" => lazy'[Exc] # NULL
  <2>1. CASE processing' = Ending("interrupted") /\ ps' = ps
    <3>1. v.result = "interrupted"
      BY <1>3, <1>4, <2>1, EndedAs
    <3> QED
      BY <1>3, <1>4, <2>1, <3>1
  <2>2. CASE \E r : /\ ps' = [ps EXCEPT !.rating = r]
                    /\ r = "interesting" => lazy'[Exc] # NULL
    <3>1. PICK r : /\ w = [q EXCEPT !.rating = r]
                   /\ r = "interesting" => lazy'[Exc] # NULL
      BY <1>3, <2>2
    <3> QED
      BY <1>4, <3>1, StateRated
  <2> QED
    BY <1>2, <2>1, <2>2
<1>7. ~Looping' /\ Walked' /\ Used' /\ trace' = NULL
  <2>1. Used
    BY <1>1, <1>2, LoopReads
  <2> QED
    BY <1>1, <1>2, <1>3, <1>5, <2>1, LoopReads DEF Looping, Walked, Used
<1>8. UsedOK' /\ LoopOK' /\ TraceOK'
  BY <1>1, <1>2, <1>7, LoopReads DEF UsedOK, LoopOK, TraceOK, Looping
<1>9. ProcessTypes' /\ RegionsFit(processing, ps)' /\ RequestedIs(processing, ps)'
  BY <1>3, <1>5, <1>6 DEF PInv, ProcessTypes, RegionsFit, RequestedIs
<1>10. StacksOK'
  <2>1. Follows(ThreadsVal, processing, ps)'
    <3>1. Follows(ThreadsVal, p, q) /\ ThreadsVal' = ThreadsVal
      BY <1>1, <1>2, <1>3, LoopReads
    <3>2. PICK l : l = ThreadsVal
      OBVIOUS
    <3>3. Follows(l, p, q) /\ ThreadsVal' = l
      BY <3>1, <3>2
    <3> QED
      BY <1>3, <1>5, <1>6, <3>3 DEF Follows, RankOf
  <2>2. processing'.k = Len(ThreadsVal)' + 1
    BY <1>1, <1>2, <1>3, <1>5, LoopReads
  <2> QED
    BY <2>1, <2>2 DEF StacksOK
<1>11. CrashOK'
  <2>1. (ps.crashed /\ ps.requesting # -1 => CrashOf(ps.threads[ps.requesting + 1].of))'
    <3>1. (ps.crashed)' /\ (ps.requesting # -1)' => CrashOf(ps.threads[ps.requesting + 1].of)'
      BY <1>1, <1>2, <1>3, <1>6, CrashKeeps
    <3> QED
      BY <3>1
  <2>2. (processing.result = "ok" /\ ps.crashed /\ ps.requesting # -1 /\ ps.rating = "interesting"
            => ps.threads[ps.requesting + 1].of[1] = "exception")'
    <3> SUFFICES ASSUME processing'.result = "ok", ps'.crashed, ps'.requesting # -1, ps'.rating = "interesting"
                 PROVE  (ps.threads[ps.requesting + 1].of[1] = "exception")'
      OBVIOUS
    <3>1. PICK of : of = ps'.threads[ps'.requesting + 1].of
      OBVIOUS
    <3>2. CrashOf(of)'
      BY <2>1, <3>1 DEF CrashOf
    <3>3. lazy'[Exc] # NULL
      BY <1>3, <1>6
    <3>4. PartVal(Exc, StreamVal("Exception")) # NULL
      BY <1>1, <1>2, <3>3, OnwardGives, KeptException
    <3>5. SameDirectory
      BY <1>2 DEF OnwardStep
    <3>6. of[1] = "exception"
      BY <3>2, <3>3, <3>4, <3>5, CrashStays
    <3> QED
      BY <3>1, <3>6
  <2> QED
    BY <2>1, <2>2 DEF CrashOK
<1>12. CopyOK'
  BY <1>1, <1>2, <1>3, <1>6, LoopReads, CopyGoes DEF PInv
<1> QED
  BY <1>1, <1>2, <1>8, <1>9, <1>10, <1>11, <1>12, LoopReads DEF PInv

LEMMA PushedKeeps ==
    ASSUME PInv, Looping, OnwardStep, trace' = trace, processing.k <= Len(ThreadsVal),
           NEW id, id = ThreadsVal[processing.k].id, id # processing.dumper,
           ~(id = processing.wanted /\ processing.found),
           NEW of, Pushed(processing.k, id, of), id = processing.wanted /\ ps.crashed => CrashOf(of)'
    PROVE  PInv'
<1>1. PICK l, p, q, v, w : l = ThreadsVal /\ p = processing /\ q = ps /\ v = processing' /\ w = ps'
  OBVIOUS
<1>2. PICK walker, interrupted, mem :
       /\ processing' = [processing EXCEPT !.k = @ + 1, !.found = @ \/ id = processing.wanted,
                                           !.interrupted = @ \/ interrupted]
       /\ ps' = [ps EXCEPT !.requesting = IF id = processing.wanted THEN NextIndex(ps, processing.k) ELSE @,
                           !.threads = Append(@, [id |-> id, of |-> of, walked |-> walker, mem |-> mem]),
                           !.regions = Append(@, mem)]
  BY Zenon DEF Pushed
<1>3. IsProcessing(p) /\ IsProcessState(q) /\ IsSequence(q.threads) /\ IsSequence(q.regions)
  BY <1>1 DEF PInv, ProcessTypes
<1>4. /\ IsProcessing(v) /\ v.pc = p.pc /\ v.k = p.k + 1 /\ v.calls = p.calls /\ v.result = p.result
      /\ v.dumper = p.dumper /\ v.wanted = p.wanted /\ v.found \in BOOLEAN /\ (v.found <=> p.found \/ id = p.wanted)
  <2>1. PICK x, y : x = (p.found \/ id = p.wanted) /\ y = (p.interrupted \/ interrupted)
    OBVIOUS
  <2>2. v = [p EXCEPT !.k = @ + 1, !.found = x, !.interrupted = y]
    BY <1>1, <1>2, <2>1, Zenon
  <2>3. /\ IsProcessing(v) /\ v.pc = p.pc /\ v.k = p.k + 1 /\ v.calls = p.calls /\ v.result = p.result
        /\ v.dumper = p.dumper /\ v.wanted = p.wanted /\ v.found = x
    BY <1>3, <2>2 DEF IsProcessing
  <2> QED
    BY <2>1, <2>3
<1>5. PICK x : x = [id |-> id, of |-> of, walked |-> walker, mem |-> mem]
  OBVIOUS
<1>6. x.id = id /\ x.of = of /\ x.mem = mem
  BY <1>5
<1>7. /\ IsProcessState(w) /\ w.crashed = q.crashed /\ w.threads = Append(q.threads, x)
      /\ w.regions = Append(q.regions, mem)
      /\ w.requesting = IF id = p.wanted THEN Len(q.threads) ELSE q.requesting
      /\ w.modules = q.modules
  <2>1. PICK r, y, z : /\ r = (IF id = p.wanted THEN Len(q.threads) ELSE q.requesting)
                       /\ y = Append(q.threads, x) /\ z = Append(q.regions, mem)
    OBVIOUS
  <2>2. w = [q EXCEPT !.requesting = r, !.threads = y, !.regions = z]
    BY <1>1, <1>2, <1>5, <2>1 DEF NextIndex
  <2>3. /\ IsProcessState(w) /\ w.crashed = q.crashed /\ w.requesting = r /\ w.threads = y /\ w.regions = z
        /\ w.modules = q.modules
    BY <1>3, <2>2 DEF IsProcessState
  <2> QED
    BY <2>1, <2>3
<1>8. PICK n \in Nat : Len(l) = n /\ p.k \in 1..(n + 1) /\ p.k <= n
  BY <1>1, LoopReads
<1>9. Follows(l, v, w) /\ v.k \in 1..(n + 1)
  <2>1. Follows(l, p, q) /\ l[p.k].id = id /\ id # p.dumper
    BY <1>1, LoopReads
  <2> QED
    <3>1. l[p.k].id # p.dumper /\ x.id = l[p.k].id /\ (v.found <=> p.found \/ x.id = p.wanted)
      BY <1>4, <1>6, <2>1
    <3>2. Follows(l, v, w)
      BY <1>3, <1>4, <1>7, <1>8, <2>1, <3>1, FollowsPushed
    <3> QED
      BY <1>4, <1>8, <3>2
<1>10. Used' /\ trace' = NULL /\ Looping' /\ ~Walked' /\ processing.calls > 0
  <2>1. Used /\ trace = NULL
    BY LoopReads
  <2>2. v.pc = "threads"
    BY <1>1, <1>4 DEF Looping
  <2> QED
    BY <1>1, <1>4, <2>1, <2>2 DEF Used, Looping, Walked
<1>11. UsedOK' /\ TraceOK'
  BY <1>10, LoopReads DEF UsedOK, TraceOK
<1>12. ProcessTypes'
  <2>1. IsSequence(w.threads) /\ IsSequence(w.regions)
    BY <1>3, <1>7, OneMoreElement
  <2> QED
    BY <1>1, <1>4, <1>7, <2>1 DEF PInv, ProcessTypes
<1>13. RegionsFit(processing, ps)'
  <2>1. RegionsFit(p, q) /\ p.calls \in Nat /\ p.calls > 0
    BY <1>1, <1>10, ProcessAssumption DEF PInv, ProcessTypes
  <2>2. RegionsFit(v, w)
    BY <1>3, <1>4, <1>6, <1>7, <2>1, RegionsPushed
  <2> QED
    BY <1>1, <2>2 DEF RegionsFit
<1>14. RequestedIs(processing, ps)'
  <2>1. RequestedIs(p, q)
    BY <1>1 DEF PInv
  <2>2. RequestedIs(v, w)
    BY <1>3, <1>4, <1>6, <1>7, <2>1, RequestedPushed
  <2> QED
    BY <1>1, <2>2 DEF RequestedIs
<1>15. LoopOK'
  <2>1. valid' /\ Threads' # NULL /\ ThreadsVal' = l /\ (rd.streams["Exception"] # NULL => rd'.streams["Exception"] # NULL)
    BY <1>1, LoopReads
  <2>2. ps.crashed => rd.streams["Exception"] # NULL
    BY DEF PInv, LoopOK, Looping
  <2>3. processing'.k \in 1..(Len(ThreadsVal)' + 1)
    BY <1>1, <1>8, <1>9, <2>1
  <2>4. ps'.crashed => ps.crashed
    BY <1>1, <1>7
  <2> QED
    BY <2>1, <2>2, <2>3, <2>4 DEF LoopOK
<1>16. StacksOK'
  <2>1. ThreadsVal' = l /\ processing' = v /\ ps' = w
    BY <1>1, LoopReads
  <2>2. Follows(ThreadsVal, processing, ps)'
    BY <1>9, <2>1, FollowsSame
  <2> QED
    BY <1>10, <2>2 DEF StacksOK
<1>17. CrashOK'
  <2> SUFFICES ASSUME ps'.crashed, ps'.requesting # -1
               PROVE  CrashOf(ps.threads[ps.requesting + 1].of)'
    BY <1>10 DEF CrashOK
  <2>0. /\ Len(w.threads) = Len(q.threads) + 1 /\ Len(q.threads) \in Nat
        /\ \A i \in 1..Len(q.threads) : w.threads[i] = q.threads[i]
        /\ w.threads[Len(q.threads) + 1] = x
    BY <1>3, <1>7, OneMoreElement DEF IsSequence
  <2>1. PICK at : at = w.threads[w.requesting + 1].of
    OBVIOUS
  <2>2. CASE id = p.wanted
    <3>1. at = of
      BY <1>6, <1>7, <2>0, <2>1, <2>2
    <3>2. CrashOf(of)'
      BY <1>1, <1>7, <2>2
    <3> QED
      BY <1>1, <2>1, <3>1, <3>2 DEF CrashOf
  <2>3. CASE id # p.wanted
    <3>1. w.requesting = q.requesting /\ q.requesting + 1 \in 1..Len(q.threads)
      BY <1>1, <1>7, <2>0, <2>3 DEF PInv, RequestedIs
    <3>2. at = q.threads[q.requesting + 1].of
      BY <2>0, <2>1, <3>1
    <3>3. ps.crashed /\ ps.requesting # -1
      BY <1>1, <1>7, <3>1
    <3>4. CrashOf(at)
      BY <1>1, <3>2, <3>3 DEF PInv, CrashOK
    <3>5. CrashOf(at)'
      BY <3>4, LoopReads, CrashGoes
    <3> QED
      BY <1>1, <2>1, <3>5 DEF CrashOf
  <2> QED
    BY <2>2, <2>3
<1>18. CopyOK'
  BY <1>1, <1>7, LoopReads, CopyGoes DEF PInv
<1> QED
  BY <1>11, <1>12, <1>13, <1>14, <1>15, <1>16, <1>17, <1>18, LoopReads DEF PInv

LEMMA RoundKeeps == ASSUME PInv, Process_Thread PROVE PInv' /\ FailureStays
<1>1. Looping /\ trace' = trace /\ LoopOK /\ IInv /\ processing.k <= Len(Threads)
  BY DEF Process_Thread, PInv, Looping, Threads
<1>2. OnwardStep /\ Round(processing.k, ThreadsVal[processing.k].id)
  BY <1>1, ThreadRound
<1>3. processing.k <= Len(ThreadsVal) /\ FailureStays
  BY <1>1, <1>2, LoopReads
<1> QED
  BY <1>1, <1>2, <1>3, DumperKeeps, DuplicateKeeps, PushedKeeps DEF Round
---------------------------------------------------------------------------
(* What Process() promises.                                                *)

LEMMA ProcessNextKeeps == ASSUME PInv, [ProcessNext]_vars PROVE PInv' /\ FailureStays
BY OtherKeeps, ProcessKeeps, RoundKeeps, EndKeeps, PrintKeeps, StutterKeeps DEF ProcessNext

LEMMA ProcessStarts == ProcessInit => PInv
<1> SUFFICES ASSUME ProcessInit
             PROVE  PInv
  OBVIOUS
<1>1. IInv
  BY InvStarts DEF ProcessInit
<1>2. processing = [pc |-> "idle", k |-> 1, calls |-> 0, result |-> NULL, dumper |-> NULL, wanted |-> NULL,
                    found |-> FALSE, interrupted |-> FALSE]
  BY DEF ProcessInit
<1>3. ps = [crashed |-> FALSE, address |-> 0, assertion |-> FALSE, system |-> "", requesting |-> -1,
            threads |-> <<>>, modules |-> {}, regions |-> <<>>, rating |-> "not_analyzed"]
  BY DEF ProcessInit
<1>4. IsProcessing(processing) /\ IsProcessState(ps)
  BY <1>2, <1>3 DEF IsProcessing, IsProcessState
<1>5. /\ processing.pc = "idle" /\ processing.calls = 0 /\ processing.result = NULL /\ processing.found = FALSE
      /\ ps.requesting = -1 /\ ps.threads = <<>> /\ ps.regions = <<>> /\ trace = NULL
  <2>1. PICK z : z = FALSE
    OBVIOUS
  <2>2. processing = [pc |-> "idle", k |-> 1, calls |-> 0, result |-> NULL, dumper |-> NULL, wanted |-> NULL,
                      found |-> z, interrupted |-> z]
    BY <1>2, <2>1
  <2>3. processing.found = z /\ processing.pc = "idle" /\ processing.calls = 0 /\ processing.result = NULL
    BY <2>2
  <2>4. ps.requesting = -1 /\ ps.threads = <<>> /\ ps.regions = <<>>
    BY <1>3
  <2> QED
    BY <2>1, <2>3, <2>4 DEF ProcessInit
<1>6. ~Used /\ ~Looping /\ ~Walked
  BY <1>5, ProcessAssumption DEF Used, Looping, Walked
<1>7. ProcessTypes
  BY <1>4, <1>5, NoElement, ProcessAssumption DEF ProcessTypes
<1>8. UsedOK /\ LoopOK /\ StacksOK /\ CrashOK /\ CopyOK /\ TraceOK
  BY <1>5, <1>6 DEF UsedOK, LoopOK, StacksOK, CrashOK, CopyOK, TraceOK, Looping
<1>9. RegionsFit(processing, ps)
  BY <1>5, NoElement DEF RegionsFit
<1>10. RequestedIs(processing, ps)
  BY <1>5, RequestedNone
<1> QED
  BY <1>1, <1>7, <1>8, <1>9, <1>10 DEF PInv

\* Process() and the rest of the program keep the invariant.
THEOREM ProcessInvariance == ProcessSpec => []PInv
<1>1. PInv /\ [ProcessNext]_vars => PInv'
  BY ProcessNextKeeps
<1> QED
  BY ProcessStarts, <1>1, PTL DEF ProcessSpec

\* Process(), which may come between any two calls to the reader and be
\* followed by others, does not spoil the reader's types.
THEOREM ProcessTyping == ProcessSpec => []TypeOK
<1>1. PInv => TypeOK
  BY InvTyping DEF PInv
<1> QED
  BY <1>1, ProcessInvariance, PTL

\* The answers of the reader do not depend on what Process() has asked for.
THEOREM ProcessKeepsAnswers == ProcessSpec => []SameAnswers
<1>1. PInv => SameAnswers
  BY InvSameAnswers DEF PInv
<1> QED
  BY <1>1, ProcessInvariance, PTL

\* What Process() leaves in the reader is what the file has there.
THEOREM ProcessKeepsData == ProcessSpec => []OwnData
<1>1. PInv => OwnData
  BY InvOwnData DEF PInv
<1> QED
  BY <1>1, ProcessInvariance, PTL

\* The memory that Process() walks is read inside its region only.
THEOREM ProcessAccessesInside == ProcessSpec => []AccessInside
<1>1. PInv => AccessInside
  BY InvAccessInside DEF PInv
<1> QED
  BY <1>1, ProcessInvariance, PTL

\* The module list that Process() copies has each module at its addresses.
THEOREM ProcessModulesFound == ProcessSpec => []ModulesHaveTheirAddresses
<1>1. PInv => ModulesHaveTheirAddresses
  BY InvModulesHaveTheirAddresses DEF PInv
<1> QED
  BY <1>1, ProcessInvariance, PTL

\* After a read that has failed Process() does not bring anything new either.
THEOREM ProcessFailureStays == ProcessSpec => FailureIsFinal
<1>1. PInv /\ [ProcessNext]_vars => [FailureStays]_minidump
  BY ProcessNextKeeps
<1>2. ProcessSpec => [][FailureStays]_minidump
  BY <1>1, ProcessInvariance, PTL DEF ProcessSpec
<1> QED
  BY <1>2 DEF FailureIsFinal, FailureStays

\* The list that was walked, when there still is one.
LEMMA WalkedList ==
    ASSUME PInv, Walked, Threads # NULL
    PROVE  \E n \in Nat : /\ DOMAIN Threads = 1..n /\ Len(Threads) = n /\ processing.k = n + 1
                          /\ Follows(Threads, processing, ps)
<1>1. IInv /\ StacksOK
  BY DEF PInv
<1>2. valid /\ Threads = ThreadsVal /\ ThreadsVal # NULL
  BY <1>1, KeptThreads
<1>3. PICK n \in 0..MaxItems : DOMAIN ThreadsVal = 1..n /\ Len(ThreadsVal) = n
  BY <1>1, <1>2, InvGives, ThreadsAre DEF ThreadsVal
<1>4. Follows(ThreadsVal, processing, ps) /\ processing.k = Len(ThreadsVal) + 1
  BY <1>1, <1>2 DEF StacksOK
<1>5. n \in Nat
  BY MinidumpAssumption
<1> QED
  BY <1>2, <1>3, <1>4, <1>5

LEMMA PInvStacks == PInv => StacksFollowTheList
<1> SUFFICES ASSUME PInv
             PROVE  StacksFollowTheList
  OBVIOUS
<1>1. ASSUME Walked, Threads # NULL
      PROVE  LET stacked == {i \in DOMAIN Threads : Threads[i].id # processing.dumper}
             IN  /\ Len(ps.threads) = Cardinality(stacked)
                 /\ \A i \in stacked : ps.threads[Cardinality({j \in stacked : j <= i})].id = Threads[i].id
  <2> DEFINE stacked == {i \in DOMAIN Threads : Threads[i].id # processing.dumper}
  <2>1. PICK n \in Nat : /\ DOMAIN Threads = 1..n /\ Len(Threads) = n /\ processing.k = n + 1
                         /\ Follows(Threads, processing, ps)
    BY <1>1, WalkedList
  <2>2. PICK d : d = processing.dumper
    OBVIOUS
  <2>3. stacked = {j \in 1..n : Threads[j].id # d}
    BY <2>1, <2>2
  <2>4. /\ Len(ps.threads) = RankOf(Threads, d, n)
        /\ \A i \in 1..n : Threads[i].id # d => ps.threads[RankOf(Threads, d, i)].id = Threads[i].id
    <3>1. processing.k - 1 = n
      BY <2>1
    <3> QED
      BY <2>1, <2>2, <3>1 DEF Follows
  <2>5. ASSUME NEW i \in stacked
        PROVE  {j \in stacked : j <= i} = {j \in 1..i : Threads[j].id # d}
    BY <2>3
  <2>6. Len(ps.threads) = Cardinality(stacked)
    BY <2>3, <2>4 DEF RankOf
  <2>7. ASSUME NEW i \in stacked
        PROVE  ps.threads[Cardinality({j \in stacked : j <= i})].id = Threads[i].id
    <3>1. ps.threads[RankOf(Threads, d, i)].id = Threads[i].id
      BY <2>3, <2>4, <2>7
    <3> QED
      BY <2>5, <3>1 DEF RankOf
  <2> QED
    BY <2>6, <2>7
<1>2. Len(ps.regions) >= Len(ps.threads)
  BY DEF PInv, RegionsFit
<1>3. \A i \in DOMAIN ps.threads : ps.regions[Len(ps.regions) - Len(ps.threads) + i] = ps.threads[i].mem
  BY DEF PInv, RegionsFit, ProcessTypes, IsSequence
<1> QED
  BY <1>1, <1>2, <1>3 DEF StacksFollowTheList

\* Every thread but the dump's writer gets its stack, in the order of the file,
\* however often the state is used again.
THEOREM StacksInOrder == ProcessSpec => []StacksFollowTheList
BY ProcessInvariance, PInvStacks, PTL

LEMMA PInvRequesting == PInv => RequestingThreadIsTheWantedOne
<1> SUFFICES ASSUME PInv, Walked, Threads # NULL
             PROVE  IF ps.requesting = -1
                    THEN \A i \in DOMAIN Threads : Threads[i].id = processing.wanted
                                                     => processing.wanted = processing.dumper
                    ELSE /\ ps.requesting < Len(ps.threads)
                         /\ ps.threads[ps.requesting + 1].id = processing.wanted
  BY DEF RequestingThreadIsTheWantedOne
<1>1. PICK n \in Nat : DOMAIN Threads = 1..n /\ processing.k = n + 1 /\ Follows(Threads, processing, ps)
  BY WalkedList
<1>2. processing.k - 1 = n
  BY <1>1
<1>3. RequestedIs(processing, ps)
  BY DEF PInv
<1>4. CASE ps.requesting = -1
  <2>1. ~processing.found
    BY <1>3, <1>4 DEF RequestedIs
  <2> QED
    BY <1>1, <1>2, <1>4, <2>1 DEF Follows
<1>5. CASE ps.requesting # -1
  BY <1>3, <1>5 DEF RequestedIs
<1> QED
  BY <1>4, <1>5

\* requesting_thread_ names the stack of the thread that was wanted.
THEOREM RequestedThreadIsWanted == ProcessSpec => []RequestingThreadIsTheWantedOne
BY ProcessInvariance, PInvRequesting, PTL

LEMMA PInvCrashed == PInv => CrashedThreadHasExceptionContext
<1> SUFFICES ASSUME PInv, Walked, ps.crashed, ps.requesting # -1
             PROVE  LET of == ps.threads[ps.requesting + 1].of
                    IN  /\ of[1] = "exception" \/ lazy[<<"exception", 0>>] = NULL
                        /\ processing.result = "ok" /\ ps.rating = "interesting" => of[1] = "exception"
  BY DEF CrashedThreadHasExceptionContext
<1>1. PICK of : of = ps.threads[ps.requesting + 1].of
  OBVIOUS
<1>2. CrashOf(of) /\ (processing.result = "ok" /\ ps.rating = "interesting" => of[1] = "exception")
  BY <1>1 DEF PInv, CrashOK
<1>3. Holds(rd, lazy)
  BY InvGives DEF PInv
<1>4. of[1] = "exception" \/ lazy[Exc] = NULL
  BY <1>2, <1>3, KeptException DEF CrashOf
<1> QED
  BY <1>1, <1>2, <1>4 DEF Exc

\* The crashed thread is walked from the exception's context when that can be
\* read, and rated by it.
THEOREM CrashedThreadIsWalkedFromException == ProcessSpec => []CrashedThreadHasExceptionContext
BY ProcessInvariance, PInvCrashed, PTL

\* The order in which the stacks are printed leaves none out.
Printed(n, r) == [i \in 1..n |-> IF r = -1 \/ i > r + 1 THEN i - 1 ELSE IF i = 1 THEN r ELSE i - 2]

LEMMA PrintedOrder ==
    ASSUME NEW n \in Nat, NEW r \in -1..(n - 1)
    PROVE  /\ \A i \in 1..n : Printed(n, r)[i] \in 0..(n - 1)
           /\ \A j \in 0..(n - 1) : \E i \in 1..n : Printed(n, r)[i] = j
           /\ r # -1 => Printed(n, r)[1] = r
<1> DEFINE f == Printed(n, r)
<1>0. f = [i \in 1..n |-> IF r = -1 \/ i > r + 1 THEN i - 1 ELSE IF i = 1 THEN r ELSE i - 2]
  BY DEF Printed
<1> HIDE DEF f
<1>1. \A i \in 1..n : f[i] \in 0..(n - 1)
  BY <1>0
<1>2. ASSUME NEW j \in 0..(n - 1)
      PROVE  \E i \in 1..n : f[i] = j
  <2>1. CASE r = -1 \/ j > r
    <3>1. j + 1 \in 1..n /\ f[j + 1] = j
      BY <1>0, <2>1
    <3> QED
      BY <3>1
  <2>2. CASE r # -1 /\ j = r
    <3>1. 1 \in 1..n /\ f[1] = j
      BY <1>0, <2>2
    <3> QED
      BY <3>1
  <2>3. CASE r # -1 /\ j < r
    <3>1. j + 2 \in 1..n /\ f[j + 2] = j
      BY <1>0, <2>3
    <3> QED
      BY <3>1
  <2> QED
    BY <2>1, <2>2, <2>3
<1>3. r # -1 => f[1] = r
  BY <1>0
<1> QED
  BY <1>1, <1>2, <1>3 DEF f

LEMMA PInvTrace == PInv => TraceHasEveryStack
<1> SUFFICES ASSUME PInv, trace # NULL
             PROVE  /\ {trace[i].index : i \in DOMAIN trace} = 0..(Len(ps.threads) - 1)
                    /\ Len(trace) = Len(ps.threads)
                    /\ ps.requesting # -1 => trace[1].index = ps.requesting
                    /\ processing.calls = 1 =>
                          \A i \in DOMAIN trace : trace[i].mem = ps.threads[trace[i].index + 1].mem
  BY DEF TraceHasEveryStack
<1>1. PICK n \in Nat : n = Len(ps.threads) /\ DOMAIN ps.threads = 1..n
  BY DEF PInv, ProcessTypes, IsSequence
<1>2. PICK r \in -1..(n - 1) : r = ps.requesting
  BY <1>1 DEF PInv, RequestedIs
<1>3. PICK f : f = Printed(n, r)
  OBVIOUS
<1>4. RfPrintProcessState(ps) = f
  BY <1>1, <1>2, <1>3 DEF RfPrintProcessState, Printed
<1>5. /\ \A i \in 1..n : f[i] \in 0..(n - 1)
      /\ \A j \in 0..(n - 1) : \E i \in 1..n : f[i] = j
      /\ r # -1 => f[1] = r
  <2>1. n \in Nat /\ r \in -1..(n - 1)
    BY <1>1, <1>2
  <2> QED
    BY <1>3, <2>1, PrintedOrder, Zenon
<1>6. trace = [i \in 1..n |-> [index |-> f[i], mem |-> ps.regions[f[i] + 1]]]
  BY <1>1, <1>4 DEF PInv, TraceOK
<1>7. DOMAIN trace = 1..n /\ \A i \in 1..n : trace[i].index = f[i] /\ trace[i].mem = ps.regions[f[i] + 1]
  BY <1>6
<1>8. Len(trace) = n
  BY <1>6
<1>9. {trace[i].index : i \in DOMAIN trace} = 0..(n - 1)
  <2>1. \A x \in {trace[i].index : i \in DOMAIN trace} : x \in 0..(n - 1)
    BY <1>5, <1>7
  <2>2. ASSUME NEW x \in 0..(n - 1)
        PROVE  \E i \in DOMAIN trace : trace[i].index = x
    <3>1. PICK i \in 1..n : f[i] = x
      BY <1>5
    <3> QED
      BY <1>7, <3>1
  <2> HIDE <1>7
  <2> QED
    BY <2>1, <2>2
<1>10. r # -1 => trace[1].index = r
  BY <1>2, <1>5, <1>7
<1>11. processing.calls = 1 => \A i \in DOMAIN trace : trace[i].mem = ps.threads[trace[i].index + 1].mem
  <2> SUFFICES ASSUME processing.calls = 1, NEW i \in 1..n
               PROVE  trace[i].mem = ps.threads[trace[i].index + 1].mem
    BY <1>7
  <2>1. PICK j \in 1..n : j = f[i] + 1
    BY <1>5
  <2>2. Len(ps.regions) = n
    BY <1>1 DEF PInv, RegionsFit
  <2>3. ps.regions[n - n + j] = ps.threads[j].mem
    BY <1>1, <2>2 DEF PInv, RegionsFit
  <2>4. n - n + j = j
    OBVIOUS
  <2> QED
    BY <1>7, <2>1, <2>3, <2>4
<1> QED
  BY <1>1, <1>2, <1>8, <1>9, <1>10, <1>11

\* The trace that is printed has every stack once, the requesting thread's
\* first, each with its memory.
THEOREM TraceIsComplete == ProcessSpec => []TraceHasEveryStack
BY ProcessInvariance, PInvTrace, PTL

LEMMA PInvCopies == PInv => CopyKeepsModules
<1> SUFFICES ASSUME PInv, Used, rd.streams["ModuleList"] # NULL, NEW v, v = rd.streams["ModuleList"]
             PROVE  /\ \A r \in ps.modules : /\ r.base = Get(v.items[r.index].raw, "base")
                                             /\ r.high = r.base + Get(v.items[r.index].raw, "size") - 1
                    /\ (\A i \in DOMAIN v.items : ~IsAshmem(v.items[i])) =>
                          \A r \in v.map : r.base = Get(v.items[r.index].raw, "base") => r \in ps.modules
  BY DEF CopyKeepsModules, Used
<1>1. FileOK /\ DirectoryOK /\ ModulesOK(v)
  BY InvGives DEF PInv, Holds, KeepsModules
<1>2. valid /\ ~Listless
  BY <1>1 DEF ModulesOK, Listless, InDirectory
<1>3. CopyOf(ps.modules)
  BY <1>2 DEF PInv, CopyOK
<1>4. PICK modules : modules = ps.modules
  OBVIOUS
<1>5. IsCopy(modules, ItemCells(Place("ModuleList"), SizeOf("ModuleList")), CountOf(Place("ModuleList")))
  BY <1>3, <1>4 DEF CopyOf
<1> QED
  BY <1>1, <1>4, <1>5, CopyKept

\* The modules the stacks refer to are those of the file: each with its own
\* addresses, and in a list without ashmem mappings none is missing but those
\* that overlap one before them.
THEOREM CopyIsComplete == ProcessSpec => []CopyKeepsModules
BY ProcessInvariance, PInvCopies, PTL
=============================================================================
