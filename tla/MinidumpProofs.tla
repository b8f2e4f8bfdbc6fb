---------------------------- MODULE MinidumpProofs ----------------------------
(***************************************************************************)
(* Proofs about Minidump, for any files, of whatever contents and cut off  *)
(* anywhere, any limits and any order of calls.                            *)
(*                                                                         *)
(* What a reader gives depends on the file and on where it begins, not on  *)
(* what was read before.  The first part says for each reader what it      *)
(* finds in the file (...Val), in terms of its cells alone; the lemmas say *)
(* that this is what the reader gives from any state in which no read has  *)
(* failed, and that it leaves the streams alone.                           *)
(***************************************************************************)
EXTENDS Minidump, Induction, SequenceTheorems

FileOK == dump \in Dumps /\ len \in 0..Len(Cells[dump])

IsState(s) ==
    /\ s = [pos |-> s.pos, bad |-> s.bad, streams |-> s.streams]
    /\ s.pos \in Nat /\ s.bad \in BOOLEAN
    /\ s.streams = [t \in StreamTypes |-> s.streams[t]]

\* v is what s has become by reading, which leaves the streams alone and, once
\* a read has failed, everything.
Moved(s, v) == IsState(v) /\ v.streams = s.streams /\ (s.bad => v = s)

LEMMA CellAtIsCell ==
    ASSUME FileOK, NEW o \in Int
    PROVE  /\ IsCell(CellAt(o))
           /\ \A f \in Unsigned : Get(CellAt(o), f) \in Nat
<1>1. CASE o \in 0..(len - 1)
  <2>1. o + 1 \in 1..Len(Cells[dump]) /\ Len(Cells[dump]) \in Nat
    BY <1>1, MinidumpAssumption DEF FileOK
  <2> QED
    BY <1>1, <2>1, MinidumpAssumption DEF CellAt, FileOK, IsCell
<1>2. CASE o \notin 0..(len - 1)
  <2>1. CellAt(o) = [k |-> "none"]
    BY <1>2 DEF CellAt
  <2>2. IsCell([k |-> "none"])
    BY DEF IsCell, Get, Location, Unsigned
  <2> QED
    BY <2>1, <2>2 DEF IsCell
<1> QED
  BY <1>1, <1>2

LEMMA LenIsNat == ASSUME FileOK PROVE len \in Nat
BY MinidumpAssumption DEF FileOK

LEMMA MovedTwice ==
    ASSUME NEW s, NEW v, NEW w, Moved(s, v), Moved(v, w)
    PROVE  Moved(s, w)
BY DEF Moved

LEMMA MovedSelf ==
    ASSUME NEW s, IsState(s)
    PROVE  Moved(s, s)
BY DEF Moved

\* The fields of a state that has one of them changed.
LEMMA StateFields ==
    ASSUME NEW s, NEW p, NEW b, NEW q, s = [pos |-> p, bad |-> b, streams |-> q], NEW x
    PROVE  /\ s.pos = p /\ s.bad = b /\ s.streams = q
           /\ [s EXCEPT !.pos = x] = [pos |-> x, bad |-> b, streams |-> q]
           /\ [s EXCEPT !.bad = x] = [pos |-> p, bad |-> x, streams |-> q]
           /\ [s EXCEPT !.streams = x] = [pos |-> p, bad |-> b, streams |-> x]
OBVIOUS

LEMMA SeekSetMoves ==
    ASSUME NEW s, IsState(s), NEW o \in Nat
    PROVE  /\ Moved(s, SeekSet(s, o))
           /\ SeekSet(s, o).bad = s.bad
           /\ ~s.bad => SeekSet(s, o).pos = o
           /\ s.bad => SeekSet(s, o) = s
<1>1. CASE s.bad
  BY <1>1 DEF SeekSet, Moved
<1>2. CASE ~s.bad
  <2>1. SeekSet(s, o) = [pos |-> o, bad |-> s.bad, streams |-> s.streams]
    BY <1>2 DEF SeekSet, IsState
  <2> QED
    BY <1>2, <2>1 DEF IsState, Moved
<1> QED
  BY <1>1, <1>2

\* Reading n cells from where s is: what comes out and where it ends.
LEMMA ReadBytesReads ==
    ASSUME FileOK, NEW s, IsState(s), NEW n \in Nat
    PROVE  /\ Moved(s, ReadBytes(s, n).s)
           /\ ReadBytes(s, n).ok \in BOOLEAN
           /\ ReadBytes(s, n).ok <=> ~s.bad /\ s.pos + n <= len
           /\ ReadBytes(s, n).s.bad <=> ~ReadBytes(s, n).ok
           /\ ReadBytes(s, n).ok => /\ ReadBytes(s, n).cells = Block(s.pos, n)
                                    /\ ReadBytes(s, n).s.pos = s.pos + n
<1>0. len \in Int /\ s.pos \in Int /\ n \in Int
  BY LenIsNat DEF IsState
<1>1. CASE s.bad \/ s.pos + n > len
  <2>1. ReadBytes(s, n) = [s |-> [s EXCEPT !.bad = TRUE], ok |-> FALSE, cells |-> <<>>]
    BY <1>1 DEF ReadBytes
  <2>2. [s EXCEPT !.bad = TRUE] = [pos |-> s.pos, bad |-> TRUE, streams |-> s.streams]
    <3>1. \A x : [s EXCEPT !.bad = x] = [pos |-> s.pos, bad |-> x, streams |-> s.streams]
      BY StateFields DEF IsState
    <3> QED
      BY <3>1
  <2>3. s.bad => [pos |-> s.pos, bad |-> TRUE, streams |-> s.streams] = s
    BY DEF IsState
  <2>4. Moved(s, [s EXCEPT !.bad = TRUE])
    BY <2>2, <2>3 DEF IsState, Moved
  <2>5. ReadBytes(s, n).s = [s EXCEPT !.bad = TRUE] /\ ReadBytes(s, n).ok = FALSE
    BY <2>1
  <2>6. ~(~s.bad /\ s.pos + n <= len)
    BY <1>0, <1>1
  <2>7. ReadBytes(s, n).s.bad = TRUE
    BY <2>2, <2>5
  <2> QED
    BY <2>4, <2>5, <2>6, <2>7
<1>2. CASE ~(s.bad \/ s.pos + n > len)
  <2>1. ReadBytes(s, n) = [s |-> [s EXCEPT !.pos = s.pos + n], ok |-> TRUE, cells |-> Block(s.pos, n)]
    BY <1>2 DEF ReadBytes, Block
  <2>2. [s EXCEPT !.pos = s.pos + n] = [pos |-> s.pos + n, bad |-> s.bad, streams |-> s.streams]
    BY StateFields DEF IsState
  <2>3. Moved(s, [s EXCEPT !.pos = s.pos + n])
    BY <1>2, <2>2 DEF IsState, Moved
  <2>5. /\ ReadBytes(s, n).s = [s EXCEPT !.pos = s.pos + n] /\ ReadBytes(s, n).ok = TRUE
        /\ ReadBytes(s, n).cells = Block(s.pos, n)
    BY <2>1
  <2>6. s.bad = FALSE /\ s.pos + n <= len
    BY <1>0, <1>2 DEF IsState
  <2>7. ReadBytes(s, n).s.bad = FALSE /\ ReadBytes(s, n).s.pos = s.pos + n
    BY <2>2, <2>5, <2>6
  <2> QED
    BY <2>3, <2>5, <2>6, <2>7
<1> QED
  BY <1>1, <1>2

LEMMA BlockCells ==
    ASSUME FileOK, NEW o \in Int, NEW n \in Nat
    PROVE  /\ DOMAIN Block(o, n) = 1..n /\ Len(Block(o, n)) = n
           /\ \A i \in 1..n : Block(o, n)[i] = CellAt(o + i - 1) /\ IsCell(Block(o, n)[i])
           /\ n = 1 => Block(o, n)[1] = CellAt(o)
<1>1. DOMAIN Block(o, n) = 1..n /\ \A i \in 1..n : Block(o, n)[i] = CellAt(o + i - 1)
  BY DEF Block
<1>2. Len(Block(o, n)) = n
  BY DEF Block
<1>3. \A i \in 1..n : IsCell(CellAt(o + i - 1))
  BY CellAtIsCell
<1>4. n = 1 => Block(o, n)[1] = CellAt(o)
  BY <1>1
<1> QED
  BY <1>1, <1>2, <1>3, <1>4
---------------------------------------------------------------------------
(* Streams of one piece and the lists.                                     *)

FixedVal(at, size) == IF size = 1 /\ at + 1 <= len THEN CellAt(at) ELSE NULL

MiscInfoVal(at, size) ==
    IF size \in 1..4 /\ at + size <= len /\ Get(CellAt(at), "n") = size THEN CellAt(at) ELSE NULL

LEMMA FixedReads ==
    ASSUME FileOK, NEW s, IsState(s), NEW size \in Nat
    PROVE  /\ Moved(s, FixedRead(s, size).s)
           /\ ~s.bad => FixedRead(s, size).val = FixedVal(s.pos, size)
           /\ ~s.bad => (FixedRead(s, size).s.bad <=> size = 1 /\ s.pos + 1 > len)
<1>0. s.pos \in Nat /\ len \in Int
  BY LenIsNat DEF IsState
<1>1. CASE size = 1
  <2>1. FixedRead(s, size) = Result(ReadBytes(s, 1).s, ReadBytes(s, 1).ok, CellAt(s.pos))
    BY <1>1 DEF FixedRead
  <2>2. /\ FixedRead(s, size).s = ReadBytes(s, 1).s
        /\ FixedRead(s, size).val = IF ReadBytes(s, 1).ok THEN CellAt(s.pos) ELSE NULL
    BY <2>1 DEF Result
  <2>3. Moved(s, ReadBytes(s, 1).s) /\ (ReadBytes(s, 1).ok <=> ~s.bad /\ s.pos + 1 <= len)
        /\ (ReadBytes(s, 1).s.bad <=> ~ReadBytes(s, 1).ok)
    BY ReadBytesReads
  <2>4. ~(s.pos + 1 <= len) <=> s.pos + 1 > len
    BY <1>0
  <2> QED
    BY <1>1, <2>2, <2>3, <2>4 DEF FixedVal
<1>2. CASE size # 1
  <2>1. FixedRead(s, size).s = s /\ FixedRead(s, size).val = NULL
    BY <1>2 DEF FixedRead, Result
  <2> QED
    BY <1>2, <2>1, MovedSelf DEF FixedVal
<1> QED
  BY <1>1, <1>2

LEMMA MiscInfoReads ==
    ASSUME FileOK, NEW s, IsState(s), NEW size \in Nat
    PROVE  /\ Moved(s, MiscInfoRead(s, size).s)
           /\ ~s.bad => MiscInfoRead(s, size).val = MiscInfoVal(s.pos, size)
<1>0. s.pos \in Nat /\ len \in Int
  BY LenIsNat DEF IsState
<1>1. CASE size \in 1..4
  <2> DEFINE p == ReadBytes(s, size)
  <2>1. /\ MiscInfoRead(s, size).s = p.s
        /\ MiscInfoRead(s, size).val = IF p.ok /\ Get(p.cells[1], "n") = size THEN p.cells[1] ELSE NULL
    BY <1>1 DEF MiscInfoRead, First, Result
  <2>2. p.ok => p.cells[1] = CellAt(s.pos)
    <3>1. p.ok => p.cells = Block(s.pos, size)
      BY ReadBytesReads
    <3> QED
      BY <1>0, <1>1, <3>1 DEF Block
  <2>3. Moved(s, p.s) /\ (p.ok <=> ~s.bad /\ s.pos + size <= len)
    BY ReadBytesReads
  <2> HIDE DEF p
  <2> QED
    BY <1>0, <1>1, <2>1, <2>2, <2>3 DEF MiscInfoVal
<1>2. CASE size \notin 1..4
  <2>1. MiscInfoRead(s, size).s = s /\ MiscInfoRead(s, size).val = NULL
    BY <1>2 DEF MiscInfoRead, First, Result, NotRead
  <2> QED
    BY <1>2, <2>1, MovedSelf DEF MiscInfoVal
<1> QED
  BY <1>1, <1>2

\* The count that a list begins with, whether it fits the size of the stream,
\* and the items, which the stream ends with.
CountOf(at) == Get(CellAt(at), "n")

Listed(at, size) == size \in {CountOf(at) + 1, CountOf(at) + 2} /\ CountOf(at) <= MaxItems

ItemCells(at, size) == Block(at + size - CountOf(at), CountOf(at))

LEMMA CountedFields ==
    ASSUME NEW p, NEW n, NEW size, p.ok \in BOOLEAN
    PROVE  /\ Counted(p, n, size).s = p.s /\ Counted(p, n, size).n = n
           /\ Counted(p, n, size).ok \in BOOLEAN
           /\ Counted(p, n, size).ok <=> p.ok /\ size \in {n + 1, n + 2} /\ n <= MaxItems
<1>1. Counted(p, n, size).s = p.s /\ Counted(p, n, size).n = n
  BY DEF Counted
<1>2. Counted(p, n, size).ok = (p.ok /\ size \in {n + 1, n + 2} /\ n <= MaxItems)
  BY DEF Counted
<1> QED
  BY <1>1, <1>2

LEMMA CountReads ==
    ASSUME FileOK, NEW s, IsState(s), NEW size \in Nat
    PROVE  /\ Moved(s, CountRead(s, size).s)
           /\ CountRead(s, size).n \in Nat
           /\ CountRead(s, size).ok \in BOOLEAN
           /\ CountRead(s, size).ok =>
                 /\ ~s.bad /\ ~CountRead(s, size).s.bad
                 /\ Listed(s.pos, size)
                 /\ CountRead(s, size).n = CountOf(s.pos)
                 /\ CountRead(s, size).s.pos = s.pos + size - CountOf(s.pos)
           /\ ~s.bad /\ Listed(s.pos, size) /\ s.pos + size <= len => CountRead(s, size).ok
<1>0. s.pos \in Nat /\ len \in Nat /\ MaxItems \in Nat /\ CountOf(s.pos) \in Nat
  <2>1. Get(CellAt(s.pos), "n") \in Nat
    BY CellAtIsCell DEF IsState, Unsigned
  <2> QED
    BY <2>1, LenIsNat, MinidumpAssumption DEF IsState, CountOf
<1>1. CASE size = 0
  <2>1. CountRead(s, size) = Counted(NotRead(s), 0, size)
    BY <1>1 DEF CountRead, Padded, NotRead
  <2>2. CountRead(s, size).s = s /\ CountRead(s, size).n = 0 /\ ~CountRead(s, size).ok
        /\ CountRead(s, size).ok \in BOOLEAN
    <3>1. NotRead(s).s = s /\ ~NotRead(s).ok /\ NotRead(s).ok \in BOOLEAN
      BY DEF NotRead
    <3> QED
      BY <2>1, <3>1, CountedFields
  <2>3. ~Listed(s.pos, size)
    BY <1>0, <1>1 DEF Listed
  <2> QED
    BY <2>2, <2>3, MovedSelf
<1>2. CASE size >= 1
  <2> DEFINE p == ReadBytes(s, 1)
  <2>1. CountRead(s, size) = Padded(p, size)
    BY <1>2 DEF CountRead
  <2>2. /\ Moved(s, p.s) /\ (p.ok <=> ~s.bad /\ s.pos + 1 <= len) /\ (p.s.bad <=> ~p.ok)
        /\ p.ok \in BOOLEAN
        /\ p.ok => p.s.pos = s.pos + 1
    BY ReadBytesReads
  <2>3. p.ok => Get(p.cells[1], "n") = CountOf(s.pos)
    <3>1. p.ok => p.cells = Block(s.pos, 1)
      BY ReadBytesReads
    <3> QED
      BY <1>0, <3>1 DEF Block, CountOf
  <2> HIDE DEF p
  <2>4. CASE ~p.ok
    <3>1. CountRead(s, size) = Counted(p, 0, size)
      BY <2>1, <2>4 DEF Padded
    <3>2. CountRead(s, size).s = p.s /\ CountRead(s, size).n = 0 /\ ~CountRead(s, size).ok
          /\ CountRead(s, size).ok \in BOOLEAN
      BY <2>2, <2>4, <3>1, CountedFields
    <3>3. s.bad \/ ~(s.pos + size <= len)
      BY <1>0, <1>2, <2>2, <2>4
    <3> QED
      BY <2>2, <3>2, <3>3
  <2>5. CASE p.ok /\ size # CountOf(s.pos) + 2
    <3>1. CountRead(s, size) = Counted(p, CountOf(s.pos), size)
      BY <2>1, <2>3, <2>5 DEF Padded
    <3>2. /\ CountRead(s, size).s = p.s /\ CountRead(s, size).n = CountOf(s.pos)
          /\ CountRead(s, size).ok <=> p.ok /\ Listed(s.pos, size)
          /\ CountRead(s, size).ok \in BOOLEAN
      BY <2>2, <3>1, CountedFields DEF Listed
    <3>3. Listed(s.pos, size) => s.pos + 1 = s.pos + size - CountOf(s.pos)
      BY <1>0, <2>5 DEF Listed
    <3> QED
      BY <1>0, <2>2, <2>5, <3>2, <3>3
  <2>6. CASE p.ok /\ size = CountOf(s.pos) + 2
    <3> DEFINE q == ReadBytes(p.s, 1)
    <3>1. CountRead(s, size) = Counted(q, CountOf(s.pos), size)
      BY <2>1, <2>3, <2>6 DEF Padded
    <3>2. /\ Moved(p.s, q.s) /\ (q.ok <=> ~p.s.bad /\ p.s.pos + 1 <= len) /\ (q.s.bad <=> ~q.ok)
          /\ q.ok \in BOOLEAN
          /\ q.ok => q.s.pos = p.s.pos + 1
      BY <2>2, ReadBytesReads DEF Moved
    <3> HIDE DEF q
    <3>3. /\ CountRead(s, size).s = q.s /\ CountRead(s, size).n = CountOf(s.pos)
          /\ CountRead(s, size).ok <=> q.ok /\ Listed(s.pos, size)
          /\ CountRead(s, size).ok \in BOOLEAN
      BY <3>1, <3>2, CountedFields DEF Listed
    <3>4. Moved(s, q.s)
      BY <2>2, <3>2, MovedTwice
    <3>5. /\ p.s.pos + 1 = s.pos + size - CountOf(s.pos)
          /\ s.pos + size <= len => p.s.pos + 1 <= len
      BY <1>0, <2>2, <2>6
    <3> QED
      BY <1>0, <2>2, <2>6, <3>2, <3>3, <3>4, <3>5
  <2> QED
    BY <2>4, <2>5, <2>6
<1> QED
  BY <1>1, <1>2

\* The items of a list, of which some may be refused.
LEMMA ItemsReads ==
    ASSUME FileOK, NEW c, IsState(c.s), c.n \in Nat, c.ok \in BOOLEAN, c.ok => ~c.s.bad,
           NEW refused \in SUBSET (1..c.n)
    PROVE  /\ Moved(c.s, ItemsRead(c, refused).s)
           /\ ItemsRead(c, refused).val =
                 IF c.ok /\ refused = {} /\ c.s.pos + c.n <= len THEN Block(c.s.pos, c.n) ELSE NULL
           /\ ItemsRead(c, refused).val # NULL => ~ItemsRead(c, refused).s.bad
<1>0. c.s.pos \in Nat /\ len \in Int
  BY LenIsNat DEF IsState
<1>1. CASE ~c.ok
  BY <1>1, MovedSelf DEF ItemsRead, Result
<1>2. CASE c.ok /\ refused # {}
  <2>1. \E x \in refused : \A y \in refused : x <= y
    BY <1>2, LeastNumber
  <2>2. Min(refused) \in Nat
    <3>1. Min(refused) \in refused
      BY <2>1 DEF Min
    <3>2. \A x \in 1..c.n : x \in Nat
      OBVIOUS
    <3> QED
      BY <3>1, <3>2
  <2>3. ItemsRead(c, refused).s = ReadBytes(c.s, Min(refused)).s /\ ItemsRead(c, refused).val = NULL
    BY <1>2 DEF ItemsRead, Result
  <2> QED
    BY <1>2, <2>2, <2>3, ReadBytesReads
<1>3. CASE c.ok /\ refused = {}
  <2> DEFINE p == ReadBytes(c.s, c.n)
  <2>1. ItemsRead(c, refused).s = p.s /\ ItemsRead(c, refused).val = IF p.ok THEN p.cells ELSE NULL
    BY <1>3 DEF ItemsRead, Items, Result
  <2>2. Moved(c.s, p.s) /\ (p.ok <=> ~c.s.bad /\ c.s.pos + c.n <= len) /\ (p.ok => p.cells = Block(c.s.pos, c.n))
        /\ (p.s.bad <=> ~p.ok)
    BY ReadBytesReads
  <2> HIDE DEF p
  <2> QED
    BY <1>0, <1>3, <2>1, <2>2
<1> QED
  BY <1>1, <1>2, <1>3
ThreadListVal(at, size) ==
    IF /\ Listed(at, size) /\ at + size <= len
       /\ \A i \in 1..CountOf(at) : \A j \in 1..(i - 1) :
             Get(ItemCells(at, size)[i], "id") # Get(ItemCells(at, size)[j], "id")
    THEN ItemCells(at, size) ELSE NULL

RegionsOf(cells) == [items |-> cells, map |-> Spans(cells)]

MemoryListVal(at, size) ==
    IF /\ Listed(at, size) /\ at + size <= len
       /\ \A i \in 1..CountOf(at) : Proper(ItemCells(at, size)[i])
       /\ \A q, r \in Spans(ItemCells(at, size)) : q # r => Apart(q, r)
    THEN RegionsOf(ItemCells(at, size)) ELSE NULL

MemoryInfoListVal(at, size) ==
    IF /\ size = 1 + CountOf(at) /\ Get(CellAt(at), "sizes") = TRUE /\ at + size <= len
       /\ \A i \in 1..CountOf(at) :
             /\ Proper(ItemCells(at, size)[i])
             /\ \A j \in 1..(i - 1) : Apart(Span(ItemCells(at, size)[j], j), Span(ItemCells(at, size)[i], i))
       /\ ItemCells(at, size) # NULL
    THEN RegionsOf(ItemCells(at, size)) ELSE NULL

LinuxMapsVal(at, size) ==
    IF at + size <= len /\ \A i \in 1..size : Get(Block(at, size)[i], "k") = "map" THEN Block(at, size) ELSE NULL

LEMMA CountIsNat ==
    ASSUME FileOK, NEW at \in Nat
    PROVE  CountOf(at) \in Nat
BY CellAtIsCell DEF Unsigned, CountOf

\* What is ahead of the count are the items.
LEMMA ItemsAhead ==
    ASSUME FileOK, NEW s, NEW at \in Nat, NEW size \in Nat, s.pos = at + size - CountOf(at)
    PROVE  /\ CountOf(at) \in Nat
           /\ DOMAIN ItemCells(at, size) = 1..CountOf(at)
           /\ \A i \in 1..CountOf(at) : Ahead(s, i) = ItemCells(at, size)[i]
           /\ Block(s.pos, CountOf(at)) = ItemCells(at, size)
<1>1. CountOf(at) \in Nat
  BY CountIsNat
<1> QED
  BY <1>1 DEF ItemCells, Block, Ahead

LEMMA ThreadListReads ==
    ASSUME FileOK, NEW s, IsState(s), NEW size \in Nat
    PROVE  /\ Moved(s, ThreadListRead(s, size).s)
           /\ ~s.bad => ThreadListRead(s, size).val = ThreadListVal(s.pos, size)
           /\ ThreadListRead(s, size).val # NULL => ~ThreadListRead(s, size).s.bad
<1> DEFINE c == CountRead(s, size)
           at == s.pos
<1>0. at \in Nat /\ len \in Int
  BY LenIsNat DEF IsState
<1>1. /\ Moved(s, c.s) /\ c.n \in Nat /\ c.ok \in BOOLEAN
      /\ c.ok => ~s.bad /\ ~c.s.bad /\ Listed(at, size) /\ c.n = CountOf(at) /\ c.s.pos = at + size - CountOf(at)
      /\ ~s.bad /\ Listed(at, size) /\ at + size <= len => c.ok
  BY CountReads
<1>2. ThreadListRead(s, size) = ItemsRead(c, Duplicates(c))
  BY DEF ThreadListRead, ThreadsCounted
<1> HIDE DEF c
<1>3. Duplicates(c) \in SUBSET (1..c.n)
  BY DEF Duplicates
<1>4. /\ Moved(c.s, ItemsRead(c, Duplicates(c)).s)
      /\ ItemsRead(c, Duplicates(c)).val =
            IF c.ok /\ Duplicates(c) = {} /\ c.s.pos + c.n <= len THEN Block(c.s.pos, c.n) ELSE NULL
      /\ ItemsRead(c, Duplicates(c)).val # NULL => ~ItemsRead(c, Duplicates(c)).s.bad
  BY <1>1, <1>3, ItemsReads DEF Moved
<1>5. Moved(s, ThreadListRead(s, size).s)
  BY <1>1, <1>2, <1>4, MovedTwice
<1>6. CASE c.ok
  <2>1. /\ CountOf(at) \in Nat
        /\ \A i \in 1..CountOf(at) : Ahead(c.s, i) = ItemCells(at, size)[i]
        /\ Block(c.s.pos, c.n) = ItemCells(at, size)
    BY <1>0, <1>1, <1>6, ItemsAhead
  <2>2. Duplicates(c) = {} <=> \A i \in 1..CountOf(at) : \A j \in 1..(i - 1) :
                                  Get(ItemCells(at, size)[i], "id") # Get(ItemCells(at, size)[j], "id")
    <3>1. Duplicates(c) = {} <=> \A i \in 1..CountOf(at) : \A j \in 1..(i - 1) :
                                    Get(Ahead(c.s, i), "id") # Get(Ahead(c.s, j), "id")
      BY <1>1, <1>6, <2>1 DEF Duplicates
    <3>2. \A i \in 1..CountOf(at) : \A j \in 1..(i - 1) : j \in 1..CountOf(at)
      BY <2>1
    <3> QED
      BY <2>1, <3>1, <3>2
  <2>3. c.s.pos + c.n = at + size
    BY <1>0, <1>1, <1>6, <2>1
  <2> QED
    BY <1>1, <1>2, <1>4, <1>5, <1>6, <2>1, <2>2, <2>3 DEF ThreadListVal
<1>7. CASE ~c.ok
  BY <1>1, <1>2, <1>4, <1>5, <1>7 DEF ThreadListVal
<1> QED
  BY <1>6, <1>7
LEMMA MemoryListReads ==
    ASSUME FileOK, NEW s, IsState(s), NEW size \in Nat
    PROVE  /\ Moved(s, MemoryListRead(s, size).s)
           /\ ~s.bad => MemoryListRead(s, size).val = MemoryListVal(s.pos, size)
           /\ MemoryListRead(s, size).val # NULL => ~MemoryListRead(s, size).s.bad
<1> DEFINE c == CountRead(s, size)
           at == s.pos
           p == ReadBytes(c.s, c.n)
<1>0. at \in Nat /\ len \in Int
  BY LenIsNat DEF IsState
<1>1. /\ Moved(s, c.s) /\ c.n \in Nat /\ c.ok \in BOOLEAN
      /\ c.ok => ~s.bad /\ ~c.s.bad /\ Listed(at, size) /\ c.n = CountOf(at) /\ c.s.pos = at + size - CountOf(at)
      /\ ~s.bad /\ Listed(at, size) /\ at + size <= len => c.ok
  BY CountReads
<1>2. MemoryListRead(s, size) = Regions(IF c.ok THEN p ELSE NotRead(c.s))
  BY DEF MemoryListRead, RegionsCounted
<1>3. Moved(c.s, p.s) /\ (p.ok <=> ~c.s.bad /\ c.s.pos + c.n <= len) /\ (p.ok => p.cells = Block(c.s.pos, c.n))
      /\ (p.s.bad <=> ~p.ok)
  BY <1>1, ReadBytesReads DEF Moved
<1> HIDE DEF c, p
<1>4. CASE c.ok
  <2>1. /\ MemoryListRead(s, size).s = p.s
        /\ MemoryListRead(s, size).val =
              IF /\ p.ok /\ \A i \in DOMAIN p.cells : Proper(p.cells[i])
                 /\ \A q, r \in Spans(p.cells) : q # r => Apart(q, r)
              THEN RegionsOf(p.cells) ELSE NULL
    BY <1>2, <1>4 DEF Regions, Result, RegionsOf
  <2>2. /\ CountOf(at) \in Nat
        /\ DOMAIN ItemCells(at, size) = 1..CountOf(at)
        /\ Block(c.s.pos, c.n) = ItemCells(at, size)
    BY <1>0, <1>1, <1>4, ItemsAhead
  <2>3. c.s.pos + c.n = at + size
    BY <1>0, <1>1, <1>4, <2>2
  <2> QED
    BY <1>1, <1>3, <1>4, <2>1, <2>2, <2>3, MovedTwice DEF MemoryListVal
<1>5. CASE ~c.ok
  <2>1. MemoryListRead(s, size) = Regions(NotRead(c.s))
    BY <1>2, <1>5
  <2>2. MemoryListRead(s, size).s = c.s /\ MemoryListRead(s, size).val = NULL
    BY <2>1 DEF Regions, Result, NotRead
  <2> QED
    BY <1>1, <1>5, <2>2 DEF MemoryListVal
<1> QED
  BY <1>4, <1>5

LEMMA MemoryInfoListReads ==
    ASSUME FileOK, NEW s, IsState(s), NEW size \in Nat
    PROVE  /\ Moved(s, MemoryInfoListRead(s, size).s)
           /\ ~s.bad => MemoryInfoListRead(s, size).val = MemoryInfoListVal(s.pos, size)
<1> DEFINE at == s.pos
           p == IF size >= 1 THEN ReadBytes(s, 1) ELSE NotRead(s)
           c == InfoHeader(p, size)
           refused == IF c.ok THEN InfosRefused(c) ELSE {}
           r == ItemsRead(c, refused)
<1>0. at \in Nat /\ len \in Int /\ CountOf(at) \in Nat
  <2>1. at \in Nat
    BY DEF IsState
  <2> QED
    BY <2>1, CountIsNat, LenIsNat
<1>1. /\ MemoryInfoListRead(s, size).s = r.s
      /\ MemoryInfoListRead(s, size).val = IF r.val # NULL THEN RegionsOf(r.val) ELSE NULL
  BY DEF MemoryInfoListRead, InfosCounted, Infos, Result, RegionsOf
<1>2. /\ Moved(s, p.s) /\ (p.ok <=> ~s.bad /\ at + 1 <= len /\ size >= 1) /\ (p.s.bad => ~p.ok)
      /\ p.ok \in BOOLEAN
      /\ p.ok => p.s.pos = at + 1 /\ p.cells[1] = CellAt(at)
  <2>1. CASE size >= 1
    <3>1. p = ReadBytes(s, 1)
      BY <2>1
    <3>2. p.ok => p.cells = Block(at, 1)
      BY <3>1, ReadBytesReads
    <3>3. Block(at, 1)[1] = CellAt(at)
      BY <1>0 DEF Block
    <3> QED
      BY <2>1, <3>1, <3>2, <3>3, ReadBytesReads
  <2>2. CASE ~(size >= 1)
    <3>1. p.s = s /\ ~p.ok /\ p.ok \in BOOLEAN
      BY <2>2 DEF NotRead
    <3> HIDE DEF p
    <3> QED
      BY <2>2, <3>1, MovedSelf
  <2> QED
    BY <2>1, <2>2
<1> HIDE DEF p
<1>3. /\ c.s = p.s /\ c.n = IF p.ok THEN Get(p.cells[1], "n") ELSE 0
      /\ c.ok = (p.ok /\ Get(p.cells[1], "sizes") = TRUE /\ size = 1 + Get(p.cells[1], "n"))
  BY DEF InfoHeader
<1>4. /\ Moved(s, c.s) /\ c.n \in Nat /\ c.ok \in BOOLEAN /\ (c.ok => ~c.s.bad)
      /\ c.ok <=> ~s.bad /\ at + 1 <= len /\ Get(CellAt(at), "sizes") = TRUE /\ size = 1 + CountOf(at)
      /\ c.ok => c.n = CountOf(at) /\ c.s.pos = at + size - CountOf(at)
  <2>1. c.ok <=> p.ok /\ Get(CellAt(at), "sizes") = TRUE /\ size = 1 + CountOf(at)
    BY <1>2, <1>3 DEF CountOf
  <2>2. c.n \in Nat /\ (p.ok => c.n = CountOf(at))
    BY <1>0, <1>2, <1>3 DEF CountOf
  <2>3. c.ok \in BOOLEAN
    BY <1>3
  <2>4. size = 1 + CountOf(at) => size >= 1
    BY <1>0
  <2>5. size = 1 + CountOf(at) => at + 1 = at + size - CountOf(at)
    BY <1>0
  <2> HIDE DEF c
  <2> QED
    BY <1>2, <1>3, <2>1, <2>2, <2>3, <2>4, <2>5
<1> HIDE DEF c
<1>5. refused \in SUBSET (1..c.n)
  BY DEF InfosRefused
<1>6. /\ Moved(c.s, r.s)
      /\ r.val = IF c.ok /\ refused = {} /\ c.s.pos + c.n <= len THEN Block(c.s.pos, c.n) ELSE NULL
  BY <1>4, <1>5, ItemsReads DEF Moved
<1>7. Moved(s, MemoryInfoListRead(s, size).s)
  BY <1>1, <1>4, <1>6, MovedTwice
<1>8. CASE c.ok
  <2>1. /\ \A i \in 1..CountOf(at) : Ahead(c.s, i) = ItemCells(at, size)[i]
        /\ Block(c.s.pos, c.n) = ItemCells(at, size)
    BY <1>0, <1>4, <1>8, ItemsAhead
  <2>2. refused = {} <=> \A i \in 1..CountOf(at) :
           /\ Proper(ItemCells(at, size)[i])
           /\ \A j \in 1..(i - 1) : Apart(Span(ItemCells(at, size)[j], j), Span(ItemCells(at, size)[i], i))
    <3>1. refused = {} <=> \A i \in 1..CountOf(at) :
             /\ Proper(Ahead(c.s, i))
             /\ \A j \in 1..(i - 1) : Apart(Span(Ahead(c.s, j), j), Span(Ahead(c.s, i), i))
      BY <1>4, <1>8 DEF InfosRefused
    <3>2. \A i \in 1..CountOf(at) : \A j \in 1..(i - 1) : j \in 1..CountOf(at)
      BY <1>0
    <3> QED
      BY <2>1, <3>1, <3>2
  <2>3. c.s.pos + c.n = at + size
    BY <1>0, <1>4, <1>8
  <2> HIDE DEF refused, r
  <2> QED
    BY <1>1, <1>4, <1>6, <1>7, <1>8, <2>1, <2>2, <2>3 DEF MemoryInfoListVal
<1>9. CASE ~c.ok
  <2>1. ~s.bad => MemoryInfoListVal(at, size) = NULL
    BY <1>0, <1>4, <1>9 DEF MemoryInfoListVal
  <2> HIDE DEF refused, r
  <2> QED
    BY <1>1, <1>6, <1>7, <1>9, <2>1
<1> QED
  BY <1>8, <1>9

LEMMA LinuxMapsReads ==
    ASSUME FileOK, NEW s, IsState(s), NEW size \in Nat
    PROVE  /\ Moved(s, ParseProcMaps(ReadBytes(s, size)).s)
           /\ ~s.bad => ParseProcMaps(ReadBytes(s, size)).val = LinuxMapsVal(s.pos, size)
<1> DEFINE p == ReadBytes(s, size)
<1>1. Moved(s, p.s) /\ (p.ok <=> ~s.bad /\ s.pos + size <= len) /\ (p.ok => p.cells = Block(s.pos, size))
  BY ReadBytesReads
<1>2. /\ ParseProcMaps(p).s = p.s
      /\ ParseProcMaps(p).val = IF p.ok /\ \A i \in DOMAIN p.cells : Get(p.cells[i], "k") = "map"
                                THEN p.cells ELSE NULL
  BY DEF ParseProcMaps, Result
<1>3. DOMAIN Block(s.pos, size) = 1..size
  BY DEF Block
<1> HIDE DEF p
<1>4. Moved(s, ParseProcMaps(p).s) /\ (~s.bad => ParseProcMaps(p).val = LinuxMapsVal(s.pos, size))
  BY <1>1, <1>2, <1>3 DEF LinuxMapsVal
<1> QED
  BY <1>4 DEF p
---------------------------------------------------------------------------
(* Strings, records and memory.                                            *)

StringVal(o) ==
    IF /\ o + 1 <= len /\ Get(CellAt(o), "odd") # TRUE /\ Get(CellAt(o), "n") <= MaxBytes
       /\ o + 1 + Get(CellAt(o), "n") <= len
    THEN Get(CellAt(o), "text") ELSE NULL

MemoryVal(d) ==
    IF /\ FitsIn(Get(d, "start"), Get(d, "size")) /\ Get(d, "size") \in 1..MaxBytes
       /\ Get(d, "rva") + Get(d, "size") <= len
    THEN Block(Get(d, "rva"), Get(d, "size")) ELSE NULL

LEMMA StringReads ==
    ASSUME FileOK, NEW s, IsState(s), NEW o \in Nat
    PROVE  /\ Moved(s, ReadString(s, o).s)
           /\ ~s.bad => ReadString(s, o).val = StringVal(o)
           /\ s.bad => ReadString(s, o).val = NULL
           /\ ReadString(s, o).val # NULL => ~ReadString(s, o).s.bad
<1> DEFINE p == ReadBytes(SeekSet(s, o), 1)
           n == Get(CellAt(o), "n")
           q == ReadBytes(p.s, n)
<1>0. len \in Int /\ MaxBytes \in Nat /\ n \in Nat
  BY LenIsNat, MinidumpAssumption, CountIsNat DEF CountOf
<1>1. /\ Moved(s, SeekSet(s, o)) /\ SeekSet(s, o).bad = s.bad /\ (~s.bad => SeekSet(s, o).pos = o)
      /\ IsState(SeekSet(s, o))
  BY SeekSetMoves DEF Moved
<1>2. /\ Moved(SeekSet(s, o), p.s) /\ (p.ok <=> ~s.bad /\ o + 1 <= len)
      /\ p.s.bad <=> ~p.ok
      /\ p.ok => p.s.pos = o + 1 /\ p.cells[1] = CellAt(o)
  <2>1. p.ok => p.cells = Block(o, 1)
    BY <1>1, ReadBytesReads
  <2>2. Block(o, 1)[1] = CellAt(o)
    BY DEF Block
  <2> QED
    BY <1>1, <2>1, <2>2, ReadBytesReads
<1>3. Moved(s, p.s)
  BY <1>1, <1>2, MovedTwice
<1>4. ReadString(s, o) = Characters(p)
  BY DEF ReadString
<1> HIDE DEF p
<1>5. CASE p.ok /\ Get(CellAt(o), "odd") # TRUE /\ n <= MaxBytes
  <2>1. Moved(p.s, q.s) /\ (q.ok <=> ~p.s.bad /\ p.s.pos + n <= len) /\ (q.s.bad <=> ~q.ok)
    BY <1>0, <1>2, ReadBytesReads DEF Moved
  <2>2. ReadString(s, o) = Result(q.s, q.ok, Get(CellAt(o), "text"))
    BY <1>2, <1>4, <1>5 DEF Characters
  <2>3. ReadString(s, o).s = q.s /\ ReadString(s, o).val = IF q.ok THEN Get(CellAt(o), "text") ELSE NULL
    BY <2>2 DEF Result
  <2> HIDE DEF q
  <2> QED
    BY <1>2, <1>3, <1>5, <2>1, <2>3, MovedTwice DEF StringVal
<1>6. CASE ~(p.ok /\ Get(CellAt(o), "odd") # TRUE /\ n <= MaxBytes)
  <2>1. ReadString(s, o) = Result(p.s, FALSE, NULL)
    BY <1>2, <1>4, <1>6 DEF Characters
  <2>2. ReadString(s, o).s = p.s /\ ReadString(s, o).val = NULL
    BY <2>1 DEF Result
  <2> QED
    BY <1>2, <1>3, <1>6, <2>2 DEF StringVal
<1> QED
  BY <1>5, <1>6

LEMMA LocatedReads ==
    ASSUME FileOK, NEW s, IsState(s), NEW size \in Nat, NEW rva \in Nat
    PROVE  /\ Moved(s, LocatedRead(s, size, rva).s)
           /\ LocatedRead(s, size, rva).ok <=> ~s.bad /\ size \in 1..MaxBytes /\ rva + size <= len
           /\ LocatedRead(s, size, rva).ok => LocatedRead(s, size, rva).cells = Block(rva, size)
           /\ ~s.bad => (LocatedRead(s, size, rva).s.bad <=> size \in 1..MaxBytes /\ rva + size > len)
<1>0. MaxBytes \in Nat /\ len \in Int
  BY MinidumpAssumption, LenIsNat
<1>1. /\ Moved(s, SeekSet(s, rva)) /\ SeekSet(s, rva).bad = s.bad /\ (~s.bad => SeekSet(s, rva).pos = rva)
      /\ IsState(SeekSet(s, rva))
  BY SeekSetMoves DEF Moved
<1>2. \A v : NotRead(v).s = v /\ ~NotRead(v).ok
  BY DEF NotRead
<1>3. CASE size = 0
  <2>1. LocatedRead(s, size, rva) = NotRead(s)
    BY <1>3 DEF LocatedRead
  <2> QED
    BY <1>2, <1>3, <2>1, MovedSelf
<1>4. CASE size # 0 /\ (s.bad \/ size > MaxBytes)
  <2>1. LocatedRead(s, size, rva) = NotRead(SeekSet(s, rva))
    BY <1>4 DEF LocatedRead
  <2> QED
    BY <1>0, <1>1, <1>2, <1>4, <2>1
<1>5. CASE size # 0 /\ ~(s.bad \/ size > MaxBytes)
  <2> DEFINE p == ReadBytes(SeekSet(s, rva), size)
  <2>1. LocatedRead(s, size, rva) = p
    BY <1>5 DEF LocatedRead
  <2>2. /\ Moved(SeekSet(s, rva), p.s)
        /\ p.ok <=> ~s.bad /\ rva + size <= len
        /\ p.ok => p.cells = Block(rva, size)
        /\ p.s.bad <=> ~p.ok
    BY <1>1, <1>5, ReadBytesReads
  <2> HIDE DEF p
  <2> QED
    BY <1>0, <1>1, <1>5, <2>1, <2>2, MovedTwice
<1> QED
  BY <1>3, <1>4, <1>5

LEMMA MemoryReads ==
    ASSUME FileOK, NEW s, IsState(s), NEW d, IsCell(d)
    PROVE  /\ Moved(s, GetMemory(s, d).s)
           /\ ~s.bad => GetMemory(s, d).val = MemoryVal(d)
           /\ s.bad => GetMemory(s, d).val = NULL
<1>0. Get(d, "size") \in Nat /\ Get(d, "rva") \in Nat
  BY DEF IsCell, Unsigned
<1> DEFINE p == LocatedRead(s, Get(d, "size"), Get(d, "rva"))
<1>1. /\ Moved(s, p.s)
      /\ p.ok <=> ~s.bad /\ Get(d, "size") \in 1..MaxBytes /\ Get(d, "rva") + Get(d, "size") <= len
      /\ p.ok => p.cells = Block(Get(d, "rva"), Get(d, "size"))
  BY <1>0, LocatedReads
<1>2. CASE FitsIn(Get(d, "start"), Get(d, "size"))
  <2>1. GetMemory(s, d).s = p.s /\ GetMemory(s, d).val = IF p.ok THEN p.cells ELSE NULL
    BY <1>2 DEF GetMemory, Items, Result
  <2> HIDE DEF p
  <2> QED
    BY <1>1, <1>2, <2>1 DEF MemoryVal
<1>3. CASE ~FitsIn(Get(d, "start"), Get(d, "size"))
  <2>1. GetMemory(s, d).s = s /\ GetMemory(s, d).val = NULL
    BY <1>3 DEF GetMemory, Result
  <2> QED
    BY <1>3, <2>1, MovedSelf DEF MemoryVal
<1> QED
  BY <1>2, <1>3

\* A module's records: what is in the file, and whether it is cut off.
RecordVal(loc, f, v) ==
    IF loc.size \in 1..MaxBytes /\ loc.rva + loc.size <= len /\ Get(CellAt(loc.rva), f) = v
    THEN CellAt(loc.rva) ELSE NULL

Outside(loc) == loc.size \in 1..MaxBytes /\ loc.rva + loc.size > len

LEMMA RecordReads ==
    ASSUME FileOK, NEW s, IsState(s), NEW loc, loc.size \in Nat, loc.rva \in Nat, NEW f, NEW v
    PROVE  /\ Moved(s, First(RecordRead(s, loc), f, v).s)
           /\ First(RecordRead(s, loc), f, v).val \in {NULL, CellAt(loc.rva)}
           /\ s.bad => First(RecordRead(s, loc), f, v).val = NULL
           /\ ~s.bad => /\ First(RecordRead(s, loc), f, v).val = RecordVal(loc, f, v)
                        /\ First(RecordRead(s, loc), f, v).s.bad <=> Outside(loc)
<1> DEFINE p == LocatedRead(s, loc.size, loc.rva)
<1>1. /\ Moved(s, p.s)
      /\ p.ok <=> ~s.bad /\ loc.size \in 1..MaxBytes /\ loc.rva + loc.size <= len
      /\ p.ok => p.cells = Block(loc.rva, loc.size)
      /\ ~s.bad => (p.s.bad <=> Outside(loc))
  BY LocatedReads DEF Outside
<1>2. p.ok => p.cells[1] = CellAt(loc.rva)
  <2>1. loc.size \in 1..MaxBytes => Block(loc.rva, loc.size)[1] = CellAt(loc.rva)
    BY MinidumpAssumption DEF Block
  <2> HIDE DEF p
  <2> QED
    BY <1>1, <2>1
<1>3. RecordRead(s, loc) = p
  BY DEF RecordRead
<1> HIDE DEF p
<1>4. /\ First(RecordRead(s, loc), f, v).s = p.s
      /\ First(RecordRead(s, loc), f, v).val = IF p.ok /\ Get(p.cells[1], f) = v THEN p.cells[1] ELSE NULL
  BY <1>3 DEF First, Result
<1> QED
  BY <1>1, <1>2, <1>4 DEF RecordVal
---------------------------------------------------------------------------
(* Streams as they are asked for.                                          *)

DirectoryOK ==
    /\ valid \in BOOLEAN
    /\ \A t \in DOMAIN directory : IsCell(directory[t])

Place(t) == Get(directory[t], "rva")

InDirectory(t) == valid /\ t \in DOMAIN directory

\* Lists of modules are not among them: their records may come later.
Plain == StreamTypes \ {"ModuleList"}

\* What a stream of the directory is.
StreamVal(t) ==
    IF ~InDirectory(t) THEN NULL
    ELSE CASE t \in {"SystemInfo", "Exception", "Assertion", "BreakpadInfo"} -> FixedVal(Place(t), SizeOf(t))
           [] t = "MiscInfo"       -> MiscInfoVal(Place(t), SizeOf(t))
           [] t = "ThreadList"     -> ThreadListVal(Place(t), SizeOf(t))
           [] t = "MemoryList"     -> MemoryListVal(Place(t), SizeOf(t))
           [] t = "MemoryInfoList" -> MemoryInfoListVal(Place(t), SizeOf(t))
           [] t = "LinuxMaps"      -> LinuxMapsVal(Place(t), SizeOf(t))
           [] OTHER -> NULL

\* v is what s has become by asking for streams and parts: streams that were
\* not kept may be kept now.
Grown(s, v) ==
    /\ IsState(v)
    /\ s.bad => v = s
    /\ \A t \in StreamTypes : \/ v.streams[t] = s.streams[t]
                              \/ t \in Plain /\ s.streams[t] = NULL /\ v.streams[t] = StreamVal(t)

\* The streams that s has kept are those of the file.
Serves(s) == \A t \in Plain : s.streams[t] \in {NULL, StreamVal(t)}

LEMMA GrownTwice ==
    ASSUME NEW s, NEW v, NEW w, Grown(s, v), Grown(v, w)
    PROVE  Grown(s, w)
BY DEF Grown

LEMMA MovedGrows ==
    ASSUME NEW s, NEW v, Moved(s, v)
    PROVE  Grown(s, v)
BY DEF Grown, Moved

LEMMA GrownServes ==
    ASSUME NEW s, NEW v, Serves(s), Grown(s, v)
    PROVE  Serves(v)
<1>1. Plain \subseteq StreamTypes
  BY DEF Plain
<1> QED
  BY <1>1 DEF Grown, Serves

LEMMA DirectoryNumbers ==
    ASSUME DirectoryOK, NEW t \in DOMAIN directory
    PROVE  Place(t) \in Nat /\ SizeOf(t) \in Nat
BY DEF DirectoryOK, IsCell, Unsigned, Place, SizeOf

LEMMA SeekToStreamMoves ==
    ASSUME DirectoryOK, NEW t \in DOMAIN directory, NEW s, IsState(s)
    PROVE  /\ Moved(s, SeekToStreamType(s, t))
           /\ SeekToStreamType(s, t).bad = s.bad
           /\ ~s.bad => SeekToStreamType(s, t).pos = Place(t)
           /\ IsState(SeekToStreamType(s, t))
<1>1. SeekToStreamType(s, t) = SeekSet(s, Place(t))
  BY DEF SeekToStreamType, Place
<1> QED
  BY <1>1, DirectoryNumbers, SeekSetMoves DEF Moved

\* Whatever has been read before, a stream is read as it is in the file.
LEMMA StreamReads ==
    ASSUME FileOK, DirectoryOK, NEW t \in Plain, InDirectory(t), NEW s, IsState(s)
    PROVE  LET r == StreamRead(SeekToStreamType(s, t), t, SizeOf(t))
           IN  /\ Moved(s, r.s)
               /\ ~s.bad => r.val = StreamVal(t)
               /\ ~s.bad /\ r.val # NULL /\ t \in {"SystemInfo", "Exception", "ThreadList", "MemoryList"} => ~r.s.bad
<1> DEFINE u == SeekToStreamType(s, t)
           r == StreamRead(u, t, SizeOf(t))
<1>0. t \in DOMAIN directory /\ SizeOf(t) \in Nat /\ Place(t) \in Nat
  BY DirectoryNumbers DEF InDirectory
<1>1. Moved(s, u) /\ u.bad = s.bad /\ (~s.bad => u.pos = Place(t)) /\ IsState(u)
  BY <1>0, SeekToStreamMoves
<1> HIDE DEF u
<1>2. CASE t \in {"SystemInfo", "Exception", "Assertion", "BreakpadInfo"}
  <2>1. r = FixedRead(u, SizeOf(t))
    BY <1>2 DEF StreamRead, SystemInfoRead, ExceptionRead, AssertionRead, BreakpadInfoRead
  <2>2. /\ Moved(u, r.s)
        /\ ~u.bad => r.val = FixedVal(u.pos, SizeOf(t))
        /\ ~u.bad => (r.s.bad <=> SizeOf(t) = 1 /\ u.pos + 1 > len)
    BY <1>0, <1>1, <2>1, FixedReads
  <2>3. StreamVal(t) = FixedVal(Place(t), SizeOf(t))
    BY <1>2 DEF StreamVal
  <2>4. FixedVal(Place(t), SizeOf(t)) # NULL => ~(SizeOf(t) = 1 /\ Place(t) + 1 > len)
    BY <1>0, LenIsNat DEF FixedVal
  <2> HIDE DEF r
  <2>5. Moved(s, r.s)
    BY <1>1, <2>2, MovedTwice
  <2> QED
    BY <1>1, <2>2, <2>3, <2>4, <2>5 DEF r, u
<1>3. CASE t = "MiscInfo"
  <2>1. r = MiscInfoRead(u, SizeOf(t))
    BY <1>3 DEF StreamRead
  <2>2. StreamVal(t) = MiscInfoVal(Place(t), SizeOf(t))
    BY <1>3 DEF StreamVal
  <2>3. Moved(u, r.s) /\ (~u.bad => r.val = MiscInfoVal(u.pos, SizeOf(t)))
    BY <1>0, <1>1, <2>1, MiscInfoReads
  <2> HIDE DEF r
  <2> QED
    BY <1>1, <1>3, <2>2, <2>3, MovedTwice DEF r, u
<1>4. CASE t = "ThreadList"
  <2>1. r = ThreadListRead(u, SizeOf(t))
    BY <1>4 DEF StreamRead
  <2>2. StreamVal(t) = ThreadListVal(Place(t), SizeOf(t))
    BY <1>4 DEF StreamVal
  <2>3. Moved(u, r.s) /\ (~u.bad => r.val = ThreadListVal(u.pos, SizeOf(t))) /\ (r.val # NULL => ~r.s.bad)
    BY <1>0, <1>1, <2>1, ThreadListReads
  <2> HIDE DEF r
  <2> QED
    BY <1>1, <1>4, <2>2, <2>3, MovedTwice DEF r, u
<1>5. CASE t = "MemoryList"
  <2>1. r = MemoryListRead(u, SizeOf(t))
    BY <1>5 DEF StreamRead
  <2>2. StreamVal(t) = MemoryListVal(Place(t), SizeOf(t))
    BY <1>5 DEF StreamVal
  <2>3. Moved(u, r.s) /\ (~u.bad => r.val = MemoryListVal(u.pos, SizeOf(t))) /\ (r.val # NULL => ~r.s.bad)
    BY <1>0, <1>1, <2>1, MemoryListReads
  <2> HIDE DEF r
  <2> QED
    BY <1>1, <1>5, <2>2, <2>3, MovedTwice DEF r, u
<1>6. CASE t = "MemoryInfoList"
  <2>1. r = MemoryInfoListRead(u, SizeOf(t))
    BY <1>6 DEF StreamRead
  <2>2. StreamVal(t) = MemoryInfoListVal(Place(t), SizeOf(t))
    BY <1>6 DEF StreamVal
  <2>3. Moved(u, r.s) /\ (~u.bad => r.val = MemoryInfoListVal(u.pos, SizeOf(t)))
    BY <1>0, <1>1, <2>1, MemoryInfoListReads
  <2> HIDE DEF r
  <2> QED
    BY <1>1, <1>6, <2>2, <2>3, MovedTwice DEF r, u
<1>7. CASE t = "LinuxMaps"
  <2> DEFINE w == SeekToStreamType(u, t)
  <2>1. r = ParseProcMaps(ReadBytes(w, SizeOf(t)))
    BY <1>7 DEF StreamRead, LinuxMapsListRead
  <2>2. StreamVal(t) = LinuxMapsVal(Place(t), SizeOf(t))
    BY <1>7 DEF StreamVal
  <2>3. Moved(u, w) /\ w.bad = u.bad /\ (~u.bad => w.pos = Place(t)) /\ IsState(w)
    BY <1>0, <1>1, SeekToStreamMoves
  <2> HIDE DEF w
  <2>4. Moved(w, r.s) /\ (~w.bad => r.val = LinuxMapsVal(w.pos, SizeOf(t)))
    BY <1>0, <2>1, <2>3, LinuxMapsReads
  <2> HIDE DEF r
  <2>5. Moved(s, r.s)
    BY <1>1, <2>3, <2>4, MovedTwice
  <2> QED
    BY <1>1, <1>7, <2>2, <2>3, <2>4, <2>5 DEF r, u
<1> QED
  BY <1>2, <1>3, <1>4, <1>5, <1>6, <1>7 DEF Plain, StreamTypes, SingleStreams
LEMMA StreamSet ==
    ASSUME NEW v, IsState(v), NEW t \in StreamTypes, NEW x
    PROVE  LET w == [v EXCEPT !.streams[t] = x]
           IN  /\ IsState(w) /\ w.bad = v.bad
               /\ w.streams[t] = x
               /\ \A u \in StreamTypes \ {t} : w.streams[u] = v.streams[u]
<1> DEFINE w == [v EXCEPT !.streams[t] = x]
           q == [v.streams EXCEPT ![t] = x]
<1>1. w = [v EXCEPT !.streams = q]
  OBVIOUS
<1>2. w = [pos |-> v.pos, bad |-> v.bad, streams |-> q]
  <2>1. \A y : [v EXCEPT !.streams = y] = [pos |-> v.pos, bad |-> v.bad, streams |-> y]
    BY StateFields DEF IsState
  <2> QED
    BY <1>1, <2>1
<1>3. DOMAIN v.streams = StreamTypes
  BY DEF IsState
<1>4. /\ q = [u \in StreamTypes |-> q[u]]
      /\ q[t] = x /\ \A u \in StreamTypes \ {t} : q[u] = v.streams[u]
  BY <1>3
<1> HIDE DEF w, q
<1>5. w.pos = v.pos /\ w.bad = v.bad /\ w.streams = q
  BY <1>2
<1> QED
  BY <1>2, <1>4, <1>5 DEF IsState, w

\* What asking for a stream gives: the one that was kept, or the one of the
\* file; and what is given is kept.
LEMMA StreamOrGives ==
    ASSUME NEW t \in Plain, NEW s, IsState(s), Serves(s),
           NEW r, InDirectory(t) => Moved(s, r.s) /\ (~s.bad => r.val = StreamVal(t))
    PROVE  LET g == StreamOr(s, t, r)
           IN  /\ Grown(s, g.s)
               /\ g.val = g.s.streams[t]
               /\ g.val \in {NULL, StreamVal(t)}
               /\ ~s.bad => g.val = StreamVal(t)
               /\ g.s.bad <=> s.bad \/ (InDirectory(t) /\ s.streams[t] = NULL /\ r.s.bad)
               /\ \A u \in StreamTypes \ {t} : g.s.streams[u] = s.streams[u]
<1> DEFINE g == StreamOr(s, t, r)
<1>0. t \in StreamTypes /\ s.streams[t] \in {NULL, StreamVal(t)}
  BY DEF Plain, Serves
<1>1. CASE ~InDirectory(t)
  <2>1. g.s = s /\ g.val = NULL
    BY <1>1 DEF StreamOr, Result, InDirectory
  <2>2. StreamVal(t) = NULL
    BY <1>1 DEF StreamVal
  <2>3. Grown(s, s)
    BY DEF Grown
  <2> HIDE DEF g
  <2> QED
    BY <1>0, <1>1, <2>1, <2>2, <2>3 DEF g
<1>2. CASE InDirectory(t) /\ s.streams[t] # NULL
  <2>1. g.s = s /\ g.val = s.streams[t]
    BY <1>2 DEF StreamOr, Result, InDirectory
  <2>2. Grown(s, s)
    BY DEF Grown
  <2> HIDE DEF g
  <2> QED
    BY <1>0, <1>2, <2>1, <2>2 DEF g
<1>3. CASE InDirectory(t) /\ s.streams[t] = NULL /\ s.bad
  <2>1. g.s = s /\ g.val = NULL
    BY <1>3 DEF StreamOr, Result, InDirectory
  <2>2. Grown(s, s)
    BY DEF Grown
  <2> HIDE DEF g
  <2> QED
    BY <1>0, <1>3, <2>1, <2>2 DEF g
<1>4. CASE InDirectory(t) /\ s.streams[t] = NULL /\ ~s.bad
  <2>1. g = Kept(r, t)
    BY <1>4 DEF StreamOr, InDirectory
  <2>2. Moved(s, r.s) /\ r.val = StreamVal(t) /\ IsState(r.s) /\ r.s.streams = s.streams
    BY <1>4 DEF Moved
  <2>3. CASE r.val = NULL
    <3>1. g = r
      BY <2>1, <2>3 DEF Kept
    <3> HIDE DEF g
    <3> QED
      BY <1>0, <1>4, <2>2, <2>3, <3>1, MovedGrows DEF g
  <2>4. CASE r.val # NULL
    <3> DEFINE w == [r.s EXCEPT !.streams[t] = r.val]
    <3>1. g.s = w /\ g.val = r.val
      BY <2>1, <2>4 DEF Kept, Result
    <3>2. /\ IsState(w) /\ w.bad = r.s.bad
          /\ w.streams[t] = r.val
          /\ \A u \in StreamTypes \ {t} : w.streams[u] = r.s.streams[u]
      BY <1>0, <2>2, StreamSet
    <3> HIDE DEF w
    <3>3. Grown(s, w)
      BY <1>4, <2>2, <3>2 DEF Grown
    <3> HIDE DEF g
    <3> QED
      BY <1>0, <1>4, <2>2, <2>4, <3>1, <3>2, <3>3 DEF g
  <2> QED
    BY <2>3, <2>4
<1> QED
  BY <1>1, <1>2, <1>3, <1>4

LEMMA StreamGiven ==
    ASSUME FileOK, DirectoryOK, NEW t \in Plain, NEW s, IsState(s), Serves(s)
    PROVE  /\ Grown(s, GetStream(s, t).s)
           /\ GetStream(s, t).val = GetStream(s, t).s.streams[t]
           /\ GetStream(s, t).val \in {NULL, StreamVal(t)}
           /\ ~s.bad => GetStream(s, t).val = StreamVal(t)
           /\ t \in {"SystemInfo", "Exception", "ThreadList", "MemoryList"} /\ ~s.bad /\ GetStream(s, t).val # NULL
                 => ~GetStream(s, t).s.bad
<1> DEFINE r == StreamRead(SeekToStreamType(s, t), t, SizeOf(t))
<1>1. InDirectory(t) => /\ Moved(s, r.s) /\ (~s.bad => r.val = StreamVal(t))
                        /\ ~s.bad /\ r.val # NULL /\ t \in {"SystemInfo", "Exception", "ThreadList", "MemoryList"} => ~r.s.bad
  BY StreamReads
<1>2. GetStream(s, t) = StreamOr(s, t, r)
  BY DEF GetStream
<1> HIDE DEF r
<1>3. LET g == StreamOr(s, t, r)
      IN  /\ Grown(s, g.s)
          /\ g.val = g.s.streams[t]
          /\ g.val \in {NULL, StreamVal(t)}
          /\ ~s.bad => g.val = StreamVal(t)
          /\ g.s.bad <=> s.bad \/ (InDirectory(t) /\ s.streams[t] = NULL /\ r.s.bad)
  BY <1>1, StreamOrGives
<1> QED
  BY <1>1, <1>2, <1>3

\* Streams of one fixed size, and what becomes of a state that asks for one.
FixedStreams == {"SystemInfo", "Exception", "Assertion", "BreakpadInfo"}

Breaks(t) == InDirectory(t) /\ SizeOf(t) = 1 /\ Place(t) + 1 > len

LEMMA FixedGiven ==
    ASSUME FileOK, DirectoryOK, NEW t \in FixedStreams, NEW s, IsState(s), Serves(s)
    PROVE  /\ Grown(s, GetFixed(s, t).s)
           /\ GetFixed(s, t).val = GetFixed(s, t).s.streams[t]
           /\ GetFixed(s, t).val \in {NULL, StreamVal(t)}
           /\ ~s.bad => GetFixed(s, t).val = StreamVal(t)
           /\ ~s.bad => (GetFixed(s, t).s.bad <=> Breaks(t))
<1> DEFINE u == SeekToStreamType(s, t)
           r == FixedRead(u, SizeOf(t))
<1>0. t \in Plain
  BY DEF FixedStreams, Plain, StreamTypes, SingleStreams
<1>1. InDirectory(t) => /\ StreamVal(t) = FixedVal(Place(t), SizeOf(t))
                        /\ Place(t) \in Nat /\ SizeOf(t) \in Nat
  <2>1. InDirectory(t) => Place(t) \in Nat /\ SizeOf(t) \in Nat
    BY DirectoryNumbers DEF InDirectory
  <2>2. InDirectory(t) => StreamVal(t) = FixedVal(Place(t), SizeOf(t))
    BY DEF StreamVal, FixedStreams
  <2> QED
    BY <2>1, <2>2
<1>2. InDirectory(t) => /\ Moved(s, r.s) /\ (~s.bad => r.val = StreamVal(t))
                        /\ ~s.bad => (r.s.bad <=> SizeOf(t) = 1 /\ Place(t) + 1 > len)
  <2> SUFFICES ASSUME InDirectory(t)
               PROVE  /\ Moved(s, r.s) /\ (~s.bad => r.val = StreamVal(t))
                      /\ ~s.bad => (r.s.bad <=> SizeOf(t) = 1 /\ Place(t) + 1 > len)
    OBVIOUS
  <2>1. Moved(s, u) /\ u.bad = s.bad /\ (~s.bad => u.pos = Place(t)) /\ IsState(u)
    BY SeekToStreamMoves DEF InDirectory
  <2> HIDE DEF u
  <2>2. /\ Moved(u, r.s)
        /\ ~u.bad => r.val = FixedVal(u.pos, SizeOf(t))
        /\ ~u.bad => (r.s.bad <=> SizeOf(t) = 1 /\ u.pos + 1 > len)
    BY <1>1, <2>1, FixedReads
  <2> HIDE DEF r
  <2> QED
    BY <1>1, <2>1, <2>2, MovedTwice
<1>3. GetFixed(s, t) = StreamOr(s, t, r)
  BY DEF GetFixed
<1>4. s.streams[t] \in {NULL, StreamVal(t)}
  BY <1>0 DEF Serves
<1>5. Breaks(t) => StreamVal(t) = NULL
  <2>1. Breaks(t) => ~(Place(t) + 1 <= len)
    BY <1>1, LenIsNat DEF Breaks
  <2> QED
    BY <1>1, <2>1 DEF Breaks, FixedVal
<1> HIDE DEF r
<1>6. LET g == StreamOr(s, t, r)
      IN  /\ Grown(s, g.s)
          /\ g.val = g.s.streams[t]
          /\ g.val \in {NULL, StreamVal(t)}
          /\ ~s.bad => g.val = StreamVal(t)
          /\ g.s.bad <=> s.bad \/ (InDirectory(t) /\ s.streams[t] = NULL /\ r.s.bad)
  BY <1>0, <1>2, StreamOrGives
<1> QED
  BY <1>2, <1>3, <1>4, <1>5, <1>6 DEF Breaks
---------------------------------------------------------------------------
(* Contexts, which may ask for the system info on their way.               *)

InfoVal == StreamVal("SystemInfo")

SizedBy(size) == {c \in Sized : ContextSize[c] = size}

CPUVal(named) ==
    IF named # "none" THEN named ELSE IF InfoVal = NULL THEN "none" ELSE CPUFlags(Get(InfoVal, "arch"))

NamedVal(rva, size) == FlagsCPU(CellAt(rva), SizedBy(size))

RegistersVal(rva, size) == [i \in 2..size |-> CellAt(rva + i - 1)]

\* What a context at a place is, as the file and its system info have it.
ContextVal(rva, size) ==
    LET named == NamedVal(rva, size)
        cpu   == CPUVal(named)
    IN  IF /\ rva + 1 <= len /\ rva + size <= len
           /\ ~(named = "none" /\ Breaks("SystemInfo"))
           /\ Fits(cpu, size, SizedBy(size))
           /\ InfoVal = NULL \/ Agrees(cpu, Get(InfoVal, "arch"))
        THEN [cpu |-> ContextFlags(named, cpu, SizedBy(size)), read_as |-> cpu, regs |-> RegistersVal(rva, size)]
        ELSE NULL

LEMMA InfoGiven ==
    ASSUME FileOK, DirectoryOK, NEW s, IsState(s), Serves(s)
    PROVE  /\ Grown(s, GetFixed(s, "SystemInfo").s)
           /\ ~s.bad => GetFixed(s, "SystemInfo").val = InfoVal
           /\ ~s.bad => (GetFixed(s, "SystemInfo").s.bad <=> Breaks("SystemInfo"))
<1>1. "SystemInfo" \in FixedStreams
  BY DEF FixedStreams
<1> QED
  BY <1>1, FixedGiven DEF InfoVal

LEMMA NamedCPUGiven ==
    ASSUME FileOK, DirectoryOK, NEW s, IsState(s), Serves(s), ~s.bad, NEW named
    PROVE  LET g == NamedCPU(s, named)
           IN  /\ Grown(s, g.s)
               /\ g.ok <=> ~(named = "none" /\ Breaks("SystemInfo"))
               /\ g.cpu = CPUVal(named)
               /\ g.ok => ~g.s.bad /\ g.s.pos = s.pos
<1> DEFINE g == NamedCPU(s, named)
<1>1. CASE named # "none"
  <2>1. g.s = s /\ g.ok = TRUE /\ g.cpu = named
    BY <1>1 DEF NamedCPU
  <2>2. Grown(s, s)
    BY DEF Grown
  <2>3. CPUVal(named) = named
    BY <1>1 DEF CPUVal
  <2> HIDE DEF g
  <2> QED
    BY <1>1, <2>1, <2>2, <2>3 DEF g
<1>2. CASE named = "none"
  <2> DEFINE i == GetFixed(s, "SystemInfo")
             w == SeekSet(i.s, s.pos)
  <2>1. g = OfSystem(w, i.val)
    BY <1>2 DEF NamedCPU, GetContextCPUFlags, Returns
  <2>2. g.s = w /\ g.ok = ~w.bad /\ g.cpu = IF i.val = NULL THEN "none" ELSE CPUFlags(Get(i.val, "arch"))
    BY <2>1 DEF OfSystem
  <2>3. Grown(s, i.s) /\ i.val = InfoVal /\ (i.s.bad <=> Breaks("SystemInfo"))
    BY InfoGiven
  <2> HIDE DEF i
  <2>4. Moved(i.s, w) /\ w.bad = i.s.bad /\ (~i.s.bad => w.pos = s.pos)
    BY <2>3, SeekSetMoves DEF Grown, IsState
  <2>5. Grown(s, w)
    BY <2>3, <2>4, MovedGrows, GrownTwice
  <2>6. CPUVal(named) = g.cpu
    BY <1>2, <2>2, <2>3 DEF CPUVal
  <2> HIDE DEF g, w
  <2>7. g.ok <=> ~w.bad
    BY <2>2
  <2> QED
    BY <1>2, <2>2, <2>3, <2>4, <2>5, <2>6, <2>7 DEF g
<1> QED
  BY <1>1, <1>2

LEMMA CheckGiven ==
    ASSUME FileOK, DirectoryOK, NEW s, IsState(s), Serves(s), ~s.bad, NEW cpu
    PROVE  /\ Grown(s, CheckAgainstSystemInfo(s, cpu).s)
           /\ CheckAgainstSystemInfo(s, cpu).ok <=> InfoVal = NULL \/ Agrees(cpu, Get(InfoVal, "arch"))
<1> DEFINE i == GetFixed(s, "SystemInfo")
<1>1. Grown(s, i.s) /\ i.val = InfoVal
  BY InfoGiven
<1>2. /\ CheckAgainstSystemInfo(s, cpu).s = i.s
      /\ CheckAgainstSystemInfo(s, cpu).ok = (i.val = NULL \/ Agrees(cpu, Get(i.val, "arch")))
  BY DEF CheckAgainstSystemInfo, Checked
<1> HIDE DEF i
<1> QED
  BY <1>1, <1>2

\* The last two steps: registers and the check.
LEMMA RegistersGiven ==
    ASSUME FileOK, DirectoryOK, NEW p, IsState(p.s), Serves(p.s), p.ok => ~p.s.bad,
           NEW cpu, NEW named, NEW sized
    PROVE  LET g == ContextRegisters(p, cpu, named, sized)
           IN  /\ Grown(p.s, g.s)
               /\ g.val = IF p.ok /\ (InfoVal = NULL \/ Agrees(cpu, Get(InfoVal, "arch")))
                          THEN [cpu |-> ContextFlags(named, cpu, sized), read_as |-> cpu,
                                regs |-> [i \in 2..(Len(p.cells) + 1) |-> p.cells[i - 1]]]
                          ELSE NULL
<1> DEFINE g == ContextRegisters(p, cpu, named, sized)
           c == CheckAgainstSystemInfo(p.s, cpu)
           context == [cpu |-> ContextFlags(named, cpu, sized), read_as |-> cpu,
                       regs |-> [i \in 2..(Len(p.cells) + 1) |-> p.cells[i - 1]]]
<1>1. CASE ~p.ok
  <2>1. g.s = p.s /\ g.val = NULL
    BY <1>1 DEF ContextRegisters, Result
  <2>2. Grown(p.s, p.s)
    BY DEF Grown
  <2> HIDE DEF g
  <2> QED
    BY <1>1, <2>1, <2>2 DEF g
<1>2. CASE p.ok
  <2>1. g = Finished(c, context)
    BY <1>2 DEF ContextRegisters
  <2> HIDE DEF context
  <2>2. g.s = c.s /\ g.val = IF c.ok THEN context ELSE NULL
    BY <2>1 DEF Finished, Result
  <2>3. Grown(p.s, c.s) /\ (c.ok <=> InfoVal = NULL \/ Agrees(cpu, Get(InfoVal, "arch")))
    BY <1>2, CheckGiven
  <2> HIDE DEF c, g
  <2>4. /\ Grown(p.s, g.s)
        /\ g.val = IF p.ok /\ (InfoVal = NULL \/ Agrees(cpu, Get(InfoVal, "arch"))) THEN context ELSE NULL
    BY <1>2, <2>2, <2>3
  <2> QED
    BY <2>4 DEF g, context
<1> QED
  BY <1>1, <1>2
LEMMA SizedByCases ==
    ASSUME NEW size \in Nat
    PROVE  /\ SizedBy(size) = {"amd64"} <=> size = 6
           /\ \A cpu : Fits(cpu, size, SizedBy(size)) => size >= 2
<1>1. ContextSize["amd64"] = 6 /\ ContextSize["ppc64"] = 7 /\ ContextSize["arm64"] = 8
  BY DEF ContextSize
<1>2. SizedBy(size) = {"amd64"} <=> size = 6
  <2>1. CASE size = 6
    BY <1>1, <2>1 DEF SizedBy, Sized
  <2>2. CASE size # 6
    <3>1. "amd64" \notin SizedBy(size)
      BY <1>1, <2>2 DEF SizedBy
    <3> QED
      BY <2>2, <3>1
  <2> QED
    BY <2>1, <2>2
<1>3. \A c \in DOMAIN ContextSize : ContextSize[c] >= 2
  BY DEF ContextSize
<1>4. \A c \in SizedBy(size) : size >= 2
  BY <1>1 DEF SizedBy, Sized
<1>5. \A cpu : Fits(cpu, size, SizedBy(size)) => size >= 2
  BY <1>3, <1>4 DEF Fits
<1> QED
  BY <1>2, <1>5

LEMMA RegistersOf ==
    ASSUME NEW rva \in Nat, NEW size \in Nat, size >= 2, NEW cells,
           \/ cells = Block(rva + 1, size - 1)
           \/ cells = Tail(Block(rva, size))
    PROVE  [i \in 2..(Len(cells) + 1) |-> cells[i - 1]] = RegistersVal(rva, size)
<1>1. Len(Block(rva + 1, size - 1)) = size - 1 /\ \A i \in 1..(size - 1) : Block(rva + 1, size - 1)[i] = CellAt(rva + i)
  BY DEF Block
<1>2. /\ Len(Tail(Block(rva, size))) = size - 1
      /\ \A i \in 1..(size - 1) : Tail(Block(rva, size))[i] = CellAt(rva + i)
  <2>1. Block(rva, size) = [i \in 1..size |-> CellAt(rva + i - 1)]
    BY DEF Block
  <2>2. Len(Block(rva, size)) = size
    BY <2>1
  <2>3. Block(rva, size) \in Seq({CellAt(rva + i - 1) : i \in 1..size}) /\ Block(rva, size) # <<>>
    <3> DEFINE S == {CellAt(rva + i - 1) : i \in 1..size}
    <3>1. \A i \in 1..size : CellAt(rva + i - 1) \in S
      OBVIOUS
    <3> HIDE DEF S
    <3>2. Block(rva, size) \in [1..size -> S]
      BY <2>1, <3>1
    <3>3. Block(rva, size) \in Seq(S)
      BY <3>2
    <3>4. Block(rva, size) # <<>>
      BY <2>2
    <3> QED
      BY <3>3, <3>4 DEF S
  <2>4. /\ Len(Tail(Block(rva, size))) = Len(Block(rva, size)) - 1
        /\ \A i \in 1..Len(Tail(Block(rva, size))) : Tail(Block(rva, size))[i] = Block(rva, size)[i + 1]
    BY <2>3, HeadTailProperties
  <2> QED
    BY <2>1, <2>2, <2>4
<1>3. Len(cells) = size - 1 /\ \A i \in 1..(size - 1) : cells[i] = CellAt(rva + i)
  BY <1>1, <1>2
<1>4. \A i \in 2..size : cells[i - 1] = CellAt(rva + i - 1)
  BY <1>3
<1>5. Len(cells) + 1 = size
  BY <1>3
<1> QED
  BY <1>4, <1>5 DEF RegistersVal

\* Whatever has been read before, a context is what it is in the file.
LEMMA ContextReads ==
    ASSUME FileOK, DirectoryOK, NEW s, IsState(s), Serves(s), NEW rva \in Nat, NEW size \in Nat
    PROVE  /\ Grown(s, ContextAt(s, rva, size).s)
           /\ ~s.bad => ContextAt(s, rva, size).val = ContextVal(rva, size)
           /\ s.bad => ContextAt(s, rva, size).val = NULL
<1>1. CASE s.bad
  <2>1. ContextAt(s, rva, size).s = s /\ ContextAt(s, rva, size).val = NULL
    BY <1>1 DEF ContextAt, Result
  <2>2. Grown(s, s)
    BY DEF Grown
  <2> QED
    BY <1>1, <2>1, <2>2
<1>2. CASE ~s.bad
  <2> DEFINE u == SeekSet(s, rva)
             n == IF size = ContextSize.amd64 THEN size ELSE 1
             p == ReadBytes(u, n)
             g == ContextBegun(p, size, SizedBy(size))
             named == NamedVal(rva, size)
             cpu == CPUVal(named)
             info == NamedCPU(p.s, named)
  <2>0. rva \in Int /\ len \in Int /\ size \in Int
    BY LenIsNat
  <2>1. Moved(s, u) /\ u.bad = s.bad /\ u.pos = rva /\ IsState(u)
    BY <1>2, SeekSetMoves DEF Moved
  <2>2. n \in Nat /\ n \in {1, 6} /\ (n = 6 <=> size = 6) /\ (size = 6 => n = size)
    BY DEF ContextSize
  <2>3. ContextAt(s, rva, size) = g
    BY <1>2 DEF ContextAt, ContextRead, SizedBy
  <2> HIDE DEF u, n
  <2>4. /\ Moved(u, p.s) /\ (p.ok <=> rva + n <= len) /\ (p.s.bad <=> ~p.ok)
        /\ p.ok => p.cells = Block(rva, n) /\ p.s.pos = rva + n
    BY <1>2, <2>1, <2>2, ReadBytesReads
  <2>5. Moved(s, p.s)
    BY <2>1, <2>4, MovedTwice
  <2> HIDE DEF p
  <2>6. Grown(s, p.s) /\ IsState(p.s) /\ Serves(p.s)
    BY <2>5, MovedGrows, GrownServes DEF Moved
  <2>7. CASE ~p.ok
    <3>1. g = Result(p.s, FALSE, NULL)
      BY <2>7 DEF ContextBegun
    <3>2. g.s = p.s /\ g.val = NULL
      BY <3>1 DEF Result
    <3>3. ~(rva + 1 <= len /\ rva + size <= len)
      BY <2>0, <2>2, <2>4, <2>7
    <3>4. ContextVal(rva, size) = NULL
      BY <3>3 DEF ContextVal
    <3> QED
      BY <1>2, <2>3, <2>6, <3>2, <3>4
  <2>8. CASE p.ok
    <3>1. p.cells[1] = CellAt(rva)
      BY <2>2, <2>4, <2>8 DEF Block
    <3>2. g = ContextCPU(info, p.cells, named, size, SizedBy(size))
      BY <2>8, <3>1 DEF ContextBegun, NamedVal
    <3>3. /\ Grown(p.s, info.s)
          /\ info.ok <=> ~(named = "none" /\ Breaks("SystemInfo"))
          /\ info.cpu = cpu
          /\ info.ok => ~info.s.bad /\ info.s.pos = rva + n
      BY <2>4, <2>6, <2>8, NamedCPUGiven
    <3> HIDE DEF info, named, cpu
    <3>4. Grown(s, info.s) /\ IsState(info.s) /\ Serves(info.s)
      BY <2>6, <3>3, GrownTwice, GrownServes DEF Grown
    <3>5. rva + 1 <= len
      BY <2>0, <2>2, <2>4, <2>8
    <3>6. ContextVal(rva, size) =
             IF /\ rva + 1 <= len /\ rva + size <= len
                /\ ~(named = "none" /\ Breaks("SystemInfo"))
                /\ Fits(cpu, size, SizedBy(size))
                /\ InfoVal = NULL \/ Agrees(cpu, Get(InfoVal, "arch"))
             THEN [cpu |-> ContextFlags(named, cpu, SizedBy(size)), read_as |-> cpu, regs |-> RegistersVal(rva, size)]
             ELSE NULL
      BY DEF ContextVal, named, cpu
    <3>7. CASE ~info.ok \/ ~Fits(cpu, size, SizedBy(size))
      <4>1. g = Result(info.s, FALSE, NULL)
        BY <3>2, <3>3, <3>7 DEF ContextCPU
      <4>2. g.s = info.s /\ g.val = NULL
        BY <4>1 DEF Result
      <4>3. ContextVal(rva, size) = NULL
        BY <3>3, <3>6, <3>7
      <4> QED
        BY <1>2, <2>3, <3>4, <4>2, <4>3
    <3>8. CASE info.ok /\ Fits(cpu, size, SizedBy(size))
      <4> DEFINE q == IF SizedBy(size) = {"amd64"} THEN [s |-> info.s, ok |-> TRUE, cells |-> Tail(p.cells)]
                      ELSE ReadBytes(info.s, size - 1)
      <4>1. size >= 2 /\ (SizedBy(size) = {"amd64"} <=> size = 6)
        BY <3>8, SizedByCases
      <4>2. g = ContextRegisters(q, cpu, named, SizedBy(size))
        BY <3>2, <3>3, <3>8 DEF ContextCPU
      <4>3. /\ Grown(info.s, q.s) /\ IsState(q.s) /\ (q.ok => ~q.s.bad)
            /\ q.ok <=> rva + size <= len
            /\ q.ok => q.cells = Block(rva + 1, size - 1) \/ q.cells = Tail(Block(rva, size))
        <5>1. CASE size = 6
          <6>1. q.s = info.s /\ q.ok = TRUE /\ q.cells = Tail(p.cells)
            BY <4>1, <5>1
          <6>2. Grown(info.s, info.s) /\ IsState(info.s)
            BY <3>4 DEF Grown
          <6>3. p.cells = Block(rva, size) /\ rva + size <= len
            BY <2>2, <2>4, <2>8, <5>1
          <6> HIDE DEF q
          <6> QED
            BY <3>3, <3>8, <6>1, <6>2, <6>3
        <5>2. CASE size # 6
          <6>1. q = ReadBytes(info.s, size - 1)
            BY <4>1, <5>2
          <6>2. info.s.pos = rva + 1 /\ ~info.s.bad
            BY <2>2, <3>3, <3>8, <5>2
          <6>a. size - 1 \in Nat /\ IsState(info.s)
            BY <3>4, <4>1
          <6> HIDE DEF q
          <6>3. /\ Moved(info.s, q.s) /\ (q.ok <=> info.s.pos + (size - 1) <= len) /\ (q.s.bad <=> ~q.ok)
                /\ q.ok => q.cells = Block(info.s.pos, size - 1)
            BY <6>a, <6>1, <6>2, ReadBytesReads
          <6>4. info.s.pos + (size - 1) = rva + size
            BY <2>0, <6>2
          <6> QED
            BY <6>2, <6>3, <6>4, MovedGrows DEF Moved
        <5> QED
          BY <5>1, <5>2
      <4> HIDE DEF q
      <4>4. Serves(q.s) /\ Grown(s, q.s)
        BY <3>4, <4>3, GrownServes, GrownTwice
      <4>5. /\ Grown(q.s, g.s)
            /\ g.val = IF q.ok /\ (InfoVal = NULL \/ Agrees(cpu, Get(InfoVal, "arch")))
                       THEN [cpu |-> ContextFlags(named, cpu, SizedBy(size)), read_as |-> cpu,
                             regs |-> [i \in 2..(Len(q.cells) + 1) |-> q.cells[i - 1]]]
                       ELSE NULL
        BY <4>2, <4>3, <4>4, RegistersGiven
      <4>6. q.ok => [i \in 2..(Len(q.cells) + 1) |-> q.cells[i - 1]] = RegistersVal(rva, size)
        <5>1. \A cells : cells = Block(rva + 1, size - 1) \/ cells = Tail(Block(rva, size))
                            => [i \in 2..(Len(cells) + 1) |-> cells[i - 1]] = RegistersVal(rva, size)
          BY <4>1, RegistersOf
        <5> QED
          BY <4>3, <5>1
      <4> HIDE DEF g
      <4>7. Grown(s, g.s)
        BY <4>4, <4>5, GrownTwice
      <4>8. g.val = ContextVal(rva, size)
        BY <3>3, <3>5, <3>6, <3>8, <4>3, <4>5, <4>6
      <4> QED
        BY <1>2, <2>3, <4>7, <4>8
    <3> QED
      BY <3>7, <3>8
  <2> QED
    BY <2>7, <2>8
<1> QED
  BY <1>1, <1>2
---------------------------------------------------------------------------
(* Parts of streams.                                                       *)

\* What a part is that a descriptor describes.
PartVal(p, v) ==
    LET d == Described(p, v)
    IN  CASE p[1] \in {"context", "exception"} -> ContextVal(Get(d, "crva"), Get(d, "csize"))
          [] p[1] = "stack"  -> IF HasStack(d) THEN MemoryVal(d) ELSE NULL
          [] p[1] = "region" -> MemoryVal(d)
          [] p[1] = "csd"    -> StringVal(Get(d, "csd"))

LEMMA PartKinds ==
    ASSUME NEW p \in Parts
    PROVE  p[1] \in {"context", "stack", "region", "exception", "csd"} /\ Owner(p) \in Plain
BY DEF Parts, Owner, Plain, StreamTypes, SingleStreams

LEMMA PartReads ==
    ASSUME FileOK, DirectoryOK, NEW s, IsState(s), Serves(s), NEW p \in Parts, NEW v, IsCell(Described(p, v))
    PROVE  /\ Grown(s, PartRead(s, p, v).s)
           /\ ~s.bad => PartRead(s, p, v).val = PartVal(p, v)
           /\ s.bad => PartRead(s, p, v).val = NULL
<1> DEFINE d == Described(p, v)
           r == PartRead(s, p, v)
<1>0. /\ Get(d, "crva") \in Nat /\ Get(d, "csize") \in Nat /\ Get(d, "csd") \in Nat
  BY DEF IsCell, Unsigned
<1> HIDE DEF d
<1>1. CASE p[1] \in {"context", "exception"}
  <2>1. r = ContextAt(s, Get(d, "crva"), Get(d, "csize"))
    BY <1>1 DEF PartRead, DescribedRead, d
  <2>2. PartVal(p, v) = ContextVal(Get(d, "crva"), Get(d, "csize"))
    BY <1>1 DEF PartVal, d
  <2> QED
    BY <1>0, <2>1, <2>2, ContextReads
<1>2. CASE p[1] = "stack"
  <2>1. r = IF HasStack(d) THEN GetMemory(s, d) ELSE Result(s, FALSE, NULL)
    BY <1>2 DEF PartRead, DescribedRead, d
  <2>2. PartVal(p, v) = IF HasStack(d) THEN MemoryVal(d) ELSE NULL
    BY <1>2 DEF PartVal, d
  <2>3. Result(s, FALSE, NULL).s = s /\ Result(s, FALSE, NULL).val = NULL
    BY DEF Result
  <2>4. Grown(s, s)
    BY DEF Grown
  <2>5. /\ Moved(s, GetMemory(s, d).s)
        /\ ~s.bad => GetMemory(s, d).val = MemoryVal(d)
        /\ s.bad => GetMemory(s, d).val = NULL
    BY MemoryReads DEF d
  <2> QED
    BY <2>1, <2>2, <2>3, <2>4, <2>5, MovedGrows
<1>3. CASE p[1] = "region"
  <2>1. r = GetMemory(s, d)
    BY <1>3 DEF PartRead, DescribedRead, d
  <2>2. PartVal(p, v) = MemoryVal(d)
    BY <1>3 DEF PartVal, d
  <2> QED
    BY <2>1, <2>2, MemoryReads, MovedGrows DEF d
<1>4. CASE p[1] = "csd"
  <2>1. r = ReadString(s, Get(d, "csd"))
    BY <1>4 DEF PartRead, DescribedRead, d
  <2>2. PartVal(p, v) = StringVal(Get(d, "csd"))
    BY <1>4 DEF PartVal, d
  <2> QED
    BY <1>0, <2>1, <2>2, StringReads, MovedGrows
<1> QED
  BY <1>1, <1>2, <1>3, <1>4, PartKinds

\* What describes a part is a cell of the file.
LEMMA PartDescribed ==
    ASSUME FileOK, DirectoryOK, NEW p \in Parts, NEW v, v # NULL, v = StreamVal(Owner(p)), InStream(p, v)
    PROVE  IsCell(Described(p, v))
<1>0. InDirectory(Owner(p)) /\ Place(Owner(p)) \in Nat /\ SizeOf(Owner(p)) \in Nat
  <2>1. InDirectory(Owner(p))
    BY DEF StreamVal
  <2> QED
    BY <2>1, DirectoryNumbers DEF InDirectory
<1> DEFINE at == Place(Owner(p))
           size == SizeOf(Owner(p))
<1>1. CASE Listed(at, size) /\ at + size <= len
  <2>1. CountOf(at) \in Nat /\ at + size - CountOf(at) \in Int
    BY <1>0, CountIsNat
  <2>2. /\ DOMAIN ItemCells(at, size) = 1..CountOf(at)
        /\ \A i \in 1..CountOf(at) : IsCell(ItemCells(at, size)[i])
    BY <2>1, BlockCells DEF ItemCells
  <2>3. CASE p[1] \in {"context", "stack"}
    <3>1. v = ItemCells(at, size)
      BY <1>0, <2>3 DEF StreamVal, Owner, ThreadListVal
    <3>2. p[2] \in DOMAIN v /\ Described(p, v) = v[p[2]]
      BY <2>3 DEF InStream, Described
    <3> QED
      BY <2>2, <3>1, <3>2
  <2>4. CASE p[1] = "region"
    <3>1. v = RegionsOf(ItemCells(at, size))
      BY <1>0, <2>4 DEF StreamVal, Owner, MemoryListVal
    <3>2. v.items = ItemCells(at, size)
      BY <3>1 DEF RegionsOf
    <3>3. p[2] \in DOMAIN v.items /\ Described(p, v) = v.items[p[2]]
      BY <2>4 DEF InStream, Described
    <3> QED
      BY <2>2, <3>2, <3>3
  <2>5. CASE p[1] \in {"exception", "csd"}
    <3>1. v = CellAt(at) /\ Described(p, v) = v
      BY <1>0, <2>5 DEF StreamVal, Owner, FixedVal, Described
    <3> QED
      BY <1>0, <3>1, CellAtIsCell
  <2> QED
    BY <2>3, <2>4, <2>5, PartKinds
<1>2. CASE ~(Listed(at, size) /\ at + size <= len)
  <2>1. CASE p[1] \in {"context", "stack"}
    BY <1>0, <1>2, <2>1 DEF StreamVal, Owner, ThreadListVal
  <2>2. CASE p[1] = "region"
    BY <1>0, <1>2, <2>2 DEF StreamVal, Owner, MemoryListVal
  <2>5. CASE p[1] \in {"exception", "csd"}
    <3>1. v = CellAt(at) /\ Described(p, v) = v
      BY <1>0, <2>5 DEF StreamVal, Owner, FixedVal, Described
    <3> QED
      BY <1>0, <3>1, CellAtIsCell
  <2> QED
    BY <2>1, <2>2, <2>5, PartKinds
<1> QED
  BY <1>1, <1>2
---------------------------------------------------------------------------
(* Modules.                                                                *)

\* x is the module that the cell m describes: its name is there, its records
\* are there or not.
ModuleRead(x, m) ==
    /\ x = [raw |-> m, name |-> x.name, cv |-> x.cv, misc |-> x.misc, debug |-> x.debug]
    /\ x.name = Get(CellAt(Get(m, "name")), "text")
    /\ x.cv \in {NULL, CellAt(Location(m, "cv").rva)}
    /\ x.misc \in {NULL, CellAt(Location(m, "misc").rva)}

CVVal(m) == RecordVal(Location(m, "cv"), "wellformed", TRUE)

MiscVal(m) == RecordVal(Location(m, "misc"), "n", Location(m, "misc").size)

NameVal(m) == StringVal(Get(m, "name"))

\* What a module is when it is read before any reading fails, and whether one
\* of its records lets reading fail: the misc record is read only if there is
\* no CodeView record that was refused.
ModuleVal(m) ==
    LET cv   == CVVal(m)
        misc == IF Lacks(m, "cv", cv) THEN NULL ELSE MiscVal(m)
    IN  IF NameVal(m) = NULL THEN NULL
        ELSE [raw |-> m, name |-> NameVal(m), cv |-> cv, misc |-> misc,
              debug |-> ~Lacks(m, "cv", cv) /\ ~Lacks(m, "misc", misc)]

Breaking(m) == Outside(Location(m, "cv")) \/ (~Lacks(m, "cv", CVVal(m)) /\ Outside(Location(m, "misc")))

LEMMA RecordsRead ==
    ASSUME FileOK, NEW s, IsState(s), NEW m, IsCell(m)
    PROVE  /\ Moved(s, GetCVRecord(s, m).s) /\ Moved(s, GetMiscRecord(s, m).s)
           /\ GetCVRecord(s, m).val \in {NULL, CellAt(Location(m, "cv").rva)}
           /\ GetMiscRecord(s, m).val \in {NULL, CellAt(Location(m, "misc").rva)}
           /\ s.bad => GetCVRecord(s, m).val = NULL /\ GetMiscRecord(s, m).val = NULL
           /\ ~s.bad => /\ GetCVRecord(s, m).val = CVVal(m) /\ GetMiscRecord(s, m).val = MiscVal(m)
                        /\ GetCVRecord(s, m).s.bad <=> Outside(Location(m, "cv"))
                        /\ GetMiscRecord(s, m).s.bad <=> Outside(Location(m, "misc"))
<1>1. \A f \in {"cv", "misc"} : Location(m, f).size \in Nat /\ Location(m, f).rva \in Nat
  BY DEF IsCell
<1>2. /\ Moved(s, GetCVRecord(s, m).s)
      /\ GetCVRecord(s, m).val \in {NULL, CellAt(Location(m, "cv").rva)}
      /\ s.bad => GetCVRecord(s, m).val = NULL
      /\ ~s.bad => GetCVRecord(s, m).val = CVVal(m) /\ (GetCVRecord(s, m).s.bad <=> Outside(Location(m, "cv")))
  <2>1. PICK l : l = Location(m, "cv") /\ l.size \in Nat /\ l.rva \in Nat
    BY <1>1
  <2>0. PICK b : b = TRUE
    BY Zenon
  <2>2. GetCVRecord(s, m) = First(RecordRead(s, l), "wellformed", b) /\ CVVal(m) = RecordVal(l, "wellformed", b)
    BY <2>0, <2>1, Zenon DEF GetCVRecord, CVVal
  <2>3. PICK g, v : g = GetCVRecord(s, m) /\ v = CVVal(m)
    OBVIOUS
  <2>4. /\ Moved(s, g.s) /\ g.val \in {NULL, CellAt(l.rva)} /\ (s.bad => g.val = NULL)
        /\ ~s.bad => g.val = v /\ (g.s.bad <=> Outside(l))
    BY <2>1, <2>2, <2>3, RecordReads
  <2> QED
    BY <2>1, <2>3, <2>4
<1>3. /\ Moved(s, GetMiscRecord(s, m).s)
      /\ GetMiscRecord(s, m).val \in {NULL, CellAt(Location(m, "misc").rva)}
      /\ s.bad => GetMiscRecord(s, m).val = NULL
      /\ ~s.bad => GetMiscRecord(s, m).val = MiscVal(m) /\ (GetMiscRecord(s, m).s.bad <=> Outside(Location(m, "misc")))
  <2>1. PICK l : l = Location(m, "misc") /\ l.size \in Nat /\ l.rva \in Nat
    BY <1>1
  <2>2. GetMiscRecord(s, m) = First(RecordRead(s, l), "n", l.size) /\ MiscVal(m) = RecordVal(l, "n", l.size)
    BY <2>1 DEF GetMiscRecord, MiscVal
  <2> QED
    BY <2>1, <2>2, RecordReads
<1> QED
  BY <1>2, <1>3

LEMMA AuxiliaryReads ==
    ASSUME FileOK, NEW s, IsState(s), NEW m, IsCell(m)
    PROVE  /\ Moved(s, ReadAuxiliaryData(s, m).s)
           /\ ReadAuxiliaryData(s, m).val # NULL => ModuleRead(ReadAuxiliaryData(s, m).val, m)
           /\ s.bad => ReadAuxiliaryData(s, m).val = NULL
           /\ ~s.bad => /\ ReadAuxiliaryData(s, m).val = ModuleVal(m)
                        /\ ModuleVal(m) # NULL => (ReadAuxiliaryData(s, m).s.bad <=> Breaking(m))
<1> DEFINE n == ReadString(s, Get(m, "name"))
           a == ReadAuxiliaryData(s, m)
<1>0. Get(m, "name") \in Nat
  BY DEF IsCell, Unsigned
<1>1. /\ Moved(s, n.s) /\ (n.val # NULL => n.val = NameVal(m) /\ ~s.bad /\ ~n.s.bad)
      /\ ~s.bad => n.val = NameVal(m)
  BY <1>0, StringReads DEF IsState, NameVal
<1>2. a = AfterName(n, m)
  BY DEF ReadAuxiliaryData
<1> HIDE DEF n
<1>3. CASE n.val = NULL
  <2>1. a = n
    BY <1>2, <1>3 DEF AfterName
  <2> QED
    BY <1>1, <1>3, <2>1 DEF ModuleVal
<1>4. CASE n.val # NULL
  <2> DEFINE c == GetCVRecord(n.s, m)
             d == IF Lacks(m, "cv", c.val) THEN Result(c.s, FALSE, NULL) ELSE GetMiscRecord(c.s, m)
  <2>1. a = AfterMisc(d, c.val, n.val, m)
    BY <1>2, <1>4 DEF AfterName, AfterCV
  <2>2. /\ Moved(n.s, c.s) /\ c.val \in {NULL, CellAt(Location(m, "cv").rva)}
        /\ c.val = CVVal(m) /\ (c.s.bad <=> Outside(Location(m, "cv")))
    BY <1>1, <1>4, RecordsRead DEF Moved
  <2> HIDE DEF c
  <2>3. /\ Moved(c.s, d.s) /\ d.val \in {NULL, CellAt(Location(m, "misc").rva)}
        /\ d.val = IF Lacks(m, "cv", CVVal(m)) THEN NULL ELSE MiscVal(m)
        /\ d.s.bad <=> Breaking(m)
    <3>1. Result(c.s, FALSE, NULL).s = c.s /\ Result(c.s, FALSE, NULL).val = NULL
      BY DEF Result
    <3>2. Moved(c.s, c.s) /\ IsState(c.s)
      BY <2>2, MovedSelf DEF Moved
    <3>3. c.s.bad => Lacks(m, "cv", CVVal(m))
      <4>1. Location(m, "cv").size \in Nat /\ Location(m, "cv").rva \in Nat /\ len \in Int /\ MaxBytes \in Nat
        BY LenIsNat, MinidumpAssumption DEF IsCell
      <4>2. Outside(Location(m, "cv")) => Location(m, "cv").size # 0 /\ CVVal(m) = NULL
        BY <4>1 DEF Outside, CVVal, RecordVal
      <4> QED
        BY <2>2, <4>2 DEF Lacks
    <3>4. CASE Lacks(m, "cv", CVVal(m))
      <4>1. d.s = c.s /\ d.val = NULL
        BY <2>2, <3>1, <3>4
      <4> HIDE DEF d
      <4> QED
        BY <2>2, <3>2, <3>4, <4>1 DEF Breaking
    <3>5. CASE ~Lacks(m, "cv", CVVal(m))
      <4>1. d = GetMiscRecord(c.s, m) /\ ~c.s.bad
        BY <2>2, <3>3, <3>5
      <4> HIDE DEF d
      <4>2. /\ Moved(c.s, d.s) /\ d.val \in {NULL, CellAt(Location(m, "misc").rva)}
            /\ d.val = MiscVal(m) /\ (d.s.bad <=> Outside(Location(m, "misc")))
        BY <3>2, <4>1, RecordsRead
      <4> QED
        BY <2>2, <3>5, <4>1, <4>2 DEF Breaking
    <3> HIDE DEF d
    <3> QED
      BY <3>4, <3>5
  <2> HIDE DEF d
  <2> DEFINE debug == ~Lacks(m, "cv", c.val) /\ ~Lacks(m, "misc", d.val)
             x == [raw |-> m, name |-> n.val, cv |-> c.val, misc |-> d.val, debug |-> debug]
  <2>4. a.s = d.s /\ a.val = x
    BY <2>1 DEF AfterMisc, Result
  <2> HIDE DEF debug
  <2>5. n.val = Get(CellAt(Get(m, "name")), "text")
    BY <1>1, <1>4 DEF StringVal, NameVal
  <2>6. ModuleRead(x, m)
    BY <2>2, <2>3, <2>5 DEF ModuleRead
  <2>7. Moved(s, d.s)
    BY <1>1, <2>2, <2>3, MovedTwice
  <2>8. x = ModuleVal(m) /\ NameVal(m) # NULL
    BY <1>1, <1>4, <2>2, <2>3 DEF ModuleVal, debug
  <2> HIDE DEF a, x
  <2> QED
    BY <1>1, <1>4, <2>3, <2>4, <2>6, <2>7, <2>8 DEF a
<1> QED
  BY <1>3, <1>4

\* How the i-th module, m, takes its place behind those before it: from p to q.
Placed(p, q, m, i) ==
    LET base == Get(m.raw, "base")
        size == Get(m.raw, "size")
        rest == Rest(base, size, p.last)
    IN  \/ /\ Storable(p.map, base, size)
           /\ q.map = StoreRange(p.map, base, size, i) /\ q.last = Wrap(base + size)
        \/ /\ ~Storable(p.map, base, size) /\ IsAshmem(m)
           /\ q.map = p.map /\ q.last = Wrap(base + size)
        \/ /\ ~Storable(p.map, base, size) /\ ~IsAshmem(m) /\ base < p.last /\ Storable(p.map, p.last, rest)
           /\ q.map = StoreRange(p.map, p.last, rest, i) /\ q.last = Wrap(p.last + rest)

\* h has the map and the last address behind each of the modules.
Placing(h, items, n) ==
    /\ h[0].map = {} /\ h[0].last = 0
    /\ \A i \in 1..n : Placed(h[i - 1], h[i], items[i], i)

Ranges == [base : Int, high : Int, index : Int]

\* The place of a module is determined by the places before it.
LEMMA PlacedAlike ==
    ASSUME NEW p, NEW u, p.map = u.map, p.last = u.last, NEW m, NEW i, NEW q, NEW w,
           Placed(p, q, m, i), Placed(u, w, m, i)
    PROVE  q.map = w.map /\ q.last = w.last
BY DEF Placed

LEMMA ModulePlaced ==
    ASSUME NEW S, NEW V, NEW p \in [s : S, items : Seq(V), map : SUBSET Ranges, last : Int, ok : BOOLEAN], p.ok,
           NEW m, Get(m.raw, "base") \in Nat, Get(m.raw, "size") \in Nat, NEW i \in Nat
    PROVE  LET q == PlaceModule(p, m, i)
           IN  /\ q \in [s : S, items : Seq(V), map : SUBSET Ranges, last : Int, ok : BOOLEAN]
               /\ q.s = p.s /\ q.items = p.items
               /\ q.ok => Placed(p, q, m, i)
               /\ ~q.ok => \A w : ~Placed(p, w, m, i)
<1> DEFINE base == Get(m.raw, "base")
           size == Get(m.raw, "size")
           rest == Rest(base, size, p.last)
           q == PlaceModule(p, m, i)
<1>1. \A a \in Int : Wrap(a) \in Int
  BY AddrSpaceAssumption DEF Wrap
<1>2. rest \in Int /\ p.last \in Int
  BY <1>1 DEF Rest
<1>3. \A a, b \in Int : StoreRange(p.map, a, b, i) \in SUBSET Ranges
  <2>1. p.map \in SUBSET Ranges
    OBVIOUS
  <2>2. \A a, b \in Int : [base |-> a, high |-> Wrap(a + b - 1), index |-> i] \in Ranges
    <3> SUFFICES ASSUME NEW a \in Int, NEW b \in Int
                 PROVE  [base |-> a, high |-> Wrap(a + b - 1), index |-> i] \in Ranges
      OBVIOUS
    <3>1. a + b - 1 \in Int
      OBVIOUS
    <3>2. Wrap(a + b - 1) \in Int
      BY <1>1, <3>1
    <3> QED
      BY <3>2 DEF Ranges
  <2> QED
    BY <2>1, <2>2 DEF StoreRange
<1>a. base \in Int /\ size \in Int /\ base + size \in Int /\ p.last + rest \in Int
  BY <1>2
<1>4. CASE Storable(p.map, base, size)
  <2>1. q = [p EXCEPT !.map = StoreRange(p.map, base, size, i), !.last = Wrap(base + size)]
    BY <1>4 DEF PlaceModule
  <2>2. StoreRange(p.map, base, size, i) \in SUBSET Ranges /\ Wrap(base + size) \in Int
    BY <1>1, <1>3, <1>a
  <2> HIDE DEF q
  <2> QED
    BY <1>4, <2>1, <2>2 DEF Placed, q
<1>5. CASE ~Storable(p.map, base, size) /\ IsAshmem(m)
  <2>1. q = [p EXCEPT !.last = Wrap(base + size)]
    BY <1>5 DEF PlaceModule
  <2>2. Wrap(base + size) \in Int
    BY <1>1
  <2> HIDE DEF q
  <2> QED
    BY <1>5, <2>1, <2>2 DEF Placed, q
<1>6. CASE ~Storable(p.map, base, size) /\ ~IsAshmem(m) /\ base < p.last /\ Storable(p.map, p.last, rest)
  <2>1. q = [p EXCEPT !.map = StoreRange(p.map, p.last, rest, i), !.last = Wrap(p.last + rest)]
    BY <1>6 DEF PlaceModule
  <2>2. StoreRange(p.map, p.last, rest, i) \in SUBSET Ranges /\ Wrap(p.last + rest) \in Int
    BY <1>1, <1>2, <1>3, <1>a
  <2> HIDE DEF q
  <2> QED
    BY <1>6, <2>1, <2>2 DEF Placed, q
<1>7. CASE ~Storable(p.map, base, size) /\ ~IsAshmem(m) /\ ~(base < p.last /\ Storable(p.map, p.last, rest))
  <2>1. q = [p EXCEPT !.ok = FALSE]
    BY <1>7 DEF PlaceModule
  <2>2. \A w : ~Placed(p, w, m, i)
    BY <1>7 DEF Placed
  <2> HIDE DEF q
  <2> QED
    BY <2>1, <2>2 DEF q
<1> QED
  BY <1>4, <1>5, <1>6, <1>7
\* The states of a reading of modules, which leaves the streams q alone, and
\* what it has come to; V are the modules it may read.
States(q) == {[pos |-> k, bad |-> b, streams |-> q] : k \in Nat, b \in BOOLEAN}

Readings(q, V) == [s : States(q), items : Seq(V), map : SUBSET Ranges, last : Int, ok : BOOLEAN]

LEMMA StatesAre ==
    ASSUME NEW q, q = [t \in StreamTypes |-> q[t]], NEW s
    PROVE  s \in States(q) <=> IsState(s) /\ s.streams = q
<1>1. ASSUME s \in States(q)
      PROVE  IsState(s) /\ s.streams = q
  <2>1. PICK k \in Nat, b \in BOOLEAN : s = [pos |-> k, bad |-> b, streams |-> q]
    BY <1>1 DEF States
  <2>2. s.pos = k /\ s.bad = b /\ s.streams = q
    BY <2>1
  <2> QED
    BY <2>1, <2>2 DEF IsState
<1>2. ASSUME IsState(s), s.streams = q
      PROVE  s \in States(q)
  BY <1>2 DEF IsState, States
<1> QED
  BY <1>1, <1>2

LEMMA OneModule ==
    ASSUME FileOK, NEW q, q = [t \in StreamTypes |-> q[t]], NEW V, NEW p \in Readings(q, V), p.ok,
           NEW m, IsCell(m), NEW i \in Nat, ReadAuxiliaryData(p.s, m).val \in V
    PROVE  LET a == ReadAuxiliaryData(p.s, m)
               w == ModuleAdded(p, a, i)
           IN  /\ w \in Readings(q, V)
               /\ Moved(p.s, w.s)
               /\ w.ok => /\ w.items = Append(p.items, a.val)
                          /\ ModuleRead(a.val, m)
                          /\ Placed(p, w, a.val, i)
                          /\ ~p.s.bad /\ a.val = ModuleVal(m) /\ ModuleVal(m) # NULL
                          /\ w.s.bad <=> Breaking(m)
               /\ ~p.s.bad /\ ModuleVal(m) # NULL /\ ~w.ok => \A u : ~Placed(p, u, ModuleVal(m), i)
<1> DEFINE a == ReadAuxiliaryData(p.s, m)
           w == ModuleAdded(p, a, i)
           x == [p EXCEPT !.s = a.s, !.items = Append(p.items, a.val)]
<1>1. p.s \in States(q) /\ IsState(p.s) /\ p.s.streams = q
  <2>1. p.s \in States(q)
    BY DEF Readings
  <2> QED
    BY <2>1, StatesAre
<1>2. /\ Moved(p.s, a.s)
      /\ a.val # NULL => ModuleRead(a.val, m)
      /\ p.s.bad => a.val = NULL
      /\ ~p.s.bad => a.val = ModuleVal(m) /\ (ModuleVal(m) # NULL => (a.s.bad <=> Breaking(m)))
  BY <1>1, AuxiliaryReads
<1>3. a.val \in V
  OBVIOUS
<1> HIDE DEF a
<1>4. a.s \in States(q)
  BY <1>1, <1>2, StatesAre DEF Moved
<1>5. CASE a.val = NULL
  <2>1. w = [p EXCEPT !.s = a.s, !.ok = FALSE]
    BY <1>5 DEF ModuleAdded
  <2>2. w \in Readings(q, V) /\ w.s = a.s /\ w.ok = FALSE
    BY <1>4, <2>1 DEF Readings
  <2> HIDE DEF w
  <2> QED
    BY <1>2, <1>5, <2>2 DEF w, a
<1>6. CASE a.val # NULL
  <2>1. w = PlaceModule(x, a.val, i)
    BY <1>6 DEF ModuleAdded
  <2>2. x \in Readings(q, V) /\ x.s = a.s /\ x.items = Append(p.items, a.val) /\ x.map = p.map /\ x.last = p.last /\ x.ok
    <3>1. Append(p.items, a.val) \in Seq(V)
      BY <1>3 DEF Readings
    <3> QED
      BY <1>4, <3>1 DEF Readings
  <2>3. Get(a.val.raw, "base") \in Nat /\ Get(a.val.raw, "size") \in Nat
    <3>1. a.val.raw = m
      BY <1>2, <1>6 DEF ModuleRead
    <3> QED
      BY <3>1 DEF IsCell, Unsigned
  <2> HIDE DEF x
  <2>4. /\ w \in Readings(q, V)
        /\ w.s = x.s /\ w.items = x.items
        /\ w.ok => Placed(x, w, a.val, i)
        /\ ~w.ok => \A u : ~Placed(x, u, a.val, i)
    BY <2>1, <2>2, <2>3, ModulePlaced DEF Readings
  <2> HIDE DEF w
  <2>5. /\ w.ok => Placed(p, w, a.val, i)
        /\ ~w.ok => \A u : ~Placed(p, u, a.val, i)
    <3>1. \A u : Placed(x, u, a.val, i) <=> Placed(p, u, a.val, i)
      BY <2>2 DEF Placed
    <3> QED
      BY <2>4, <3>1
  <2>6. ~p.s.bad
    BY <1>2, <1>6
  <2> QED
    BY <1>2, <1>6, <2>2, <2>4, <2>5, <2>6 DEF w, a
<1> QED
  BY <1>5, <1>6
\* Reading the modules is a computation in steps, one per module.
ReadOne(p, m, i) == IF p.ok THEN ModuleAdded(p, ReadAuxiliaryData(p.s, m), i) ELSE p

Begun(s) == [s |-> s, items |-> <<>>, map |-> {}, last |-> 0, ok |-> TRUE]

LEMMA ModulesInSteps ==
    ASSUME FileOK, NEW r, IsState(r.s), r.val # NULL, NEW n \in Nat, DOMAIN r.val = 1..n,
           \A i \in 1..n : IsCell(r.val[i])
    PROVE  \E f, V :
              /\ f[0] = Begun(r.s)
              /\ \A i \in 0..n : f[i] \in Readings(r.s.streams, V)
              /\ \A i \in 1..n : /\ f[i] = ReadOne(f[i - 1], r.val[i], i)
                                 /\ f[i - 1].ok => ReadAuxiliaryData(f[i - 1].s, r.val[i]).val \in V
              /\ ModulesPlaced(r) = ModulesKept(f[n])
<1> DEFINE q == r.s.streams
           V == {ReadAuxiliaryData(u, r.val[i]).val : u \in States(q), i \in 1..n}
           X == Readings(q, V)
           x0 == Begun(r.s)
           step == [i \in 1..n |-> [p \in X |-> ReadOne(p, r.val[i], i)]]
           seq == [i \in DOMAIN r.val |-> i]
           it == CHOOSE it : it = [s \in SUBSET (1..n) |->
                    IF s = {} THEN x0
                    ELSE IF it[s \ {Max(s)}].ok
                         THEN ModuleAdded(it[s \ {Max(s)}], ReadAuxiliaryData(it[s \ {Max(s)}].s, r.val[seq[Max(s)]]), seq[Max(s)])
                         ELSE it[s \ {Max(s)}]]
<1>0. q = [t \in StreamTypes |-> q[t]]
  BY DEF IsState
<1>1. x0 \in X
  <2>1. r.s \in States(q)
    BY <1>0, StatesAre
  <2>2. {} \in SUBSET Ranges /\ 0 \in Int /\ TRUE \in BOOLEAN
    OBVIOUS
  <2>3. <<>> \in Seq(V)
    OBVIOUS
  <2> HIDE DEF q, V
  <2> QED
    BY <2>1, <2>2, <2>3 DEF Begun, Readings
<1>2. \A u \in States(q), i \in 1..n : ReadAuxiliaryData(u, r.val[i]).val \in V
  OBVIOUS
<1> HIDE DEF V, q
<1>3. \A i \in 1..n : \A p \in X : ReadOne(p, r.val[i], i) \in X
  <2> SUFFICES ASSUME NEW i \in 1..n, NEW p \in X
               PROVE  ReadOne(p, r.val[i], i) \in X
    OBVIOUS
  <2>1. CASE p.ok
    <3>1. p.s \in States(q)
      BY DEF Readings
    <3>2. ReadAuxiliaryData(p.s, r.val[i]).val \in V
      BY <1>2, <3>1
    <3>3. IsCell(r.val[i]) /\ i \in Nat
      OBVIOUS
    <3>4. ModuleAdded(p, ReadAuxiliaryData(p.s, r.val[i]), i) \in X
      BY <1>0, <2>1, <3>2, <3>3, OneModule
    <3> QED
      BY <2>1, <3>4 DEF ReadOne
  <2>2. CASE ~p.ok
    BY <2>2 DEF ReadOne
  <2> QED
    BY <2>1, <2>2
<1> HIDE DEF X, x0
<1>4. \A i \in 1..n : \A p \in X : step[i][p] = ReadOne(p, r.val[i], i)
  OBVIOUS
<1>5. \A i \in 1..n : \A p \in X : step[i][p] \in X
  BY <1>3, <1>4
<1> HIDE DEF step
<1>6. DOMAIN seq = 1..n /\ \A i \in 1..n : seq[i] = i
  OBVIOUS
<1> HIDE DEF seq
<1> DEFINE Body(g, s) == IF g[s \ {Max(s)}].ok
                         THEN ModuleAdded(g[s \ {Max(s)}], ReadAuxiliaryData(g[s \ {Max(s)}].s, r.val[seq[Max(s)]]), seq[Max(s)])
                         ELSE g[s \ {Max(s)}]
<1>7. \A g : \A s \in SUBSET (1..n) : s # {} => Body(g, s) = ReadOne(g[s \ {Max(s)}], r.val[Max(s)], Max(s))
  <2> SUFFICES ASSUME NEW g, NEW s \in SUBSET (1..n), s # {}
               PROVE  Body(g, s) = ReadOne(g[s \ {Max(s)}], r.val[Max(s)], Max(s))
    OBVIOUS
  <2>1. Max(s) \in 1..n
    BY MaxUpTo
  <2>2. seq[Max(s)] = Max(s)
    BY <1>6, <2>1
  <2> QED
    BY <2>2 DEF ReadOne
<1>8. \A g : \A s \in SUBSET (1..n) : s # {} /\ g[s \ {Max(s)}] \in X => Body(g, s) = step[Max(s)][g[s \ {Max(s)}]]
  <2> SUFFICES ASSUME NEW g, NEW s \in SUBSET (1..n), s # {}, g[s \ {Max(s)}] \in X
               PROVE  Body(g, s) = step[Max(s)][g[s \ {Max(s)}]]
    OBVIOUS
  <2>1. Max(s) \in 1..n
    BY MaxUpTo
  <2> HIDE DEF Body
  <2> QED
    BY <1>4, <1>7, <2>1
<1>9. it = [s \in SUBSET (1..n) |-> IF s = {} THEN x0 ELSE Body(it, s)]
  <2>1. PICK g : IsFold(g, n, X, x0, step)
    BY <1>1, <1>5, FoldExists
  <2>2. g \in [SUBSET (1..n) -> X] /\ \A s \in SUBSET (1..n) : g[s] = IF s = {} THEN x0 ELSE step[Max(s)][g[s \ {Max(s)}]]
    BY <2>1 DEF IsFold
  <2>3. \A s \in SUBSET (1..n) : s # {} => g[s \ {Max(s)}] \in X
    BY <2>2
  <2>4. \A s \in SUBSET (1..n) : g[s] = IF s = {} THEN x0 ELSE Body(g, s)
    BY <1>8, <2>2, <2>3
  <2>5. g = [s \in SUBSET (1..n) |-> g[s]]
    BY <2>2
  <2> HIDE DEF Body
  <2>6. g = [s \in SUBSET (1..n) |-> IF s = {} THEN x0 ELSE Body(g, s)]
    BY <2>4, <2>5
  <2> USE DEF Body
  <2> QED
    BY <2>6, Zenon
<1>10. ModulesPlaced(r) = ModulesKept(it[1..n])
  <2>1. FoldLeft(LAMBDA p, i : IF p.ok THEN ModuleAdded(p, ReadAuxiliaryData(p.s, r.val[i]), i) ELSE p, x0, seq) = it[1..n]
    BY <1>6, Zenon DEF FoldLeft, MapThenFoldSet
  <2> HIDE DEF it
  <2> QED
    BY <2>1, Zenon DEF ModulesPlaced, x0, Begun, seq
<1> HIDE DEF it
<1>11. it[{}] = x0
  BY <1>9
<1>12. \A s \in SUBSET (1..n) : s # {} /\ it[s \ {Max(s)}] \in X => it[s] = step[Max(s)][it[s \ {Max(s)}]]
  <2>1. \A s \in SUBSET (1..n) : it[s] = IF s = {} THEN x0 ELSE Body(it, s)
    <3> HIDE DEF Body
    <3> QED
      BY <1>9
  <2> HIDE DEF Body
  <2> QED
    BY <1>8, <2>1
<1> HIDE DEF Body
<1>13. PICK f : Steps(f, n, X, x0, step) /\ f[n] = it[1..n]
  <2>1. FoldsBy(it, n, X, x0, step)
    BY <1>11, <1>12 DEF FoldsBy
  <2> QED
    <3>1. \E f : StepsTo(it[1..n], f, n, X, x0, step)
      BY <1>1, <1>5, <2>1, FoldSteps
    <3> QED
      BY <3>1 DEF StepsTo
<1>14. f[0] = x0 /\ (\A i \in 0..n : f[i] \in X) /\ \A i \in 1..n : f[i] = step[i][f[i - 1]]
  BY <1>13 DEF Steps
<1>15. \A i \in 1..n : f[i - 1] \in X /\ f[i] = ReadOne(f[i - 1], r.val[i], i)
  <2>1. \A i \in 1..n : i - 1 \in 0..n
    OBVIOUS
  <2> QED
    BY <1>4, <1>14, <2>1
<1>16. \A i \in 1..n : ReadAuxiliaryData(f[i - 1].s, r.val[i]).val \in V
  <2>1. \A i \in 1..n : f[i - 1].s \in States(q)
    BY <1>15 DEF X, Readings
  <2> QED
    BY <1>2, <2>1
<1>17. \A i \in 0..n : f[i] \in Readings(r.s.streams, V)
  BY <1>14 DEF X, q
<1> QED
  BY <1>10, <1>13, <1>14, <1>15, <1>16, <1>17 DEF x0
\* v is a list of n modules, which the cells describe, and the map has come
\* from placing one after the other.
ModulesRead(v, cells, n) ==
    /\ v = [items |-> v.items, map |-> v.map]
    /\ v.items = [i \in 1..n |-> v.items[i]]
    /\ \A i \in 1..n : ModuleRead(v.items[i], cells[i])
    /\ \E h : Placing(h, v.items, n) /\ v.map = h[n].map

LEMMA ModulesGiven ==
    ASSUME FileOK, NEW r, IsState(r.s), r.val # NULL, NEW n \in Nat, DOMAIN r.val = 1..n,
           \A i \in 1..n : IsCell(r.val[i])
    PROVE  /\ Moved(r.s, ModulesPlaced(r).s)
           /\ ModulesPlaced(r).val # NULL => ModulesRead(ModulesPlaced(r).val, r.val, n)
<1>1. PICK f, V :
              /\ f[0] = Begun(r.s)
              /\ \A i \in 0..n : f[i] \in Readings(r.s.streams, V)
              /\ \A i \in 1..n : /\ f[i] = ReadOne(f[i - 1], r.val[i], i)
                                 /\ f[i - 1].ok => ReadAuxiliaryData(f[i - 1].s, r.val[i]).val \in V
              /\ ModulesPlaced(r) = ModulesKept(f[n])
  BY ModulesInSteps
<1>0. r.s.streams = [t \in StreamTypes |-> r.s.streams[t]]
  BY DEF IsState
<1> DEFINE Good(i) == f[i].ok =>
                         /\ Len(f[i].items) = i
                         /\ \A j \in 1..i : /\ ModuleRead(f[i].items[j], r.val[j])
                                            /\ Placed(f[j - 1], f[j], f[i].items[j], j)
           T == {i \in 0..n : Moved(r.s, f[i].s) /\ Good(i)}
<1>2. 0 \in T
  <2>1. f[0].s = r.s /\ f[0].items = <<>>
    BY <1>1 DEF Begun
  <2>2. Good(0)
    BY <2>1
  <2> QED
    BY <2>1, <2>2, MovedSelf
<1>3. \A i \in 0..(n - 1) : i \in T => i + 1 \in T
  <2> SUFFICES ASSUME NEW i \in 0..(n - 1), Moved(r.s, f[i].s), Good(i)
               PROVE  Moved(r.s, f[i + 1].s) /\ Good(i + 1)
    OBVIOUS
  <2>0. i + 1 \in 1..n /\ (i + 1) - 1 = i /\ i \in 0..n /\ i \in Nat
    OBVIOUS
  <2>1. f[i + 1] = ReadOne(f[i], r.val[i + 1], i + 1) /\ f[i] \in Readings(r.s.streams, V)
        /\ (f[i].ok => ReadAuxiliaryData(f[i].s, r.val[i + 1]).val \in V)
    BY <1>1, <2>0
  <2>2. CASE ~f[i].ok
    <3>1. f[i + 1] = f[i]
      BY <2>1, <2>2 DEF ReadOne
    <3> HIDE DEF Good
    <3>2. Good(i + 1)
      BY <2>2, <3>1 DEF Good
    <3> QED
      BY <3>1, <3>2
  <2>3. CASE f[i].ok
    <3> DEFINE a == ReadAuxiliaryData(f[i].s, r.val[i + 1])
    <3>1. f[i + 1] = ModuleAdded(f[i], a, i + 1)
      BY <2>1, <2>3 DEF ReadOne
    <3>2. IsCell(r.val[i + 1]) /\ i + 1 \in Nat
      BY <2>0
    <3>3. /\ f[i + 1] \in Readings(r.s.streams, V)
          /\ Moved(f[i].s, f[i + 1].s)
          /\ f[i + 1].ok => /\ f[i + 1].items = Append(f[i].items, a.val)
                            /\ ModuleRead(a.val, r.val[i + 1])
                            /\ Placed(f[i], f[i + 1], a.val, i + 1)
      BY <1>0, <2>1, <2>3, <3>1, <3>2, OneModule, SMTT(30)
    <3>4. a.val \in V /\ f[i].items \in Seq(V)
      BY <2>1, <2>3 DEF Readings
    <3> HIDE DEF a
    <3>5. Moved(r.s, f[i + 1].s)
      BY <3>3, MovedTwice
    <3>6. ASSUME f[i + 1].ok
          PROVE  /\ Len(f[i + 1].items) = i + 1
                 /\ \A j \in 1..(i + 1) : /\ ModuleRead(f[i + 1].items[j], r.val[j])
                                          /\ Placed(f[j - 1], f[j], f[i + 1].items[j], j)
      <4>1. Len(f[i].items) = i /\ \A j \in 1..i : /\ ModuleRead(f[i].items[j], r.val[j])
                                                   /\ Placed(f[j - 1], f[j], f[i].items[j], j)
        BY <2>3
      <4>2. f[i + 1].items = Append(f[i].items, a.val)
        BY <3>3, <3>6
      <4>3. /\ Len(f[i + 1].items) = i + 1
            /\ f[i + 1].items[i + 1] = a.val
            /\ \A j \in 1..i : f[i + 1].items[j] = f[i].items[j]
        BY <2>0, <3>4, <4>1, <4>2
      <4>4. \A j \in 1..(i + 1) : j \in 1..i \/ j = i + 1
        BY <2>0
      <4>5. ModuleRead(a.val, r.val[i + 1]) /\ Placed(f[(i + 1) - 1], f[i + 1], a.val, i + 1)
        BY <2>0, <3>3, <3>6
      <4> QED
        BY <4>1, <4>3, <4>4, <4>5
    <3> QED
      BY <3>5, <3>6
  <2> QED
    BY <2>2, <2>3
<1>4. n \in T
  <2> HIDE DEF T
  <2>1. \A i \in 0..n : i \in T
    BY <1>2, <1>3, Induct
  <2> QED
    BY <2>1
<1>5. Moved(r.s, f[n].s) /\ Good(n)
  BY <1>4
<1> HIDE DEF T
<1>6. /\ ModulesPlaced(r).s = f[n].s
      /\ ModulesPlaced(r).val = IF f[n].ok THEN [items |-> f[n].items, map |-> f[n].map] ELSE NULL
  BY <1>1 DEF ModulesKept, Result
<1>7. ASSUME f[n].ok
      PROVE  ModulesRead([items |-> f[n].items, map |-> f[n].map], r.val, n)
  <2> DEFINE v == [items |-> f[n].items, map |-> f[n].map]
  <2>1. v.items = f[n].items /\ v.map = f[n].map
    OBVIOUS
  <2>2. /\ Len(f[n].items) = n
        /\ \A j \in 1..n : /\ ModuleRead(f[n].items[j], r.val[j])
                           /\ Placed(f[j - 1], f[j], f[n].items[j], j)
    BY <1>5, <1>7
  <2>3. f[n].items \in Seq(V)
    BY <1>1 DEF Readings
  <2>4. f[n].items = [i \in 1..n |-> f[n].items[i]]
    BY <2>2, <2>3, SMTT(30)
  <2>5. f[0].map = {} /\ f[0].last = 0
    BY <1>1 DEF Begun
  <2>6. Placing(f, f[n].items, n)
    BY <2>2, <2>5 DEF Placing
  <2> HIDE DEF v
  <2>7. v = [items |-> v.items, map |-> v.map]
    BY <2>1 DEF v
  <2> QED
    BY <2>1, <2>2, <2>4, <2>6, <2>7 DEF ModulesRead, v
<1> QED
  BY <1>5, <1>6, <1>7

\* The list of the modules that n cells describe, if there is one: each has a
\* name and finds its place, and only the last one may let reading fail.
Modules(cells, n) == [i \in 1..n |-> ModuleVal(cells[i])]

TakesAll(cells, n) ==
    /\ \A i \in 1..n : ModuleVal(cells[i]) # NULL
    /\ \A i \in 1..(n - 1) : ~Breaking(cells[i])
    /\ \E h : Placing(h, Modules(cells, n), n)

PlacedMap(items, n) == (CHOOSE h : Placing(h, items, n))[n].map

CellsVal(cells, n) ==
    IF TakesAll(cells, n) THEN [items |-> Modules(cells, n), map |-> PlacedMap(Modules(cells, n), n)] ELSE NULL

\* The modules up to the i-th have been read.
ReadUpTo(f, cells, i) ==
    /\ f[i].ok =>
          /\ Len(f[i].items) = i
          /\ \A j \in 1..i : /\ f[i].items[j] = ModuleVal(cells[j]) /\ ModuleVal(cells[j]) # NULL
                             /\ Placed(f[j - 1], f[j], ModuleVal(cells[j]), j)
                             /\ j < i => ~Breaking(cells[j])
          /\ f[i].s.bad <=> i > 0 /\ Breaking(cells[i])

LEMMA OneMoreItem ==
    ASSUME NEW V, NEW q \in Seq(V), NEW x \in V
    PROVE  /\ Append(q, x) \in Seq(V) /\ Len(Append(q, x)) = Len(q) + 1
           /\ Append(q, x)[Len(q) + 1] = x
           /\ \A j \in 1..Len(q) : Append(q, x)[j] = q[j]
OBVIOUS

LEMMA ModulesExact ==
    ASSUME FileOK, NEW r, IsState(r.s), ~r.s.bad, r.val # NULL, NEW n \in Nat, DOMAIN r.val = 1..n,
           \A i \in 1..n : IsCell(r.val[i])
    PROVE  ModulesPlaced(r).val = CellsVal(r.val, n)
<1>1. PICK f, V :
              /\ f[0] = Begun(r.s)
              /\ \A i \in 0..n : f[i] \in Readings(r.s.streams, V)
              /\ \A i \in 1..n : /\ f[i] = ReadOne(f[i - 1], r.val[i], i)
                                 /\ f[i - 1].ok => ReadAuxiliaryData(f[i - 1].s, r.val[i]).val \in V
              /\ ModulesPlaced(r) = ModulesKept(f[n])
  BY ModulesInSteps
<1>2. r.s.streams = [t \in StreamTypes |-> r.s.streams[t]]
  BY DEF IsState
<1>3. f[0].s = r.s /\ f[0].items = <<>> /\ f[0].map = {} /\ f[0].last = 0 /\ f[0].ok
  BY <1>1 DEF Begun
\* One step.
<1>4. ASSUME NEW i \in 0..(n - 1), f[i].ok
      PROVE  /\ i + 1 \in 1..n /\ (i + 1) - 1 = i
             /\ f[i + 1].ok => /\ f[i + 1].items = Append(f[i].items, ModuleVal(r.val[i + 1]))
                               /\ Placed(f[i], f[i + 1], ModuleVal(r.val[i + 1]), i + 1)
                               /\ ~f[i].s.bad /\ ModuleVal(r.val[i + 1]) # NULL
                               /\ f[i + 1].s.bad <=> Breaking(r.val[i + 1])
             /\ ~f[i].s.bad /\ ModuleVal(r.val[i + 1]) # NULL /\ ~f[i + 1].ok
                   => \A u : ~Placed(f[i], u, ModuleVal(r.val[i + 1]), i + 1)
             /\ f[i].items \in Seq(V) /\ (f[i + 1].ok => ModuleVal(r.val[i + 1]) \in V)
  <2>1. i + 1 \in 1..n /\ (i + 1) - 1 = i /\ i \in 0..n /\ i + 1 \in Nat
    OBVIOUS
  <2>2. /\ f[i] \in Readings(r.s.streams, V) /\ f[i + 1] = ReadOne(f[i], r.val[i + 1], i + 1)
        /\ ReadAuxiliaryData(f[i].s, r.val[i + 1]).val \in V
    BY <1>1, <1>4, <2>1
  <2> DEFINE a == ReadAuxiliaryData(f[i].s, r.val[i + 1])
  <2>3. f[i + 1] = ModuleAdded(f[i], a, i + 1)
    BY <1>4, <2>2 DEF ReadOne
  <2>4. IsCell(r.val[i + 1])
    BY <2>1
  <2>5. /\ f[i + 1].ok => /\ f[i + 1].items = Append(f[i].items, a.val)
                          /\ Placed(f[i], f[i + 1], a.val, i + 1)
                          /\ ~f[i].s.bad /\ a.val = ModuleVal(r.val[i + 1]) /\ ModuleVal(r.val[i + 1]) # NULL
                          /\ f[i + 1].s.bad <=> Breaking(r.val[i + 1])
        /\ ~f[i].s.bad /\ ModuleVal(r.val[i + 1]) # NULL /\ ~f[i + 1].ok
              => \A u : ~Placed(f[i], u, ModuleVal(r.val[i + 1]), i + 1)
    <3>1. PICK p, m, k : p = f[i] /\ m = r.val[i + 1] /\ k = i + 1
      OBVIOUS
    <3>2. PICK w : w = f[i + 1]
      OBVIOUS
    <3>3. /\ p \in Readings(r.s.streams, V) /\ p.ok /\ IsCell(m) /\ k \in Nat
          /\ ReadAuxiliaryData(p.s, m).val \in V
          /\ w = ModuleAdded(p, ReadAuxiliaryData(p.s, m), k)
      BY <1>4, <2>1, <2>2, <2>3, <2>4, <3>1, <3>2
    <3>4. a = ReadAuxiliaryData(p.s, m)
      BY <3>1
    <3> HIDE DEF a
    <3>5. /\ w.ok => /\ w.items = Append(p.items, a.val)
                     /\ Placed(p, w, a.val, k)
                     /\ ~p.s.bad /\ a.val = ModuleVal(m) /\ ModuleVal(m) # NULL
                     /\ w.s.bad <=> Breaking(m)
          /\ ~p.s.bad /\ ModuleVal(m) # NULL /\ ~w.ok => \A u : ~Placed(p, u, ModuleVal(m), k)
      BY <1>2, <3>3, <3>4, OneModule
    <3> QED
      BY <3>1, <3>2, <3>5
  <2>6. f[i].items \in Seq(V)
    BY <2>2 DEF Readings
  <2> QED
    BY <2>1, <2>2, <2>5, <2>6
<1> DEFINE T == {i \in 0..n : ReadUpTo(f, r.val, i)}
<1>5. 0 \in T
  <2>1. ReadUpTo(f, r.val, 0)
    BY <1>3 DEF ReadUpTo
  <2> QED
    BY <2>1
<1>6. \A i \in 0..(n - 1) : i \in T => i + 1 \in T
  <2> SUFFICES ASSUME NEW i \in 0..(n - 1), ReadUpTo(f, r.val, i)
               PROVE  ReadUpTo(f, r.val, i + 1)
    OBVIOUS
  <2>0. i + 1 \in 1..n /\ (i + 1) - 1 = i /\ i \in 0..n /\ i \in Nat
    OBVIOUS
  <2>1. CASE ~f[i].ok
    <3>1. f[i + 1] = f[i]
      BY <1>1, <2>0, <2>1 DEF ReadOne
    <3> QED
      BY <2>1, <3>1 DEF ReadUpTo
  <2>2. CASE f[i].ok /\ f[i + 1].ok
    <3>1. /\ f[i + 1].items = Append(f[i].items, ModuleVal(r.val[i + 1]))
          /\ Placed(f[i], f[i + 1], ModuleVal(r.val[i + 1]), i + 1)
          /\ ~f[i].s.bad /\ ModuleVal(r.val[i + 1]) # NULL
          /\ f[i + 1].s.bad <=> Breaking(r.val[i + 1])
          /\ f[i].items \in Seq(V) /\ ModuleVal(r.val[i + 1]) \in V
      BY <1>4, <2>2
    <3>2. /\ Len(f[i].items) = i
          /\ \A j \in 1..i : /\ f[i].items[j] = ModuleVal(r.val[j]) /\ ModuleVal(r.val[j]) # NULL
                             /\ Placed(f[j - 1], f[j], ModuleVal(r.val[j]), j)
                             /\ j < i => ~Breaking(r.val[j])
          /\ f[i].s.bad <=> i > 0 /\ Breaking(r.val[i])
      BY <2>2 DEF ReadUpTo
    <3>3. /\ Len(f[i + 1].items) = i + 1
          /\ f[i + 1].items[i + 1] = ModuleVal(r.val[i + 1])
          /\ \A j \in 1..i : f[i + 1].items[j] = f[i].items[j]
      <4>1. PICK q \in Seq(V) : q = f[i].items /\ Len(q) = i
        BY <3>1, <3>2
      <4>2. PICK x \in V : x = ModuleVal(r.val[i + 1])
        BY <3>1
      <4>3. f[i + 1].items = Append(q, x)
        BY <3>1, <4>1, <4>2
      <4> QED
        BY <4>1, <4>2, <4>3, OneMoreItem
    <3>4. \A j \in 1..i : ~Breaking(r.val[j])
      <4> SUFFICES ASSUME NEW j \in 1..i PROVE ~Breaking(r.val[j])
        OBVIOUS
      <4>1. j < i \/ (j = i /\ i > 0)
        BY <2>0
      <4> QED
        BY <3>1, <3>2, <4>1
    <3>5. \A j \in 1..(i + 1) : j \in 1..i \/ (j = i + 1 /\ ~(j < i + 1) /\ j - 1 = i)
      BY <2>0
    <3>6. i + 1 > 0
      BY <2>0
    <3> QED
      BY <3>1, <3>2, <3>3, <3>4, <3>5, <3>6 DEF ReadUpTo
  <2>3. CASE ~f[i + 1].ok
    BY <2>3 DEF ReadUpTo
  <2> QED
    BY <2>1, <2>2, <2>3
<1>7. ReadUpTo(f, r.val, n)
  <2> HIDE DEF T
  <2>1. \A i \in 0..n : i \in T
    BY <1>5, <1>6, Induct
  <2>2. n \in T
    BY <2>1
  <2> QED
    BY <2>2 DEF T
<1> HIDE DEF T
\* What can be placed is placed alike.
<1>8. ASSUME NEW h, Placing(h, Modules(r.val, n), n),
             \A i \in 1..n : ModuleVal(r.val[i]) # NULL, \A i \in 1..(n - 1) : ~Breaking(r.val[i])
      PROVE  f[n].ok /\ f[n].map = h[n].map
  <2> DEFINE S == {i \in 0..n : f[i].ok /\ f[i].map = h[i].map /\ f[i].last = h[i].last
                                /\ (i < n => ~f[i].s.bad)}
  <2>1. 0 \in S
    BY <1>3, <1>8 DEF Placing
  <2>2. \A i \in 0..(n - 1) : i \in S => i + 1 \in S
    <3> SUFFICES ASSUME NEW i \in 0..(n - 1), f[i].ok, f[i].map = h[i].map, f[i].last = h[i].last, i < n => ~f[i].s.bad
                 PROVE  /\ f[i + 1].ok /\ f[i + 1].map = h[i + 1].map /\ f[i + 1].last = h[i + 1].last
                        /\ i + 1 < n => ~f[i + 1].s.bad
      OBVIOUS
    <3>1. i + 1 \in 1..n /\ (i + 1) - 1 = i /\ i < n /\ (i + 1 < n => i + 1 \in 1..(n - 1))
      OBVIOUS
    <3>2. Placed(h[i], h[i + 1], ModuleVal(r.val[i + 1]), i + 1)
      <4>1. Placed(h[(i + 1) - 1], h[i + 1], Modules(r.val, n)[i + 1], i + 1)
        BY <1>8, <3>1 DEF Placing
      <4>2. Modules(r.val, n)[i + 1] = ModuleVal(r.val[i + 1])
        BY <3>1 DEF Modules
      <4> QED
        BY <3>1, <4>1, <4>2
    <3>3. Placed(f[i], h[i + 1], ModuleVal(r.val[i + 1]), i + 1)
      BY <3>2 DEF Placed
    <3>4. f[i + 1].ok
      BY <1>4, <1>8, <3>1, <3>3
    <3>5. Placed(f[i], f[i + 1], ModuleVal(r.val[i + 1]), i + 1) /\ (f[i + 1].s.bad <=> Breaking(r.val[i + 1]))
      BY <1>4, <3>4
    <3> QED
      BY <1>8, <3>1, <3>3, <3>4, <3>5, PlacedAlike
  <2> HIDE DEF S
  <2>3. \A i \in 0..n : i \in S
    BY <2>1, <2>2, Induct
  <2>4. n \in S
    BY <2>3
  <2> QED
    BY <2>4 DEF S
<1>9. ModulesPlaced(r).val = IF f[n].ok THEN [items |-> f[n].items, map |-> f[n].map] ELSE NULL
  BY <1>1 DEF ModulesKept, Result
<1>10. CASE f[n].ok
  <2>1. /\ Len(f[n].items) = n
        /\ \A j \in 1..n : /\ f[n].items[j] = ModuleVal(r.val[j]) /\ ModuleVal(r.val[j]) # NULL
                           /\ Placed(f[j - 1], f[j], ModuleVal(r.val[j]), j)
                           /\ j < n => ~Breaking(r.val[j])
    BY <1>7, <1>10 DEF ReadUpTo
  <2>2. f[n].items = Modules(r.val, n)
    <3>1. f[n].items \in Seq(V)
      BY <1>1 DEF Readings
    <3>2. f[n].items = [i \in 1..n |-> f[n].items[i]]
      BY <2>1, <3>1
    <3> QED
      BY <2>1, <3>2 DEF Modules
  <2>3. Placing(f, Modules(r.val, n), n)
    <3>1. \A j \in 1..n : Modules(r.val, n)[j] = ModuleVal(r.val[j])
      BY DEF Modules
    <3> QED
      BY <1>3, <2>1, <3>1 DEF Placing
  <2>4. \A j \in 1..(n - 1) : ~Breaking(r.val[j])
    <3>1. \A j \in 1..(n - 1) : j \in 1..n /\ j < n
      OBVIOUS
    <3> QED
      BY <2>1, <3>1
  <2>5. TakesAll(r.val, n)
    BY <2>1, <2>3, <2>4 DEF TakesAll
  <2> DEFINE h == CHOOSE h : Placing(h, Modules(r.val, n), n)
  <2>6. Placing(h, Modules(r.val, n), n)
    BY <2>3
  <2>7. PlacedMap(Modules(r.val, n), n) = h[n].map
    BY DEF PlacedMap
  <2> HIDE DEF h
  <2>8. f[n].map = h[n].map
    BY <1>8, <2>1, <2>4, <2>6
  <2> QED
    BY <1>9, <1>10, <2>2, <2>5, <2>7, <2>8 DEF CellsVal
<1>11. CASE ~f[n].ok
  <2>1. ~TakesAll(r.val, n)
    BY <1>8, <1>11 DEF TakesAll
  <2> QED
    BY <1>9, <1>11, <2>1 DEF CellsVal
<1> QED
  BY <1>10, <1>11

\* What is asked of a module before it is one of the list.
Sound(m) == Get(m, "size") # 0 /\ FitsIn(Get(m, "base"), Get(m, "size"))

ModuleListVal(at, size) ==
    IF /\ Listed(at, size) /\ at + size <= len
       /\ \A i \in 1..CountOf(at) : Sound(ItemCells(at, size)[i])
       /\ ItemCells(at, size) # NULL
    THEN CellsVal(ItemCells(at, size), CountOf(at)) ELSE NULL

LEMMA ModuleListReads ==
    ASSUME FileOK, NEW s, IsState(s), NEW size \in Nat
    PROVE  /\ Moved(s, ModuleListRead(s, size).s)
           /\ ~s.bad /\ ModuleListRead(s, size).val # NULL =>
                 /\ ModulesRead(ModuleListRead(s, size).val, ItemCells(s.pos, size), CountOf(s.pos))
                 /\ \A i \in 1..CountOf(s.pos) : Sound(ItemCells(s.pos, size)[i])
           /\ ~s.bad => ModuleListRead(s, size).val = ModuleListVal(s.pos, size)
<1> DEFINE c == CountRead(s, size)
           at == s.pos
           refused == {i \in 1..c.n : Get(Ahead(c.s, i), "size") = 0
                                      \/ ~FitsIn(Get(Ahead(c.s, i), "base"), Get(Ahead(c.s, i), "size"))}
           r == ItemsRead(c, refused)
           g == ModulesPlaced(r)
<1>0. at \in Nat /\ len \in Int
  BY LenIsNat DEF IsState
<1>1. /\ Moved(s, c.s) /\ c.n \in Nat /\ c.ok \in BOOLEAN
      /\ c.ok => ~s.bad /\ ~c.s.bad /\ Listed(at, size) /\ c.n = CountOf(at) /\ c.s.pos = at + size - CountOf(at)
      /\ ~s.bad /\ Listed(at, size) /\ at + size <= len => c.ok
  BY CountReads
<1>2. ModuleListRead(s, size) = g
  BY DEF ModuleListRead, ModulesCounted
<1> HIDE DEF c
<1>3. refused \in SUBSET (1..c.n)
  OBVIOUS
<1>4. refused = {} <=> \A i \in 1..c.n : Sound(Ahead(c.s, i))
  BY DEF Sound
<1> HIDE DEF refused
<1>5. /\ Moved(c.s, r.s)
      /\ r.val = IF c.ok /\ refused = {} /\ c.s.pos + c.n <= len THEN Block(c.s.pos, c.n) ELSE NULL
      /\ r.val # NULL => ~r.s.bad
  BY <1>1, <1>3, ItemsReads DEF Moved
<1> HIDE DEF r
<1>6. Moved(s, r.s)
  BY <1>1, <1>5, MovedTwice
<1>a. c.ok => /\ CountOf(at) \in Nat /\ c.n = CountOf(at)
              /\ \A i \in 1..CountOf(at) : Ahead(c.s, i) = ItemCells(at, size)[i]
              /\ Block(c.s.pos, c.n) = ItemCells(at, size)
              /\ c.s.pos + c.n <= len <=> at + size <= len
  <2> SUFFICES ASSUME c.ok
               PROVE  /\ CountOf(at) \in Nat /\ c.n = CountOf(at)
                      /\ \A i \in 1..CountOf(at) : Ahead(c.s, i) = ItemCells(at, size)[i]
                      /\ Block(c.s.pos, c.n) = ItemCells(at, size)
                      /\ c.s.pos + c.n <= len <=> at + size <= len
    OBVIOUS
  <2>1. /\ CountOf(at) \in Nat
        /\ \A i \in 1..CountOf(at) : Ahead(c.s, i) = ItemCells(at, size)[i]
        /\ Block(c.s.pos, CountOf(at)) = ItemCells(at, size)
    BY <1>0, <1>1, ItemsAhead
  <2> QED
    BY <1>0, <1>1, <2>1
<1>7. CASE r.val = NULL
  <2>1. g = r
    BY <1>7 DEF ModulesPlaced
  <2>2. ~s.bad => ModuleListVal(at, size) = NULL
    BY <1>1, <1>4, <1>5, <1>7, <1>a DEF ModuleListVal
  <2> HIDE DEF g
  <2> QED
    BY <1>2, <1>6, <1>7, <2>1, <2>2
<1>8. CASE r.val # NULL
  <2>1. c.ok /\ refused = {} /\ r.val = Block(c.s.pos, c.n)
    BY <1>5, <1>8
  <2>2. /\ CountOf(at) \in Nat
        /\ \A i \in 1..CountOf(at) : Ahead(c.s, i) = ItemCells(at, size)[i]
        /\ Block(c.s.pos, c.n) = ItemCells(at, size)
    BY <1>0, <1>1, <2>1, ItemsAhead, SMTT(30)
  <2>3. DOMAIN r.val = 1..CountOf(at) /\ \A i \in 1..CountOf(at) : IsCell(r.val[i])
    <3>1. c.s.pos \in Int /\ c.n \in Nat
      BY <1>0, <1>1, <2>1, <2>2
    <3> QED
      BY <1>1, <2>1, <3>1, BlockCells, ZenonT(30)
  <2>a. IsState(r.s)
    BY <1>6 DEF Moved
  <2>4. /\ Moved(r.s, g.s)
        /\ g.val # NULL => ModulesRead(g.val, r.val, CountOf(at))
    BY <1>8, <2>2, <2>3, <2>a, ModulesGiven
  <2>5. \A i \in 1..CountOf(at) : Sound(ItemCells(at, size)[i])
    BY <1>1, <1>4, <2>1, <2>2
  <2>6. r.val = ItemCells(at, size)
    BY <2>1, <2>2
  <2>8. g.val = CellsVal(r.val, CountOf(at))
    BY <1>5, <1>6, <1>8, <2>2, <2>3, ModulesExact DEF Moved
  <2>9. g.val = ModuleListVal(at, size)
    <3>1. Listed(at, size) /\ at + size <= len
      BY <1>1, <1>5, <1>8, <1>a, <2>1
    <3> QED
      BY <1>8, <2>5, <2>6, <2>8, <3>1 DEF ModuleListVal
  <2> HIDE DEF g
  <2>7. Moved(s, g.s)
    BY <1>6, <2>4, MovedTwice
  <2> QED
    BY <1>2, <2>4, <2>5, <2>6, <2>7, <2>9
<1> QED
  BY <1>7, <1>8
---------------------------------------------------------------------------
(* What is in the file does not change as long as the file does not.       *)

SameFile == dump' = dump /\ len' = len

SameDirectory == SameFile /\ valid' = valid /\ directory' = directory

LEMMA SameCells ==
    ASSUME SameFile, NEW o, NEW n
    PROVE  /\ CellAt(o)' = CellAt(o) /\ Block(o, n)' = Block(o, n)
           /\ CountOf(o)' = CountOf(o) /\ ItemCells(o, n)' = ItemCells(o, n)
<1>1. \A x : CellAt(x)' = CellAt(x)
  BY DEF SameFile, CellAt
<1>2. \A x, k : Block(x, k)' = Block(x, k)
  BY <1>1 DEF Block
<1>3. \A x : CountOf(x)' = CountOf(x)
  BY <1>1 DEF CountOf
<1>4. ItemCells(o, n)' = ItemCells(o, n)
  BY <1>2, <1>3 DEF ItemCells
<1> QED
  BY <1>1, <1>2, <1>3, <1>4

LEMMA SameStreams ==
    ASSUME SameDirectory, NEW t
    PROVE  /\ InDirectory(t)' <=> InDirectory(t)
           /\ Place(t)' = Place(t) /\ SizeOf(t)' = SizeOf(t)
           /\ StreamVal(t)' = StreamVal(t)
<1> SUFFICES ASSUME SameFile, valid' = valid, directory' = directory
             PROVE  /\ InDirectory(t)' <=> InDirectory(t)
                    /\ Place(t)' = Place(t) /\ SizeOf(t)' = SizeOf(t)
                    /\ StreamVal(t)' = StreamVal(t)
  BY DEF SameDirectory
<1>1. (InDirectory(t)' <=> InDirectory(t)) /\ Place(t)' = Place(t) /\ SizeOf(t)' = SizeOf(t)
  BY DEF InDirectory, Place, SizeOf
<1>2. \A o, n : /\ CellAt(o)' = CellAt(o) /\ Block(o, n)' = Block(o, n)
                /\ CountOf(o)' = CountOf(o) /\ ItemCells(o, n)' = ItemCells(o, n)
  BY SameCells
<1>3. len' = len
  BY DEF SameFile
<1>4. \A at, size : FixedVal(at, size)' = FixedVal(at, size)
  BY <1>2, <1>3 DEF FixedVal
<1>5. \A at, size : MiscInfoVal(at, size)' = MiscInfoVal(at, size)
  BY <1>2, <1>3 DEF MiscInfoVal
<1>6. \A at, size : ThreadListVal(at, size)' = ThreadListVal(at, size)
  BY <1>2, <1>3 DEF ThreadListVal, Listed
<1>7. \A at, size : MemoryListVal(at, size)' = MemoryListVal(at, size)
  BY <1>2, <1>3 DEF MemoryListVal, Listed
<1>8. \A at, size : MemoryInfoListVal(at, size)' = MemoryInfoListVal(at, size)
  BY <1>2, <1>3 DEF MemoryInfoListVal
<1>9. \A at, size : LinuxMapsVal(at, size)' = LinuxMapsVal(at, size)
  BY <1>2, <1>3 DEF LinuxMapsVal
<1>10. StreamVal(t)' = StreamVal(t)
  BY <1>1, <1>4, <1>5, <1>6, <1>7, <1>8, <1>9 DEF StreamVal
<1> QED
  BY <1>1, <1>10

LEMMA SameModules ==
    ASSUME SameFile, NEW at, NEW size
    PROVE  ModuleListVal(at, size)' = ModuleListVal(at, size)
<1>1. /\ \A o : CellAt(o)' = CellAt(o) /\ CountOf(o)' = CountOf(o)
      /\ \A o, n : Block(o, n)' = Block(o, n) /\ ItemCells(o, n)' = ItemCells(o, n)
  BY SameCells
<1>2. len' = len
  BY DEF SameFile
<1>3. \A l, f, v : RecordVal(l, f, v)' = RecordVal(l, f, v)
  BY <1>1, <1>2 DEF RecordVal
<1>4. \A l : Outside(l)' <=> Outside(l)
  BY <1>2 DEF Outside
<1>5. \A m : CVVal(m)' = CVVal(m)
  BY <1>3 DEF CVVal
<1>6. \A m : MiscVal(m)' = MiscVal(m)
  BY <1>3 DEF MiscVal
<1>7. \A m : NameVal(m)' = NameVal(m)
  BY <1>1, <1>2 DEF NameVal, StringVal
<1>8. \A m : ModuleVal(m)' = ModuleVal(m)
  BY <1>5, <1>6, <1>7 DEF ModuleVal
<1>9. \A m : Breaking(m)' <=> Breaking(m)
  BY <1>4, <1>5 DEF Breaking
<1>10. \A c, n : Modules(c, n)' = Modules(c, n)
  BY <1>8 DEF Modules
<1>11. \A c, n : TakesAll(c, n)' <=> TakesAll(c, n)
  BY <1>8, <1>9, <1>10 DEF TakesAll
<1>12. \A c, n : CellsVal(c, n)' = CellsVal(c, n)
  BY <1>10, <1>11 DEF CellsVal
<1> QED
  BY <1>1, <1>2, <1>12 DEF ModuleListVal, Listed

LEMMA SameParts ==
    ASSUME SameDirectory, NEW p, NEW v
    PROVE  PartVal(p, v)' = PartVal(p, v)
<1>0. SameFile /\ len' = len
  BY DEF SameDirectory, SameFile
<1>1. \A o, n : CellAt(o)' = CellAt(o) /\ Block(o, n)' = Block(o, n)
  BY <1>0, SameCells
<1>2. InfoVal' = InfoVal /\ (Breaks("SystemInfo")' <=> Breaks("SystemInfo"))
  BY <1>0, SameStreams DEF InfoVal, Breaks
<1>3. \A n : CPUVal(n)' = CPUVal(n)
  BY <1>2 DEF CPUVal
<1>4. \A rva, size : NamedVal(rva, size)' = NamedVal(rva, size)
  BY <1>1 DEF NamedVal
<1>5. \A rva, size : RegistersVal(rva, size)' = RegistersVal(rva, size)
  BY <1>1 DEF RegistersVal
<1>6. \A rva, size : ContextVal(rva, size)' = ContextVal(rva, size)
  BY <1>0, <1>2, <1>3, <1>4, <1>5 DEF ContextVal
<1>7. \A d : MemoryVal(d)' = MemoryVal(d)
  BY <1>0, <1>1 DEF MemoryVal
<1>8. \A o : StringVal(o)' = StringVal(o)
  <2> SUFFICES ASSUME NEW o
               PROVE  StringVal(o)' = StringVal(o)
    OBVIOUS
  <2>1. CellAt(o)' = CellAt(o)
    BY <1>1
  <2> QED
    BY <1>0, <2>1 DEF StringVal
<1> QED
  BY <1>6, <1>7, <1>8 DEF PartVal
---------------------------------------------------------------------------
(* The invariant: the directory, what is kept of the streams and what is    *)
(* kept of their parts are those of the file.                              *)

\* What the directory is once it has been read.
DirectoryVal == StreamMap(Block(Get(CellAt(0), "directory"), Get(CellAt(0), "n")))

\* No stream that may be there once only is there twice.
Once(entries) ==
    \A i, j \in DOMAIN entries :
       Get(entries[i], "type") = Get(entries[j], "type") /\ Get(entries[i], "type") \in SingleStreams => i = j

IsHeader(c) == Get(c, "signature") \in {"MDMP", "PMDM"} /\ Get(c, "version") = TRUE

\* Whether the file has a header and a directory that Read() takes.
Readable ==
    LET n == Get(CellAt(0), "n")
        o == Get(CellAt(0), "directory")
    IN  /\ 1 <= len /\ IsHeader(CellAt(0))
        /\ n = 0 \/ (n <= MaxItems /\ o + n <= len)
        /\ Once(Block(o, n))

\* The list of modules that the file has, and whether it has none that can be
\* read.
ListVal == ModuleListVal(Place("ModuleList"), SizeOf("ModuleList"))

Listless == ~InDirectory("ModuleList") \/ ListVal = NULL

\* v is the list of modules of the file.
ModulesOK(v) ==
    LET cells == ItemCells(Place("ModuleList"), SizeOf("ModuleList"))
        n == CountOf(Place("ModuleList"))
    IN  ~Listless /\ ModulesRead(v, cells, n) /\ \A i \in 1..n : Sound(cells[i])

KeepsModules(s) == s.streams["ModuleList"] # NULL => ModulesOK(s.streams["ModuleList"])

\* What lz keeps of the parts.
KeepsParts(s, lz) ==
    /\ lz = [p \in Parts |-> lz[p]]
    /\ \A p \in Parts : lz[p] # NULL =>
          /\ s.streams[Owner(p)] # NULL
          /\ InStream(p, s.streams[Owner(p)])
          /\ lz[p] = PartVal(p, s.streams[Owner(p)])

Holds(s, lz) == IsState(s) /\ Serves(s) /\ KeepsModules(s) /\ KeepsParts(s, lz)

IInv ==
    /\ FileOK
    /\ reads \in 0..MaxReads
    /\ valid \in BOOLEAN
    /\ directory = IF valid THEN DirectoryVal ELSE <<>>
    /\ valid => Readable
    /\ Holds(rd, lazy)

\* A map of cells is one of cells.
LEMMA MapOfCells ==
    ASSUME NEW n \in Nat, NEW e, DOMAIN e = 1..n, \A i \in 1..n : IsCell(e[i])
    PROVE  \A t \in DOMAIN StreamMap(e) : IsCell(StreamMap(e)[t])
<1> SUFFICES ASSUME NEW t \in DOMAIN StreamMap(e)
             PROVE  IsCell(StreamMap(e)[t])
  OBVIOUS
<1> DEFINE T == {i \in DOMAIN e : Get(e[i], "type") = t}
<1>1. T \in SUBSET (1..n) /\ T # {} /\ StreamMap(e)[t] = e[Max(T)]
  BY DEF StreamMap
<1> HIDE DEF T
<1>2. Max(T) \in 1..n
  BY <1>1, MaxUpTo
<1> QED
  BY <1>1, <1>2

LEMMA DirectoryFound ==
    ASSUME FileOK, valid \in BOOLEAN, directory = IF valid THEN DirectoryVal ELSE <<>>
    PROVE  DirectoryOK
<1>1. CASE valid
  <2>1. Get(CellAt(0), "directory") \in Int /\ Get(CellAt(0), "n") \in Nat
    BY CellAtIsCell DEF Unsigned
  <2> DEFINE e == Block(Get(CellAt(0), "directory"), Get(CellAt(0), "n"))
  <2>2. DOMAIN e = 1..Get(CellAt(0), "n") /\ \A i \in 1..Get(CellAt(0), "n") : IsCell(e[i])
    BY <2>1, BlockCells
  <2>3. directory = StreamMap(e)
    BY <1>1 DEF DirectoryVal
  <2> HIDE DEF e
  <2>4. \A t \in DOMAIN directory : IsCell(directory[t])
    BY <2>1, <2>2, <2>3, MapOfCells
  <2> QED
    BY <2>4 DEF DirectoryOK
<1>2. CASE ~valid
  <2>1. DOMAIN directory = {}
    BY <1>2
  <2> QED
    BY <2>1 DEF DirectoryOK
<1> QED
  BY <1>1, <1>2

LEMMA SameDirectoryVal == ASSUME SameFile PROVE DirectoryVal' = DirectoryVal /\ (Readable' <=> Readable)
<1>1. CellAt(0)' = CellAt(0) /\ \A o, n : Block(o, n)' = Block(o, n)
  BY SameCells
<1>2. Readable' <=> Readable
  BY <1>1 DEF Readable, SameFile
<1> QED
  BY <1>1, <1>2 DEF DirectoryVal

LEMMA SameListless ==
    ASSUME SameDirectory
    PROVE  Listless' <=> Listless
<1>1. /\ Place("ModuleList")' = Place("ModuleList") /\ SizeOf("ModuleList")' = SizeOf("ModuleList")
      /\ InDirectory("ModuleList")' <=> InDirectory("ModuleList")
  BY SameStreams
<1>2. \A at, size : ModuleListVal(at, size)' = ModuleListVal(at, size)
  BY SameModules DEF SameDirectory
<1>3. ListVal' = ListVal
  BY <1>1, <1>2 DEF ListVal
<1> QED
  BY <1>1, <1>3 DEF Listless

LEMMA SameHolds ==
    ASSUME SameDirectory, NEW s, NEW lz
    PROVE  Holds(s, lz)' <=> Holds(s, lz)
<1>1. Serves(s)' <=> Serves(s)
  <2>1. \A t : StreamVal(t)' = StreamVal(t)
    BY SameStreams
  <2> QED
    BY <2>1 DEF Serves
<1>2. KeepsModules(s)' <=> KeepsModules(s)
  <2>1. \A v : ModulesOK(v)' <=> ModulesOK(v)
    <3>1. \A v, c, n : ModulesRead(v, c, n)' <=> ModulesRead(v, c, n)
      <4>1. \A x, m : ModuleRead(x, m)' <=> ModuleRead(x, m)
        BY SameCells DEF SameDirectory, ModuleRead
      <4> QED
        BY <4>1 DEF ModulesRead
    <3>2. /\ Place("ModuleList")' = Place("ModuleList") /\ SizeOf("ModuleList")' = SizeOf("ModuleList")
          /\ InDirectory("ModuleList")' <=> InDirectory("ModuleList")
      BY SameStreams
    <3>3. \A o, n : CountOf(o)' = CountOf(o) /\ ItemCells(o, n)' = ItemCells(o, n)
      BY SameCells DEF SameDirectory
    <3>4. Listless' <=> Listless
      BY SameListless
    <3> QED
      BY <3>1, <3>2, <3>3, <3>4 DEF ModulesOK
  <2> QED
    BY <2>1 DEF KeepsModules
<1>3. KeepsParts(s, lz)' <=> KeepsParts(s, lz)
  <2>1. \A p, v : PartVal(p, v)' = PartVal(p, v)
    BY SameParts
  <2> QED
    BY <2>1 DEF KeepsParts
<1> QED
  BY <1>1, <1>2, <1>3 DEF Holds
LEMMA InvStarts == Init => IInv
<1> SUFFICES ASSUME Init
             PROVE  IInv
  OBVIOUS
<1>1. FileOK /\ reads \in 0..MaxReads /\ valid \in BOOLEAN /\ directory = IF valid THEN DirectoryVal ELSE <<>>
  <2>1. MaxReads \in Nat
    BY MinidumpAssumption
  <2>2. valid = FALSE /\ directory = <<>> /\ reads = 0
    BY DEF Init
  <2>3. FileOK
    BY DEF Init, FileOK
  <2>4. ~valid /\ valid \in BOOLEAN
    BY <2>2
  <2>5. directory = IF valid THEN DirectoryVal ELSE <<>>
    BY <2>2, <2>4
  <2>6. reads \in 0..MaxReads
    BY <2>1, <2>2
  <2> QED
    BY <2>3, <2>4, <2>5, <2>6
<1>2. rd.pos = 0 /\ rd.bad \in BOOLEAN /\ rd.streams = Nothing /\ rd = [pos |-> rd.pos, bad |-> rd.bad, streams |-> rd.streams]
  BY DEF Init
<1>3. IsState(rd)
  BY <1>2 DEF IsState, Nothing
<1>4. \A t \in StreamTypes : rd.streams[t] = NULL
  BY <1>2 DEF Nothing
<1>5. Serves(rd) /\ KeepsModules(rd)
  BY <1>4 DEF Serves, KeepsModules, Plain, StreamTypes, SingleStreams
<1>6. KeepsParts(rd, lazy)
  BY DEF Init, KeepsParts
<1>7. ~valid
  BY DEF Init
<1> QED
  BY <1>1, <1>3, <1>5, <1>6, <1>7 DEF IInv, Holds

\* The entries of the directory, behind its header p.
LEMMA EntriesRead ==
    ASSUME FileOK, NEW p, IsState(p.s), p.cells[1] = CellAt(0)
    PROVE  /\ Moved(p.s, Entries(p).s)
           /\ Entries(p).ok \in BOOLEAN
           /\ ~p.s.bad => (Entries(p).ok <=> \/ Get(CellAt(0), "n") = 0
                                             \/ /\ Get(CellAt(0), "n") <= MaxItems
                                                /\ Get(CellAt(0), "directory") + Get(CellAt(0), "n") <= len)
           /\ Entries(p).ok => Entries(p).cells = Block(Get(CellAt(0), "directory"), Get(CellAt(0), "n"))
<1> DEFINE n == Get(CellAt(0), "n")
           o == Get(CellAt(0), "directory")
           s == SeekSet(p.s, o)
           q == ReadBytes(s, n)
<1>1. n \in Nat /\ o \in Nat
  BY CellAtIsCell DEF Unsigned
<1>2. Moved(p.s, s) /\ IsState(s) /\ (~s.bad => s.pos = o) /\ s.bad = p.s.bad
  BY <1>1, SeekSetMoves DEF Moved
<1>3. Entries(p) = IF n = 0 THEN [s |-> s, ok |-> TRUE, cells |-> <<>>] ELSE IF n > MaxItems THEN NotRead(s) ELSE q
  BY DEF Entries
<1>4. /\ Moved(s, q.s) /\ q.ok \in BOOLEAN /\ (q.ok <=> ~s.bad /\ s.pos + n <= len)
      /\ q.ok => q.cells = Block(s.pos, n)
  BY <1>1, <1>2, ReadBytesReads
<1>5. Moved(p.s, q.s)
  BY <1>2, <1>4, MovedTwice
<1>6. n = 0 => Block(o, n) = <<>>
  BY DEF Block
<1> HIDE DEF n, o, s, q
<1>7. CASE n = 0
  <2>1. Entries(p).s = s /\ Entries(p).ok = TRUE /\ Entries(p).cells = <<>>
    BY <1>3, <1>7
  <2> QED
    BY <1>2, <1>6, <1>7, <2>1 DEF n, o
<1>8. CASE n # 0 /\ n > MaxItems
  <2>1. Entries(p) = NotRead(s)
    BY <1>3, <1>8
  <2>2. Entries(p).s = s /\ Entries(p).ok = FALSE
    BY <2>1 DEF NotRead
  <2>3. ~(n <= MaxItems)
    BY <1>1, <1>8, MinidumpAssumption
  <2> QED
    BY <1>2, <1>8, <2>2, <2>3 DEF n
<1>9. CASE n # 0 /\ ~(n > MaxItems)
  <2>1. Entries(p) = q
    BY <1>3, <1>9
  <2>2. n <= MaxItems
    BY <1>1, <1>9, MinidumpAssumption
  <2> QED
    BY <1>2, <1>4, <1>5, <1>9, <2>1, <2>2 DEF n, o
<1> QED
  BY <1>7, <1>8, <1>9

\* Read() comes to the directory of the file or to none, with nothing kept,
\* and does not succeed once a read has failed.
LEMMA ReadReads ==
    ASSUME IInv, Read
    PROVE  /\ FileOK' /\ reads' \in 0..MaxReads /\ valid' \in BOOLEAN
           /\ directory' = (IF valid' THEN DirectoryVal ELSE <<>>)
           /\ IsState(rd') /\ rd'.streams = Nothing
           /\ rd.bad => rd'.bad /\ ~valid'
           /\ valid' => Readable
           /\ ~rd.bad /\ Readable => valid'
           /\ lazy' = [p \in Parts |-> NULL]
           /\ SameFile
<1>0. FileOK /\ IsState(rd) /\ SameFile
  BY DEF IInv, Holds, Read, SameFile
<1>1. FileOK' /\ reads' \in 0..MaxReads
  <2>1. MaxReads \in Nat
    BY MinidumpAssumption
  <2> QED
    BY <2>1 DEF IInv, Read, FileOK
<1> DEFINE q == [rd EXCEPT !.streams = Nothing]
           u == SeekSet(q, 0)
           p == ReadBytes(u, 1)
<1>2. IsState(q) /\ q.bad = rd.bad /\ q.streams = Nothing
  <2>1. \A y : [rd EXCEPT !.streams = y] = [pos |-> rd.pos, bad |-> rd.bad, streams |-> y]
    BY <1>0, StateFields DEF IsState
  <2>2. q = [pos |-> rd.pos, bad |-> rd.bad, streams |-> Nothing]
    BY <2>1
  <2> HIDE DEF q
  <2> QED
    BY <1>0, <2>2 DEF IsState, Nothing
<1> HIDE DEF q
<1>3. Moved(q, u) /\ IsState(u) /\ u.bad = q.bad /\ (~q.bad => u.pos = 0)
  BY <1>2, SeekSetMoves DEF Moved
<1> HIDE DEF u
<1>4. /\ Moved(u, p.s) /\ p.ok \in BOOLEAN /\ (p.ok <=> ~u.bad /\ u.pos + 1 <= len) /\ (p.s.bad <=> ~p.ok)
      /\ p.ok => p.cells = Block(u.pos, 1)
  BY <1>0, <1>3, ReadBytesReads
<1>5. p.ok => p.cells[1] = CellAt(0)
  <2>1. Block(0, 1)[1] = CellAt(0)
    BY DEF Block
  <2> QED
    BY <1>3, <1>4, <2>1
<1>6. \E x \in {p} : ReadDirectory(x)
  BY DEF Read, q, u
<1>7. ReadDirectory(p)
  BY <1>6
<1> HIDE DEF p
<1>8. Moved(q, p.s) /\ IsState(p.s)
  BY <1>3, <1>4, MovedTwice DEF Moved
<1>a. PICK e : /\ e = IF p.ok /\ IsHeader(p.cells[1]) THEN Entries(p) ELSE NotRead(p.s)
               /\ valid' = (e.ok /\ Once(e.cells))
               /\ directory' = IF valid' THEN StreamMap(e.cells) ELSE <<>>
               /\ rd' = e.s
  BY <1>7 DEF ReadDirectory, IsHeader, Once
<1>b. valid' \in BOOLEAN /\ (valid' <=> e.ok /\ Once(e.cells))
  BY <1>a DEF Once
<1>9. /\ e = IF p.ok /\ IsHeader(p.cells[1]) THEN Entries(p) ELSE NotRead(p.s)
      /\ valid' \in BOOLEAN /\ (valid' <=> e.ok /\ Once(e.cells))
      /\ directory' = IF valid' THEN StreamMap(e.cells) ELSE <<>>
      /\ rd' = e.s
  BY <1>a, <1>b
<1>c. ~rd.bad => (p.ok <=> 1 <= len)
  BY <1>0, <1>2, <1>3, <1>4 DEF FileOK
<1>10. CASE p.ok /\ IsHeader(p.cells[1])
  <2>0. e = Entries(p)
    BY <1>9, <1>10
  <2>1. /\ Moved(p.s, e.s)
        /\ e.ok => e.cells = Block(Get(CellAt(0), "directory"), Get(CellAt(0), "n"))
    BY <1>0, <1>5, <1>8, <1>10, <2>0, EntriesRead
  <2>2. directory' = IF valid' THEN DirectoryVal ELSE <<>>
    BY <1>9, <2>1 DEF DirectoryVal
  <2>3. Moved(q, rd') /\ ~rd.bad
    BY <1>2, <1>3, <1>4, <1>8, <1>9, <1>10, <2>1, MovedTwice
  <2>4. ~p.s.bad /\ IsHeader(CellAt(0)) /\ 1 <= len
    BY <1>4, <1>5, <1>10, <1>9, <1>c, <2>3
  <2> DEFINE n == Get(CellAt(0), "n")
             o == Get(CellAt(0), "directory")
  <2>5. e.ok <=> n = 0 \/ (n <= MaxItems /\ o + n <= len)
    BY <1>0, <1>5, <1>8, <1>10, <2>0, <2>4, EntriesRead
  <2>6. e.ok => e.cells = Block(o, n)
    BY <2>1
  <2> HIDE DEF n, o
  <2>7. valid' <=> Readable
    BY <1>9, <2>4, <2>5, <2>6 DEF Readable, n, o
  <2> QED
    BY <1>0, <1>1, <1>2, <1>9, <2>2, <2>3, <2>7 DEF Moved, Read, DropParts
<1>11. CASE ~(p.ok /\ IsHeader(p.cells[1]))
  <2>1. e = NotRead(p.s)
    BY <1>9, <1>11
  <2>2. e.s = p.s /\ e.ok = FALSE
    BY <2>1 DEF NotRead
  <2>3. ~valid' /\ directory' = <<>> /\ rd' = p.s
    BY <1>9, <2>2
  <2>4. rd.bad => p.s.bad
    BY <1>2, <1>3, <1>4
  <2>5. lazy' = [x \in Parts |-> NULL]
    BY DEF Read, DropParts
  <2>6. IsState(rd') /\ rd'.streams = Nothing
    BY <1>2, <1>8, <2>3 DEF Moved
  <2>7. ~rd.bad => ~Readable
    BY <1>5, <1>9, <1>11, <1>c DEF Readable
  <2> QED
    BY <1>0, <1>1, <1>9, <2>3, <2>4, <2>5, <2>6, <2>7
<1> QED
  BY <1>10, <1>11

\* v keeps the streams that s keeps.
Wider(s, v) == \A t \in StreamTypes : s.streams[t] # NULL => v.streams[t] = s.streams[t]

LEMMA WiderKeeps ==
    ASSUME NEW s, NEW v, Wider(s, v), NEW lz, KeepsParts(s, lz)
    PROVE  KeepsParts(v, lz)
<1>1. \A p \in Parts : Owner(p) \in StreamTypes
  BY PartKinds DEF Plain
<1>2. \A p \in Parts : s.streams[Owner(p)] # NULL => v.streams[Owner(p)] = s.streams[Owner(p)]
  BY <1>1 DEF Wider
<1> QED
  BY <1>2 DEF KeepsParts

LEMMA GrownHolds ==
    ASSUME NEW s, NEW v, Grown(s, v), NEW lz, Holds(s, lz)
    PROVE  Holds(v, lz) /\ Wider(s, v)
<1>1. Wider(s, v)
  BY DEF Grown, Wider
<1>2. v.streams["ModuleList"] = s.streams["ModuleList"]
  BY DEF Grown, Plain, StreamTypes, SingleStreams
<1>3. IsState(v) /\ Serves(v)
  BY GrownServes DEF Grown, Holds
<1> QED
  BY <1>1, <1>2, <1>3, WiderKeeps DEF Holds, KeepsModules

\* Asking for a stream.
LEMMA StreamHolds ==
    ASSUME FileOK, DirectoryOK, NEW t \in StreamTypes, NEW s, NEW lz, Holds(s, lz)
    PROVE  LET g == GetStream(s, t)
           IN  /\ Holds(g.s, lz) /\ Wider(s, g.s)
               /\ g.val = g.s.streams[t]
               /\ s.bad => g.s = s
               /\ t = "ModuleList" /\ g.val = NULL => s.bad \/ Listless
<1> DEFINE g == GetStream(s, t)
<1>0. IsState(s) /\ Serves(s) /\ KeepsModules(s) /\ KeepsParts(s, lz)
  BY DEF Holds
<1>1. CASE t \in Plain
  <2>1. Grown(s, g.s) /\ g.val = g.s.streams[t]
    BY <1>0, <1>1, StreamGiven
  <2> HIDE DEF g
  <2> QED
    BY <1>1, <2>1, GrownHolds DEF Grown, Plain, g
<1>2. CASE t = "ModuleList"
  <2> DEFINE u == SeekToStreamType(s, t)
             r == ModuleListRead(u, SizeOf(t))
  <2>1. g = StreamOr(s, t, r)
    BY <1>2 DEF GetStream, StreamRead
  <2>2. CASE ~InDirectory(t) \/ s.streams[t] # NULL \/ s.bad
    <3>1. g.s = s /\ (g.val = s.streams[t] \/ g.val = NULL)
      BY <2>1, <2>2 DEF StreamOr, InDirectory, Result
    <3>2. ~InDirectory(t) => s.streams[t] = NULL
      BY <1>0, <1>2 DEF KeepsModules, ModulesOK, Listless
    <3>3. g.val = s.streams[t]
      BY <2>1, <2>2, <3>2 DEF StreamOr, InDirectory, Result
    <3>4. g.val = NULL => s.bad \/ Listless
      BY <1>2, <2>2, <3>3 DEF Listless
    <3> HIDE DEF g
    <3> QED
      BY <3>1, <3>3, <3>4 DEF Wider, g
  <2>3. CASE InDirectory(t) /\ s.streams[t] = NULL /\ ~s.bad
    <3>1. g = Kept(r, t)
      BY <2>1, <2>3 DEF StreamOr, InDirectory
    <3>2. SizeOf(t) \in Nat /\ Moved(s, u) /\ ~u.bad /\ u.pos = Place(t) /\ IsState(u)
      BY <1>0, <2>3, DirectoryNumbers, SeekToStreamMoves DEF InDirectory
    <3> HIDE DEF u
    <3>3. /\ Moved(u, r.s)
          /\ r.val # NULL =>
                /\ ModulesRead(r.val, ItemCells(Place(t), SizeOf(t)), CountOf(Place(t)))
                /\ \A i \in 1..CountOf(Place(t)) : Sound(ItemCells(Place(t), SizeOf(t))[i])
          /\ r.val = ModuleListVal(Place(t), SizeOf(t))
      BY <3>2, ModuleListReads
    <3>a. r.val = NULL <=> Listless
      BY <1>2, <2>3, <3>3 DEF Listless, ListVal
    <3> HIDE DEF r
    <3>4. Moved(s, r.s) /\ IsState(r.s) /\ r.s.streams = s.streams
      BY <3>2, <3>3, MovedTwice DEF Moved
    <3>5. Holds(r.s, lz) /\ Wider(s, r.s)
      BY <3>4, MovedGrows, GrownHolds
    <3>6. CASE r.val = NULL
      <4>1. g = r
        BY <3>1, <3>6 DEF Kept
      <4> HIDE DEF g
      <4> QED
        BY <2>3, <3>4, <3>5, <3>6, <3>a, <4>1 DEF g
    <3>7. CASE r.val # NULL
      <4> DEFINE w == [r.s EXCEPT !.streams[t] = r.val]
      <4>1. g.s = w /\ g.val = r.val
        BY <3>1, <3>7 DEF Kept, Result
      <4>2. /\ IsState(w)
            /\ w.streams[t] = r.val
            /\ \A x \in StreamTypes \ {t} : w.streams[x] = r.s.streams[x]
        BY <3>4, StreamSet
      <4> HIDE DEF w, g
      <4>3. Wider(s, w)
        BY <2>3, <3>4, <4>2 DEF Wider
      <4>4. Serves(w)
        BY <1>0, <1>2, <3>4, <4>2 DEF Serves, Plain
      <4>5. KeepsModules(w)
        BY <1>2, <2>3, <3>3, <3>7, <3>a, <4>2 DEF KeepsModules, ModulesOK
      <4>6. KeepsParts(w, lz)
        BY <1>0, <4>3, WiderKeeps
      <4> QED
        BY <2>3, <3>7, <4>1, <4>2, <4>3, <4>4, <4>5, <4>6 DEF Holds, g
    <3> QED
      BY <3>6, <3>7
  <2> QED
    BY <2>2, <2>3
<1> QED
  BY <1>1, <1>2 DEF Plain

\* Asking for a part of a stream that is kept.
LEMMA PartHolds ==
    ASSUME FileOK, DirectoryOK, NEW p \in Parts, NEW s, NEW lz, Holds(s, lz),
           s.streams[Owner(p)] # NULL, InStream(p, s.streams[Owner(p)])
    PROVE  LET r == PartRead(s, p, s.streams[Owner(p)])
           IN  /\ Holds(r.s, [lz EXCEPT ![p] = r.val]) /\ Wider(s, r.s)
               /\ ~s.bad => r.val = PartVal(p, s.streams[Owner(p)])
               /\ s.bad => r.s = s /\ r.val = NULL
<1> DEFINE v == s.streams[Owner(p)]
           r == PartRead(s, p, v)
<1>0. IsState(s) /\ Serves(s) /\ KeepsParts(s, lz) /\ Owner(p) \in Plain
  BY PartKinds DEF Holds
<1>1. v = StreamVal(Owner(p))
  BY <1>0 DEF Serves
<1> HIDE DEF v
<1>2. IsCell(Described(p, v))
  BY <1>1, PartDescribed DEF v
<1>3. /\ Grown(s, r.s)
      /\ ~s.bad => r.val = PartVal(p, v)
      /\ s.bad => r.val = NULL
  BY <1>0, <1>2, PartReads
<1> HIDE DEF r
<1>4. Holds(r.s, lz) /\ Wider(s, r.s)
  BY <1>3, GrownHolds
<1>5. r.s.streams[Owner(p)] = v
  BY <1>0, <1>4 DEF Wider, Plain, v
<1>6. r.val # NULL => ~s.bad
  BY <1>0, <1>3 DEF IsState
<1>7. KeepsParts(r.s, [lz EXCEPT ![p] = r.val])
  <2> DEFINE l == [lz EXCEPT ![p] = r.val]
  <2>1. DOMAIN lz = Parts
    BY <1>0 DEF KeepsParts
  <2>2. l = [x \in Parts |-> l[x]] /\ l[p] = r.val /\ \A x \in Parts \ {p} : l[x] = lz[x]
    BY <2>1
  <2> HIDE DEF l
  <2>3. KeepsParts(r.s, lz)
    BY <1>4 DEF Holds
  <2>4. KeepsParts(r.s, l)
    BY <1>3, <1>5, <1>6, <2>2, <2>3 DEF KeepsParts, v
  <2> QED
    BY <2>4 DEF l
<1>8. s.bad => r.s = s
  BY <1>3 DEF Grown
<1> QED
  BY <1>3, <1>4, <1>7, <1>8 DEF Holds, r, v
\* The records of a module of the list, which are asked for again while there
\* are none.
CVGiven(s, m) == IF m.cv = NULL THEN GetCVRecord(s, m.raw) ELSE Result(s, TRUE, m.cv)

MiscGiven(s, m) == IF m.misc = NULL THEN GetMiscRecord(s, m.raw) ELSE Result(s, TRUE, m.misc)

LEMMA RecordsGiven ==
    ASSUME FileOK, NEW s, IsState(s), NEW m, NEW c, IsCell(c), ModuleRead(m, c)
    PROVE  /\ Moved(s, CVGiven(s, m).s) /\ Moved(s, MiscGiven(s, m).s)
           /\ CVGiven(s, m).val \in {NULL, CellAt(Location(c, "cv").rva)}
           /\ MiscGiven(s, m).val \in {NULL, CellAt(Location(c, "misc").rva)}
           /\ s.bad => CVGiven(s, m).val = m.cv /\ MiscGiven(s, m).val = m.misc
<1>0. /\ \A f \in {"cv", "misc"} : Location(c, f).size \in Nat /\ Location(c, f).rva \in Nat
      /\ m.raw = c
  BY DEF IsCell, ModuleRead
<1>1. /\ Moved(s, GetCVRecord(s, c).s)
      /\ GetCVRecord(s, c).val \in {NULL, CellAt(Location(c, "cv").rva)}
      /\ s.bad => GetCVRecord(s, c).val = NULL
  BY <1>0, RecordReads DEF GetCVRecord
<1>2. /\ Moved(s, GetMiscRecord(s, c).s)
      /\ GetMiscRecord(s, c).val \in {NULL, CellAt(Location(c, "misc").rva)}
      /\ s.bad => GetMiscRecord(s, c).val = NULL
  BY <1>0, RecordReads DEF GetMiscRecord
<1>3. \A x : Result(s, TRUE, x).s = s /\ Result(s, TRUE, x).val = x
  BY DEF Result
<1>4. Moved(s, s)
  BY MovedSelf
<1>5. m.cv \in {NULL, CellAt(Location(c, "cv").rva)} /\ m.misc \in {NULL, CellAt(Location(c, "misc").rva)}
  BY DEF ModuleRead
<1>6. /\ Moved(s, CVGiven(s, m).s)
      /\ CVGiven(s, m).val \in {NULL, CellAt(Location(c, "cv").rva)}
      /\ s.bad => CVGiven(s, m).val = m.cv
  BY <1>0, <1>1, <1>3, <1>4, <1>5 DEF CVGiven
<1>7. /\ Moved(s, MiscGiven(s, m).s)
      /\ MiscGiven(s, m).val \in {NULL, CellAt(Location(c, "misc").rva)}
      /\ s.bad => MiscGiven(s, m).val = m.misc
  BY <1>0, <1>2, <1>3, <1>4, <1>5 DEF MiscGiven
<1> QED
  BY <1>6, <1>7

\* The fields of a module and of a list of them.
LEMMA ModuleFields ==
    ASSUME NEW r, NEW n, NEW c, NEW d, NEW g, NEW x, x = [raw |-> r, name |-> n, cv |-> c, misc |-> d, debug |-> g],
           NEW a, NEW b, NEW w, w = [x EXCEPT !.cv = a, !.misc = b]
    PROVE  /\ x.raw = r /\ x.name = n /\ x.cv = c /\ x.misc = d /\ x.debug = g
           /\ w = [raw |-> r, name |-> n, cv |-> a, misc |-> b, debug |-> g]
<1>1. x.raw = r /\ x.name = n /\ x.cv = c /\ x.misc = d /\ x.debug = g
  OBVIOUS
<1>2. [x EXCEPT !.cv = a] = [raw |-> r, name |-> n, cv |-> a, misc |-> d, debug |-> g]
  OBVIOUS
<1> DEFINE y == [x EXCEPT !.cv = a]
<1>3. [x EXCEPT !.cv = a, !.misc = b] = [y EXCEPT !.misc = b]
  OBVIOUS
<1>4. \A z : z = [raw |-> r, name |-> n, cv |-> a, misc |-> d, debug |-> g] =>
                [z EXCEPT !.misc = b] = [raw |-> r, name |-> n, cv |-> a, misc |-> b, debug |-> g]
  OBVIOUS
<1>5. [y EXCEPT !.misc = b] = [raw |-> r, name |-> n, cv |-> a, misc |-> b, debug |-> g]
  BY <1>2, <1>4
<1> HIDE DEF y
<1>6. [x EXCEPT !.cv = a, !.misc = b] = [raw |-> r, name |-> n, cv |-> a, misc |-> b, debug |-> g]
  BY <1>3, <1>5, Zenon
<1> QED
  BY <1>1, <1>6, Zenon

LEMMA ListFields ==
    ASSUME NEW q, NEW m, NEW v, v = [items |-> q, map |-> m], NEW y
    PROVE  /\ v.items = q /\ v.map = m
           /\ [v EXCEPT !.items = y] = [items |-> y, map |-> m]
OBVIOUS

\* A list of modules stays one when the records of one of them are replaced.
LEMMA ModuleReplaced ==
    ASSUME NEW v, NEW cells, NEW n \in Nat, ModulesRead(v, cells, n), NEW i \in 1..n,
           NEW x, ModuleRead(x, cells[i]), x.name = v.items[i].name
    PROVE  ModulesRead([v EXCEPT !.items[i] = x], cells, n)
<1> DEFINE w == [v EXCEPT !.items[i] = x]
           items == [v.items EXCEPT ![i] = x]
<1>1. w = [items |-> items, map |-> v.map]
  <2>1. v = [items |-> v.items, map |-> v.map]
    BY DEF ModulesRead
  <2>2. \A y : [v EXCEPT !.items = y] = [items |-> y, map |-> v.map]
    BY <2>1, ListFields
  <2>3. w = [v EXCEPT !.items = items]
    OBVIOUS
  <2> QED
    BY <2>2, <2>3
<1>2. w.items = items /\ w.map = v.map /\ w = [items |-> w.items, map |-> w.map]
  BY <1>1
<1>3. /\ items = [j \in 1..n |-> items[j]] /\ items[i] = x
      /\ \A j \in (1..n) \ {i} : items[j] = v.items[j]
  BY DEF ModulesRead
<1> HIDE DEF w, items
<1>4. \A j \in 1..n : ModuleRead(items[j], cells[j])
  BY <1>3 DEF ModulesRead
<1>5. \A j \in 1..n : items[j].raw = v.items[j].raw /\ items[j].name = v.items[j].name
  <2>1. \A k, z : ModuleRead(z, k) => z.raw = k
    BY DEF ModuleRead
  <2>2. ModuleRead(v.items[i], cells[i])
    BY DEF ModulesRead
  <2>3. x.raw = v.items[i].raw
    BY <2>1, <2>2
  <2> QED
    BY <1>3, <2>3
<1>6. PICK h : Placing(h, v.items, n) /\ v.map = h[n].map
  BY DEF ModulesRead
<1>7. Placing(h, items, n)
  <2>1. \A j \in 1..n : Placed(h[j - 1], h[j], v.items[j], j) => Placed(h[j - 1], h[j], items[j], j)
    BY <1>5 DEF Placed, IsAshmem
  <2> QED
    BY <1>6, <2>1 DEF Placing
<1>8. ModulesRead(w, cells, n)
  BY <1>2, <1>3, <1>4, <1>6, <1>7 DEF ModulesRead
<1> QED
  BY <1>8 DEF w

\* The i-th module's records are put into the module, the list, the streams.
ModulePut(m, cv, misc) == [m EXCEPT !.cv = cv, !.misc = misc]

ListPut(v, i, x) == [v EXCEPT !.items[i] = x]

RecordsPut(s, i, x) == [s EXCEPT !.streams["ModuleList"].items[i] = x]

LEMMA ModulePutIs ==
    ASSUME NEW m, NEW r, m = [raw |-> r, name |-> m.name, cv |-> m.cv, misc |-> m.misc, debug |-> m.debug],
           NEW a, NEW b
    PROVE  /\ ModulePut(m, a, b) = [raw |-> r, name |-> m.name, cv |-> a, misc |-> b, debug |-> m.debug]
           /\ a = m.cv /\ b = m.misc => ModulePut(m, a, b) = m
<1>1. ModulePut(m, a, b) = [m EXCEPT !.cv = a, !.misc = b]
  BY DEF ModulePut
<1>2. ModulePut(m, a, b) = [raw |-> r, name |-> m.name, cv |-> a, misc |-> b, debug |-> m.debug]
  <2>1. PICK w : w = ModulePut(m, a, b)
    OBVIOUS
  <2>2. w = [m EXCEPT !.cv = a, !.misc = b]
    BY <1>1, <2>1
  <2>3. PICK n, c, d, g : n = m.name /\ c = m.cv /\ d = m.misc /\ g = m.debug
    OBVIOUS
  <2>4. m = [raw |-> r, name |-> n, cv |-> c, misc |-> d, debug |-> g]
    BY <2>3
  <2>5. w = [raw |-> r, name |-> n, cv |-> a, misc |-> b, debug |-> g]
    BY <2>2, <2>4, ModuleFields
  <2> QED
    BY <2>1, <2>3, <2>5
<1>3. a = m.cv /\ b = m.misc => [raw |-> r, name |-> m.name, cv |-> a, misc |-> b, debug |-> m.debug] = m
  OBVIOUS
<1> QED
  BY <1>2, <1>3

LEMMA RecordsPutIs ==
    ASSUME NEW s, IsState(s), NEW i, NEW x, NEW v, v = s.streams["ModuleList"]
    PROVE  /\ IsState(RecordsPut(s, i, x)) /\ RecordsPut(s, i, x).bad = s.bad
           /\ RecordsPut(s, i, x).streams["ModuleList"] = ListPut(v, i, x)
           /\ \A u \in StreamTypes \ {"ModuleList"} : RecordsPut(s, i, x).streams[u] = s.streams[u]
           /\ ListPut(v, i, x) = v => RecordsPut(s, i, x) = s
<1> DEFINE y == ListPut(v, i, x)
           w == RecordsPut(s, i, x)
           q == [s.streams EXCEPT !["ModuleList"] = y]
<1>1. w = [s EXCEPT !.streams = q]
  BY DEF RecordsPut, ListPut
<1>2. "ModuleList" \in StreamTypes /\ DOMAIN s.streams = StreamTypes
  BY DEF IsState, StreamTypes, SingleStreams
<1> HIDE DEF y, w
<1>3. /\ q["ModuleList"] = y /\ q = [t \in StreamTypes |-> q[t]]
      /\ \A t \in StreamTypes \ {"ModuleList"} : q[t] = s.streams[t]
      /\ y = v => q = s.streams
  BY <1>2 DEF IsState
<1> HIDE DEF q
<1>4. \A z : [s EXCEPT !.streams = z] = [pos |-> s.pos, bad |-> s.bad, streams |-> z]
  BY StateFields DEF IsState
<1>5. w = [pos |-> s.pos, bad |-> s.bad, streams |-> q]
  BY <1>1, <1>4
<1>6. w.pos = s.pos /\ w.bad = s.bad /\ w.streams = q
  BY <1>5
<1>7. IsState(w)
  BY <1>3, <1>5, <1>6 DEF IsState
<1>8. y = v => w = s
  BY <1>3, <1>5 DEF IsState
<1> QED
  BY <1>3, <1>6, <1>7, <1>8 DEF w, y

\* Asking for the records of a module.
LEMMA RecordsHold ==
    ASSUME FileOK, DirectoryOK, NEW s, NEW lz, Holds(s, lz), s.streams["ModuleList"] # NULL,
           NEW i \in DOMAIN s.streams["ModuleList"].items, NEW m, m = s.streams["ModuleList"].items[i],
           NEW c, c = CVGiven(s, m), NEW d, d = MiscGiven(c.s, m)
    PROVE  /\ Holds(RecordsPut(d.s, i, ModulePut(m, c.val, d.val)), lz)
           /\ s.bad => RecordsPut(d.s, i, ModulePut(m, c.val, d.val)) = s
<1> DEFINE v == s.streams["ModuleList"]
           at == Place("ModuleList")
           n == CountOf(at)
           cells == ItemCells(at, SizeOf("ModuleList"))
           x == ModulePut(m, c.val, d.val)
           y == ListPut(v, i, x)
           w == RecordsPut(d.s, i, x)
<1>0. IsState(s) /\ Serves(s) /\ KeepsParts(s, lz) /\ ModulesOK(v)
  BY DEF Holds, KeepsModules
<1>1. /\ InDirectory("ModuleList") /\ at \in Nat /\ SizeOf("ModuleList") \in Nat
      /\ n \in Nat /\ \A j \in 1..n : IsCell(cells[j])
  <2>1. InDirectory("ModuleList")
    BY <1>0 DEF ModulesOK, Listless
  <2>2. at \in Nat /\ SizeOf("ModuleList") \in Nat
    BY <2>1, DirectoryNumbers DEF InDirectory
  <2>3. n \in Nat
    BY <2>2, CountIsNat
  <2>4. at + SizeOf("ModuleList") - n \in Int
    BY <2>2, <2>3
  <2> QED
    BY <2>1, <2>2, <2>3, <2>4, BlockCells DEF ItemCells
<1>2. ModulesRead(v, cells, n) /\ \A j \in 1..n : Sound(cells[j])
  BY <1>0 DEF ModulesOK
<1>3. i \in 1..n /\ m = v.items[i] /\ ModuleRead(m, cells[i])
  BY <1>2 DEF ModulesRead
<1> HIDE DEF v, at, n, cells, x, y, w
<1>4. /\ Moved(s, c.s) /\ c.val \in {NULL, CellAt(Location(cells[i], "cv").rva)}
      /\ s.bad => c.val = m.cv
  BY <1>0, <1>1, <1>3, RecordsGiven
<1>5. /\ Moved(c.s, d.s) /\ d.val \in {NULL, CellAt(Location(cells[i], "misc").rva)}
      /\ c.s.bad => d.val = m.misc
  BY <1>1, <1>3, <1>4, RecordsGiven DEF Moved
<1>6. Moved(s, d.s) /\ IsState(d.s) /\ d.s.streams = s.streams /\ (s.bad => c.s = s /\ d.s = s)
  BY <1>4, <1>5, MovedTwice DEF Moved
<1>7. /\ m = [raw |-> cells[i], name |-> m.name, cv |-> m.cv, misc |-> m.misc, debug |-> m.debug]
      /\ m.name = Get(CellAt(Get(cells[i], "name")), "text")
  BY <1>3 DEF ModuleRead
<1>8. /\ x = [raw |-> cells[i], name |-> m.name, cv |-> c.val, misc |-> d.val, debug |-> m.debug]
      /\ s.bad => x = m
  <2>1. m = [raw |-> cells[i], name |-> m.name, cv |-> m.cv, misc |-> m.misc, debug |-> m.debug]
    BY <1>7
  <2>2. \A a, b : /\ ModulePut(m, a, b) = [raw |-> cells[i], name |-> m.name, cv |-> a, misc |-> b, debug |-> m.debug]
                  /\ a = m.cv /\ b = m.misc => ModulePut(m, a, b) = m
    BY <2>1, ModulePutIs
  <2>3. s.bad => c.val = m.cv /\ d.val = m.misc
    BY <1>4, <1>5, <1>6
  <2>4. x = [raw |-> cells[i], name |-> m.name, cv |-> c.val, misc |-> d.val, debug |-> m.debug]
    BY <2>2 DEF x
  <2>5. s.bad => x = m
    BY <2>2, <2>3 DEF x
  <2> QED
    BY <2>4, <2>5
<1>9. ModuleRead(x, cells[i]) /\ x.name = m.name
  <2>1. x.name = m.name /\ x.cv = c.val /\ x.misc = d.val /\ x.debug = m.debug
    BY <1>8
  <2> QED
    BY <1>4, <1>5, <1>7, <1>8, <2>1 DEF ModuleRead
<1>10. ModulesRead(y, cells, n)
  <2>1. \A u \in 1..n : ModuleRead(x, cells[u]) /\ x.name = v.items[u].name => ModulesRead(ListPut(v, u, x), cells, n)
    BY <1>1, <1>2, ModuleReplaced DEF ListPut
  <2> QED
    BY <1>3, <1>9, <2>1 DEF y
<1>11. ModulesOK(y)
  BY <1>0, <1>2, <1>10 DEF ModulesOK, at, n, cells
<1>12. s.bad => y = v
  <2>1. v = [items |-> v.items, map |-> v.map] /\ v.items = [j \in 1..n |-> v.items[j]]
    BY <1>2 DEF ModulesRead
  <2>2. ListPut(v, i, m) = v
    BY <1>3, <2>1 DEF ListPut
  <2> QED
    BY <1>8, <2>2 DEF y
<1>13. /\ IsState(w) /\ w.bad = d.s.bad
       /\ w.streams["ModuleList"] = y
       /\ \A t \in StreamTypes \ {"ModuleList"} : w.streams[t] = s.streams[t]
       /\ y = v => w = d.s
  <2>1. v = d.s.streams["ModuleList"]
    BY <1>6 DEF v
  <2>2. PICK z : z = d.s
    OBVIOUS
  <2>3. IsState(z) /\ v = z.streams["ModuleList"]
    BY <1>6, <2>1, <2>2
  <2>4. /\ IsState(RecordsPut(z, i, x)) /\ RecordsPut(z, i, x).bad = z.bad
        /\ RecordsPut(z, i, x).streams["ModuleList"] = ListPut(v, i, x)
        /\ \A u \in StreamTypes \ {"ModuleList"} : RecordsPut(z, i, x).streams[u] = z.streams[u]
        /\ ListPut(v, i, x) = v => RecordsPut(z, i, x) = z
    BY <2>3, RecordsPutIs
  <2> QED
    BY <1>6, <2>2, <2>4 DEF w, y
<1>14. Serves(w)
  BY <1>0, <1>13 DEF Serves, Plain
<1>15. KeepsModules(w)
  BY <1>11, <1>13 DEF KeepsModules
<1>16. KeepsParts(w, lz)
  <2>1. \A p \in Parts : Owner(p) \in StreamTypes \ {"ModuleList"}
    BY PartKinds DEF Plain
  <2>2. \A p \in Parts : w.streams[Owner(p)] = s.streams[Owner(p)]
    BY <1>13, <2>1
  <2> QED
    BY <1>0, <2>2 DEF KeepsParts
<1>17. s.bad => w = s
  BY <1>6, <1>12, <1>13
<1> QED
  BY <1>13, <1>14, <1>15, <1>16, <1>17 DEF Holds, w, x
---------------------------------------------------------------------------
(* The steps.                                                              *)

\* What a step may do once a read has failed.
FailureStays ==
    rd.bad => /\ rd'.bad
              /\ valid' => valid
              /\ \A t \in StreamTypes : rd'.streams[t] \in {rd.streams[t], NULL}
              /\ \A p \in Parts : lazy'[p] \in {lazy[p], NULL}

LEMMA SameInv ==
    ASSUME IInv, SameDirectory, reads' = reads, Holds(rd', lazy')
    PROVE  IInv'
<1>1. Holds(rd, lazy)'
  <2>1. \A s, lz : Holds(s, lz)' <=> Holds(s, lz)
    BY SameHolds
  <2> QED
    BY <2>1
<1>2. DirectoryVal' = DirectoryVal /\ (Readable' <=> Readable)
  BY SameDirectoryVal DEF SameDirectory
<1>3. FileOK' /\ reads' \in 0..MaxReads /\ valid' \in BOOLEAN
  BY DEF IInv, SameDirectory, SameFile, FileOK
<1>4. (directory' = IF valid' THEN DirectoryVal' ELSE <<>>) /\ (valid' => Readable')
  BY <1>2 DEF IInv, SameDirectory
<1> QED
  BY <1>1, <1>3, <1>4 DEF IInv

LEMMA InvGives == IInv => FileOK /\ DirectoryOK /\ Holds(rd, lazy)
BY DirectoryFound DEF IInv

LEMMA ReadStep == ASSUME IInv, Read PROVE IInv' /\ FailureStays
<1>1. /\ FileOK' /\ reads' \in 0..MaxReads /\ valid' \in BOOLEAN
      /\ directory' = (IF valid' THEN DirectoryVal ELSE <<>>)
      /\ IsState(rd') /\ rd'.streams = Nothing
      /\ rd.bad => rd'.bad /\ ~valid'
      /\ valid' => Readable
      /\ lazy' = [p \in Parts |-> NULL]
      /\ SameFile
  BY ReadReads
<1>2. Holds(rd, lazy)'
  <2>1. IsState(rd)'
    BY <1>1 DEF IsState
  <2>2. (rd.streams = Nothing)'
    BY <1>1 DEF Nothing
  <2>3. (lazy = [p \in Parts |-> NULL])'
    BY <1>1
  <2>4. \A t \in StreamTypes : rd'.streams[t] = NULL
    BY <1>1 DEF Nothing
  <2>5. Serves(rd)' /\ KeepsModules(rd)'
    BY <2>4 DEF Serves, KeepsModules, Plain, StreamTypes, SingleStreams
  <2>6. KeepsParts(rd, lazy)'
    BY <2>3 DEF KeepsParts
  <2> QED
    BY <2>1, <2>5, <2>6 DEF Holds
<1>3. DirectoryVal' = DirectoryVal /\ (Readable' <=> Readable)
  BY <1>1, SameDirectoryVal
<1>4. IInv'
  BY <1>1, <1>2, <1>3 DEF IInv
<1>5. FailureStays
  BY <1>1 DEF FailureStays, Nothing
<1> QED
  BY <1>4, <1>5

LEMMA StreamStep == ASSUME IInv, NEW t \in StreamTypes, Get_Stream(t) PROVE IInv' /\ FailureStays
<1>1. SameDirectory /\ reads' = reads /\ lazy' = lazy /\ rd' = GetStream(rd, t).s
  BY DEF Get_Stream, SameDirectory, SameFile
<1>2. Holds(GetStream(rd, t).s, lazy) /\ (rd.bad => GetStream(rd, t).s = rd)
  BY InvGives, StreamHolds
<1>3. IInv'
  BY <1>1, <1>2, SameInv
<1>4. FailureStays
  BY <1>1, <1>2 DEF FailureStays, SameDirectory
<1> QED
  BY <1>3, <1>4

LEMMA PartStep == ASSUME IInv, NEW p \in Parts, Get_Part(p) PROVE IInv' /\ FailureStays
<1> DEFINE r == PartRead(rd, p, rd.streams[Owner(p)])
<1>1. /\ SameDirectory /\ reads' = reads
      /\ rd' = r.s /\ lazy' = [lazy EXCEPT ![p] = r.val]
  BY DEF Get_Part, SameDirectory, SameFile
<1>2. rd.streams[Owner(p)] # NULL /\ InStream(p, rd.streams[Owner(p)])
  BY DEF Get_Part
<1>3. /\ Holds(r.s, [lazy EXCEPT ![p] = r.val])
      /\ rd.bad => r.s = rd /\ r.val = NULL
  BY <1>2, InvGives, PartHolds
<1> HIDE DEF r
<1>4. IInv'
  BY <1>1, <1>3, SameInv
<1>5. lazy = [x \in Parts |-> lazy[x]]
  BY InvGives DEF Holds, KeepsParts
<1>6. FailureStays
  BY <1>1, <1>3, <1>5 DEF FailureStays, SameDirectory
<1> QED
  BY <1>4, <1>6

LEMMA FreeStep == ASSUME IInv, NEW p \in Parts, FreeMemory(p) PROVE IInv' /\ FailureStays
<1>1. /\ SameDirectory /\ reads' = reads
      /\ rd' = rd /\ lazy' = [lazy EXCEPT ![p] = NULL]
  BY DEF FreeMemory, SameDirectory, SameFile
<1>2. Holds(rd, lazy)
  BY InvGives
<1>3. /\ lazy' = [x \in Parts |-> lazy'[x]]
      /\ \A x \in Parts : lazy'[x] \in {lazy[x], NULL}
  BY <1>1, <1>2 DEF Holds, KeepsParts
<1>4. KeepsParts(rd, lazy')
  BY <1>2, <1>3 DEF Holds, KeepsParts
<1>5. Holds(rd', lazy')
  BY <1>1, <1>2, <1>4 DEF Holds
<1>6. IInv'
  BY <1>1, <1>5, SameInv
<1>7. FailureStays
  BY <1>1, <1>3 DEF FailureStays, SameDirectory
<1> QED
  BY <1>6, <1>7

LEMMA RecordsStep == ASSUME IInv, NEW i, Get_Records(i) PROVE IInv' /\ FailureStays
<1>1. SameDirectory /\ reads' = reads /\ lazy' = lazy
  BY DEF Get_Records, SameDirectory, SameFile
<1>2. /\ rd.streams["ModuleList"] # NULL
      /\ i \in DOMAIN rd.streams["ModuleList"].items
  BY DEF Get_Records
<1> DEFINE m == rd.streams["ModuleList"].items[i]
           c == CVGiven(rd, m)
           d == MiscGiven(c.s, m)
           w == RecordsPut(d.s, i, ModulePut(m, c.val, d.val))
<1>3. rd' = w
  BY Zenon DEF Get_Records, CVGiven, MiscGiven, RecordsPut, ModulePut
<1>4. Holds(rd', lazy) /\ (rd.bad => rd' = rd)
  <2>1. FileOK /\ DirectoryOK /\ Holds(rd, lazy)
    BY InvGives
  <2>2. m = rd.streams["ModuleList"].items[i] /\ c = CVGiven(rd, m) /\ d = MiscGiven(c.s, m)
    OBVIOUS
  <2> HIDE DEF m, c, d
  <2>3. Holds(w, lazy) /\ (rd.bad => w = rd)
    BY <1>2, <2>1, <2>2, RecordsHold
  <2> HIDE DEF w
  <2> QED
    BY <1>3, <2>3
<1>5. IInv'
  BY <1>1, <1>4, SameInv
<1>6. FailureStays
  BY <1>1, <1>4 DEF FailureStays, SameDirectory
<1> QED
  BY <1>5, <1>6

LEMMA NextKeeps == ASSUME IInv, [Next]_minidump PROVE IInv' /\ (UNCHANGED minidump \/ FailureStays)
<1>1. CASE UNCHANGED minidump
  <2>1. SameDirectory /\ reads' = reads /\ rd' = rd /\ lazy' = lazy
    BY <1>1 DEF minidump, SameDirectory, SameFile
  <2>2. Holds(rd', lazy')
    BY <2>1, InvGives
  <2> QED
    BY <1>1, <2>1, <2>2, SameInv
<1>2. CASE Read
  BY <1>2, ReadStep
<1>3. CASE \E t \in StreamTypes : Get_Stream(t)
  BY <1>3, StreamStep
<1>4. CASE \E p \in Parts : Get_Part(p) \/ FreeMemory(p)
  BY <1>4, PartStep, FreeStep
<1>5. CASE \E i \in 1..MaxItems : Get_Records(i)
  BY <1>5, RecordsStep
<1> QED
  BY <1>1, <1>2, <1>3, <1>4, <1>5 DEF Next

THEOREM Invariance == Spec => []IInv
<1>1. IInv /\ [Next]_minidump => IInv'
  BY NextKeeps
<1> QED
  BY InvStarts, <1>1, PTL DEF Spec

\* Once a read has run past the end of the file nothing comes to be kept any
\* more, and Read() does not succeed again.
THEOREM FailureStaysFinal == Spec => FailureIsFinal
<1>1. IInv /\ [Next]_minidump => [FailureStays]_minidump
  BY NextKeeps
<1>2. Spec => [][FailureStays]_minidump
  BY <1>1, Invariance, PTL DEF Spec
<1> QED
  BY <1>2 DEF FailureIsFinal, FailureStays
---------------------------------------------------------------------------
(* What the invariant says.                                                *)

\* A stream that is kept is in the directory.
LEMMA KeptInDirectory ==
    ASSUME NEW s, NEW lz, Holds(s, lz), NEW t \in StreamTypes, s.streams[t] # NULL
    PROVE  /\ InDirectory(t)
           /\ t \in Plain => s.streams[t] = StreamVal(t)
<1>1. CASE t \in Plain
  <2>1. s.streams[t] = StreamVal(t)
    BY <1>1 DEF Holds, Serves
  <2> QED
    BY <2>1 DEF StreamVal
<1>2. CASE t = "ModuleList"
  BY <1>2 DEF Holds, KeepsModules, ModulesOK, Listless, Plain
<1> QED
  BY <1>1, <1>2 DEF Plain

LEMMA InvTyping == IInv => TypeOK
<1> SUFFICES ASSUME IInv PROVE TypeOK
  OBVIOUS
<1>1. Holds(rd, lazy) /\ IsState(rd)
  BY DEF IInv, Holds
<1>2. \A t \in StreamTypes : rd.streams[t] # NULL => t \in DOMAIN directory
  BY <1>1, KeptInDirectory DEF InDirectory
<1>3. \A p \in Parts : lazy[p] # NULL => rd.streams[Owner(p)] # NULL
  BY <1>1 DEF Holds, KeepsParts
<1> QED
  BY <1>1, <1>2, <1>3 DEF IInv, FileOK, TypeOK, IsState

\* The variables keep their types, no stream is kept that is not in the
\* directory, and no part of a stream that is not kept.
THEOREM Typing == Spec => []TypeOK
BY Invariance, InvTyping, PTL

LEMMA FreshServes == IsState(Fresh) /\ Serves(Fresh) /\ ~Fresh.bad
BY DEF Fresh, Nothing, IsState, Serves, Plain

LEMMA InvSameAnswers == IInv => SameAnswers
<1> SUFFICES ASSUME IInv, valid, ~rd.bad, NEW t \in (DOMAIN directory \cap StreamTypes) \ {"ModuleList"}
             PROVE  \E now \in {GetStream(rd, t)}, fresh \in {GetStream(Fresh, t)} :
                       /\ now.val = fresh.val
                       /\ fresh.val # NULL =>
                             \A p \in PartsOf(t, fresh.val) :
                                \E part \in {PartRead(fresh.s, p, fresh.val).val} :
                                   /\ PartRead(now.s, p, now.val).val = part
                                   /\ lazy[p] # NULL => lazy[p] = part
  BY DEF SameAnswers
<1> DEFINE now == GetStream(rd, t)
           fresh == GetStream(Fresh, t)
<1>1. FileOK /\ DirectoryOK /\ Holds(rd, lazy) /\ IsState(rd) /\ Serves(rd) /\ t \in Plain
  BY InvGives DEF Holds, Plain
<1>2. /\ Grown(rd, now.s) /\ now.val = StreamVal(t)
      /\ t \in {"SystemInfo", "Exception", "ThreadList", "MemoryList"} /\ now.val # NULL => ~now.s.bad
  BY <1>1, StreamGiven
<1>3. /\ Grown(Fresh, fresh.s) /\ fresh.val = StreamVal(t)
      /\ t \in {"SystemInfo", "Exception", "ThreadList", "MemoryList"} /\ fresh.val # NULL => ~fresh.s.bad
  BY <1>1, FreshServes, StreamGiven
<1> HIDE DEF now, fresh
<1>4. IsState(now.s) /\ Serves(now.s) /\ IsState(fresh.s) /\ Serves(fresh.s)
  BY <1>1, <1>2, <1>3, FreshServes, GrownServes DEF Grown
<1>5. ASSUME fresh.val # NULL, NEW p \in PartsOf(t, fresh.val)
      PROVE  /\ PartRead(now.s, p, now.val).val = PartRead(fresh.s, p, fresh.val).val
             /\ lazy[p] # NULL => lazy[p] = PartRead(fresh.s, p, fresh.val).val
  <2>1. p \in Parts /\ Owner(p) = t /\ InStream(p, fresh.val)
    BY <1>5 DEF PartsOf
  <2>2. IsCell(Described(p, fresh.val))
    BY <1>1, <1>3, <1>5, <2>1, PartDescribed
  <2>3. t \in {"SystemInfo", "Exception", "ThreadList", "MemoryList"}
    BY <2>1, PartKinds DEF Owner
  <2>4. ~now.s.bad /\ ~fresh.s.bad
    BY <1>2, <1>3, <1>5, <2>3
  <2>5. PartRead(now.s, p, fresh.val).val = PartVal(p, fresh.val)
    BY <1>1, <1>4, <2>1, <2>2, <2>4, PartReads
  <2>6. PartRead(fresh.s, p, fresh.val).val = PartVal(p, fresh.val)
    BY <1>1, <1>4, <2>1, <2>2, <2>4, PartReads
  <2>7. lazy[p] # NULL => lazy[p] = PartVal(p, rd.streams[t]) /\ rd.streams[t] # NULL
    BY <1>1, <2>1 DEF Holds, KeepsParts
  <2>8. rd.streams[t] # NULL => rd.streams[t] = StreamVal(t)
    BY <1>1, KeptInDirectory DEF Plain
  <2> QED
    BY <1>2, <1>3, <2>5, <2>6, <2>7, <2>8
<1> QED
  BY <1>2, <1>3, <1>5 DEF now, fresh

\* However the position has been moved and whatever has been read before, a
\* stream or a part is what it would be if it were asked for first.
THEOREM AnswersDoNotDependOnOrder == Spec => []SameAnswers
BY Invariance, InvSameAnswers, PTL
LEMMA InvOwnData == IInv => OwnData
<1> SUFFICES ASSUME IInv PROVE OwnData
  OBVIOUS
<1>1. FileOK /\ DirectoryOK /\ Holds(rd, lazy)
  BY InvGives
<1>2. ASSUME NEW t \in StreamTypes, rd.streams[t] # NULL
      PROVE  LET v == rd.streams[t]
                 at == Get(directory[t], "rva")
                 Tail_(n) == Block(at + SizeOf(t) - n, n)
             IN  CASE t = "ThreadList" -> v = Tail_(Len(v))
                   [] t \in {"MemoryList", "MemoryInfoList"} -> v.items = Tail_(Len(v.items))
                   [] t = "ModuleList" ->
                         \A i \in DOMAIN v.items :
                            LET m == v.items[i]
                            IN  /\ m.raw = Tail_(Len(v.items))[i]
                                /\ m.name = Get(CellAt(Get(m.raw, "name")), "text")
                                /\ m.cv # NULL => m.cv = CellAt(Location(m.raw, "cv").rva)
                                /\ m.misc # NULL => m.misc = CellAt(Location(m.raw, "misc").rva)
                   [] t = "LinuxMaps" -> v = Block(at, SizeOf(t))
                   [] OTHER -> v = CellAt(at)
  <2> DEFINE v == rd.streams[t]
             at == Place(t)
             n == CountOf(at)
  <2>1. InDirectory(t) /\ (t \in Plain => v = StreamVal(t))
    BY <1>1, <1>2, KeptInDirectory
  <2>2. at \in Nat /\ SizeOf(t) \in Nat
    BY <1>1, <2>1, DirectoryNumbers DEF InDirectory
  <2>3. n \in Nat /\ at + SizeOf(t) - n \in Int
    BY <1>1, <2>2, CountIsNat
  <2>4. Len(ItemCells(at, SizeOf(t))) = n
    BY <1>1, <2>3, BlockCells DEF ItemCells
  <2>5. at = Get(directory[t], "rva") /\ v # NULL
    BY <1>2 DEF Place
  <2> HIDE DEF v, at, n
  <2>6. CASE t = "ThreadList"
    <3>1. v = ItemCells(at, SizeOf(t))
      BY <2>1, <2>5, <2>6 DEF StreamVal, ThreadListVal, Plain, StreamTypes, at
    <3>2. v = Block(at + SizeOf(t) - Len(v), Len(v))
      BY <2>4, <3>1 DEF ItemCells, n
    <3> QED
      BY <2>5, <2>6, <3>2 DEF v
  <2>7. CASE t \in {"MemoryList", "MemoryInfoList"}
    <3>1. v.items = ItemCells(at, SizeOf(t))
      <4>1. v = RegionsOf(ItemCells(at, SizeOf(t)))
        BY <2>1, <2>5, <2>7 DEF StreamVal, MemoryListVal, MemoryInfoListVal, Plain, StreamTypes, at
      <4> QED
        BY <4>1 DEF RegionsOf
    <3>2. v.items = Block(at + SizeOf(t) - Len(v.items), Len(v.items))
      BY <2>4, <3>1 DEF ItemCells, n
    <3> QED
      BY <2>5, <2>7, <3>2 DEF v
  <2>8. CASE t = "ModuleList"
    <3>1. ModulesRead(v, ItemCells(at, SizeOf(t)), n)
      BY <1>1, <2>5, <2>8 DEF Holds, KeepsModules, ModulesOK, v, at, n
    <3>2. DOMAIN v.items = 1..n /\ Len(v.items) = n
      <4>1. v.items = [i \in 1..n |-> v.items[i]]
        BY <3>1 DEF ModulesRead
      <4> QED
        BY <2>3, <4>1
    <3>3. ItemCells(at, SizeOf(t)) = Block(at + SizeOf(t) - Len(v.items), Len(v.items))
      BY <3>2 DEF ItemCells, n
    <3>4. ASSUME NEW i \in DOMAIN v.items
          PROVE  /\ v.items[i].raw = ItemCells(at, SizeOf(t))[i]
                 /\ v.items[i].name = Get(CellAt(Get(v.items[i].raw, "name")), "text")
                 /\ v.items[i].cv # NULL => v.items[i].cv = CellAt(Location(v.items[i].raw, "cv").rva)
                 /\ v.items[i].misc # NULL => v.items[i].misc = CellAt(Location(v.items[i].raw, "misc").rva)
      <4>1. ModuleRead(v.items[i], ItemCells(at, SizeOf(t))[i])
        BY <3>1, <3>2, <3>4 DEF ModulesRead
      <4>2. \A x, m : ModuleRead(x, m) => x.raw = m
        BY DEF ModuleRead
      <4>3. v.items[i].raw = ItemCells(at, SizeOf(t))[i]
        BY <4>1, <4>2
      <4> QED
        BY <4>1, <4>3 DEF ModuleRead
    <3> QED
      BY <2>5, <2>8, <3>3, <3>4 DEF v
  <2>9. CASE t = "LinuxMaps"
    <3>1. v = Block(at, SizeOf(t))
      BY <2>1, <2>5, <2>9 DEF StreamVal, LinuxMapsVal, Plain, StreamTypes, at
    <3> QED
      BY <2>5, <2>9, <3>1 DEF v
  <2>10. CASE t \notin {"ThreadList", "MemoryList", "MemoryInfoList", "ModuleList", "LinuxMaps"}
    <3>1. v = CellAt(at)
      BY <2>1, <2>5, <2>10 DEF StreamVal, FixedVal, MiscInfoVal, Plain, StreamTypes, SingleStreams, at
    <3> QED
      BY <2>5, <2>10, <3>1 DEF v
  <2> QED
    BY <2>6, <2>7, <2>8, <2>9, <2>10
<1>3. ASSUME NEW p \in Parts, lazy[p] # NULL
      PROVE  LET v == rd.streams[Owner(p)]
             IN  CASE p[1] = "context" -> \A i \in DOMAIN lazy[p].regs : lazy[p].regs[i] = CellAt(Get(v[p[2]], "crva") + i - 1)
                   [] p[1] = "exception" -> \A i \in DOMAIN lazy[p].regs : lazy[p].regs[i] = CellAt(Get(v, "crva") + i - 1)
                   [] p[1] = "stack" -> lazy[p] = Block(Get(v[p[2]], "rva"), Get(v[p[2]], "size"))
                   [] p[1] = "region" -> lazy[p] = Block(Get(v.items[p[2]], "rva"), Get(v.items[p[2]], "size"))
                   [] p[1] = "csd" -> lazy[p] = Get(CellAt(Get(v, "csd")), "text")
  <2> DEFINE v == rd.streams[Owner(p)]
             d == Described(p, v)
  <2>1. lazy[p] = PartVal(p, v)
    BY <1>1, <1>3 DEF Holds, KeepsParts
  <2>2. \A rva, size : ContextVal(rva, size) # NULL =>
           \A i \in DOMAIN ContextVal(rva, size).regs : ContextVal(rva, size).regs[i] = CellAt(rva + i - 1)
    <3>1. \A rva, size : ContextVal(rva, size) # NULL => ContextVal(rva, size).regs = RegistersVal(rva, size)
      BY DEF ContextVal
    <3>2. \A rva, size : \A i \in DOMAIN RegistersVal(rva, size) : RegistersVal(rva, size)[i] = CellAt(rva + i - 1)
      BY DEF RegistersVal
    <3> QED
      BY <3>1, <3>2
  <2>3. MemoryVal(d) # NULL => MemoryVal(d) = Block(Get(d, "rva"), Get(d, "size"))
    BY DEF MemoryVal
  <2> HIDE DEF v, d
  <2>4. CASE p[1] = "context"
    <3>1. lazy[p] = ContextVal(Get(d, "crva"), Get(d, "csize")) /\ d = v[p[2]]
      BY <2>1, <2>4 DEF PartVal, Described, d
    <3> QED
      BY <1>3, <2>2, <2>4, <3>1 DEF v
  <2>5. CASE p[1] = "exception"
    <3>1. lazy[p] = ContextVal(Get(d, "crva"), Get(d, "csize")) /\ d = v
      BY <2>1, <2>5 DEF PartVal, Described, d
    <3> QED
      BY <1>3, <2>2, <2>5, <3>1 DEF v
  <2>6. CASE p[1] = "stack"
    <3>1. lazy[p] = MemoryVal(d) /\ d = v[p[2]]
      BY <1>3, <2>1, <2>6 DEF PartVal, Described, d
    <3> QED
      BY <1>3, <2>3, <2>6, <3>1 DEF v
  <2>7. CASE p[1] = "region"
    <3>1. lazy[p] = MemoryVal(d) /\ d = v.items[p[2]]
      BY <2>1, <2>7 DEF PartVal, Described, d
    <3> QED
      BY <1>3, <2>3, <2>7, <3>1 DEF v
  <2>8. CASE p[1] = "csd"
    <3>1. lazy[p] = StringVal(Get(d, "csd")) /\ d = v
      BY <2>1, <2>8 DEF PartVal, Described, d
    <3> QED
      BY <1>3, <2>8, <3>1 DEF v, StringVal
  <2> QED
    BY <2>4, <2>5, <2>6, <2>7, <2>8, PartKinds
<1> QED
  BY <1>2, <1>3 DEF OwnData

\* What is kept was read from where the file says it is, all of it.
THEOREM DataAreOwn == Spec => []OwnData
BY Invariance, InvOwnData, PTL
LEMMA WrapSmall ==
    ASSUME NEW a \in 0..(AddrSpace - 1)
    PROVE  Wrap(a) = a
<1>1. a \in Int /\ AddrSpace \in Nat \ {0} /\ a = AddrSpace * 0 + a
  BY AddrSpaceAssumption
<1> QED
  BY <1>1, Remainder DEF Wrap

LEMMA WrapOnce ==
    ASSUME NEW r \in 0..(AddrSpace - 1), NEW a \in Int, a = r - AddrSpace \/ a = r + AddrSpace
    PROVE  Wrap(a) = r
<1>0. AddrSpace \in Nat \ {0}
  BY AddrSpaceAssumption
<1>1. \A q \in Int : a = AddrSpace * q + r => a % AddrSpace = r
  BY <1>0, Remainder
<1>2. a = AddrSpace * (-1) + r \/ a = AddrSpace * 1 + r
  BY <1>0
<1> QED
  BY <1>1, <1>2 DEF Wrap

LEMMA InvAccessInside == IInv => AccessInside
<1> SUFFICES ASSUME IInv, NEW p \in Parts, p[1] \in {"stack", "region"}, lazy[p] # NULL,
                    NEW d, d = Described(p, rd.streams[Owner(p)]),
                    NEW a \in 0..(AddrSpace - 1), NEW w \in {1, 2, 4, 8}, InRegion(d, a, w)
             PROVE  a >= Get(d, "start") /\ a + w - Get(d, "start") <= Len(lazy[p])
  BY DEF AccessInside, Described
<1> DEFINE start == Get(d, "start")
           size == Get(d, "size")
<1>1. FileOK /\ DirectoryOK /\ Holds(rd, lazy) /\ AddrSpace \in Nat \ {0} /\ w \in Nat
  BY InvGives, AddrSpaceAssumption
<1>2. lazy[p] = MemoryVal(d)
  BY <1>1 DEF Holds, KeepsParts, PartVal
<1>3. IsCell(d)
  <2>1. /\ rd.streams[Owner(p)] # NULL /\ InStream(p, rd.streams[Owner(p)])
        /\ Owner(p) \in Plain /\ Owner(p) \in StreamTypes
    BY <1>1, PartKinds DEF Holds, KeepsParts, Plain
  <2>2. rd.streams[Owner(p)] = StreamVal(Owner(p))
    BY <1>1, <2>1, KeptInDirectory
  <2> QED
    BY <1>1, <2>1, <2>2, PartDescribed
<1>4. start \in Nat /\ size \in Nat /\ Get(d, "rva") \in Nat
  BY <1>3 DEF IsCell, Unsigned
<1>5. lazy[p] = Block(Get(d, "rva"), size) /\ Len(lazy[p]) = size
  <2>1. lazy[p] = Block(Get(d, "rva"), size)
    BY <1>2 DEF MemoryVal
  <2>2. Len(Block(Get(d, "rva"), size)) = size
    BY <1>1, <1>4, BlockCells
  <2> QED
    BY <2>1, <2>2
<1>6. /\ size <= AddrSpace - 1 - start /\ ~(a < start) /\ ~(w > AddrSpace - 1 - a)
      /\ ~(Wrap(a + w) > Wrap(start + size))
  BY DEF InRegion, FitsIn
<1> HIDE DEF start, size
<1>7. a + w \in 0..(AddrSpace - 1) /\ start + size \in 0..(AddrSpace - 1)
  BY <1>1, <1>4, <1>6
<1>8. Wrap(a + w) = a + w /\ Wrap(start + size) = start + size
  BY <1>7, WrapSmall
<1>9. a >= start /\ a + w - start <= size
  BY <1>1, <1>4, <1>6, <1>8
<1> QED
  BY <1>5, <1>9 DEF start

\* Memory is read inside its region only, although address and size wrap.
THEOREM AccessesInside == Spec => []AccessInside
BY Invariance, InvAccessInside, PTL

\* No range of the map has an address from lo to hi.
FreeOf(map, lo, hi) == \A r \in map : hi < r.base \/ r.high < lo

\* How a module takes its place: its range begins at its base or behind the
\* module before it, and ends where the module ends; nothing wraps.
TakesPlace(p, q, base, size, m, i) ==
    /\ q.last = base + size
    /\ \/ IsAshmem(m) /\ q.map = p.map
       \/ \E lo \in Int : /\ (lo = base /\ FreeOf(p.map, base, base + size - 1)) \/ (base < p.last /\ lo = p.last)
                          /\ lo <= base + size - 1
                          /\ q.map = p.map \cup {[base |-> lo, high |-> base + size - 1, index |-> i]}

LEMMA PlaceTaken ==
    ASSUME NEW m, Get(m.raw, "base") \in Nat, Get(m.raw, "size") \in Nat, Sound(m.raw),
           NEW p, p.last \in 0..(AddrSpace - 1), NEW q, NEW i, Placed(p, q, m, i)
    PROVE  TakesPlace(p, q, Get(m.raw, "base"), Get(m.raw, "size"), m, i)
<1> DEFINE base == Get(m.raw, "base")
           size == Get(m.raw, "size")
           last == p.last
           rest == Rest(base, size, last)
           end == base + size
<1>1. /\ base \in Nat /\ size \in Nat /\ size # 0 /\ size <= AddrSpace - 1 - base /\ AddrSpace \in Nat \ {0}
      /\ last \in 0..(AddrSpace - 1)
  BY AddrSpaceAssumption DEF Sound, FitsIn
<1>2. /\ rest = Wrap(size - (last - base))
      /\ \/ Storable(p.map, base, size) /\ q.map = StoreRange(p.map, base, size, i) /\ q.last = Wrap(base + size)
         \/ IsAshmem(m) /\ q.map = p.map /\ q.last = Wrap(base + size)
         \/ /\ base < last /\ Storable(p.map, last, rest)
            /\ q.map = StoreRange(p.map, last, rest, i) /\ q.last = Wrap(last + rest)
  BY DEF Placed, Rest
<1> HIDE DEF base, size, last, rest
<1>3. end \in 1..(AddrSpace - 1) /\ end - 1 \in 0..(AddrSpace - 1)
  BY <1>1
<1>4. Wrap(base + size) = end /\ Wrap(base + size - 1) = end - 1
  <2>1. base + size - 1 = end - 1
    BY <1>1
  <2>2. Wrap(end) = end /\ Wrap(end - 1) = end - 1
    BY <1>3, WrapSmall
  <2> QED
    BY <2>1, <2>2
<1>5. CASE Storable(p.map, base, size) /\ q.map = StoreRange(p.map, base, size, i) /\ q.last = Wrap(base + size)
  <2>1. q.map = p.map \cup {[base |-> base, high |-> base + size - 1, index |-> i]}
    <3>1. q.map = p.map \cup {[base |-> base, high |-> Wrap(base + size - 1), index |-> i]}
      BY <1>5 DEF StoreRange
    <3>2. Wrap(base + size - 1) = base + size - 1
      <4>1. end - 1 = base + size - 1
        BY <1>1
      <4> QED
        BY <1>4, <4>1
    <3> QED
      BY <3>1, <3>2
  <2>2. base <= base + size - 1 /\ base \in Int /\ q.last = base + size
    BY <1>1, <1>4, <1>5
  <2>3. FreeOf(p.map, base, base + size - 1)
    <3>1. Wrap(base + size - 1) = base + size - 1
      BY <1>1, <1>4
    <3> QED
      BY <1>5, <3>1 DEF Storable, FreeOf
  <2> QED
    BY <2>1, <2>2, <2>3 DEF TakesPlace, base, size
<1>6. CASE IsAshmem(m) /\ q.map = p.map /\ q.last = Wrap(base + size)
  BY <1>4, <1>6 DEF TakesPlace, base, size
<1>7. CASE /\ base < last /\ Storable(p.map, last, rest)
           /\ q.map = StoreRange(p.map, last, rest, i) /\ q.last = Wrap(last + rest)
  <2>1. rest > 0 /\ Wrap(last + rest - 1) >= last
    BY <1>7 DEF Storable
  <2>2. end > last /\ rest = end - last
    <3>1. CASE end >= last
      <4>1. end - last \in 0..(AddrSpace - 1) /\ size - (last - base) = end - last
        BY <1>1, <1>3, <1>7, <3>1
      <4>2. rest = end - last
        BY <1>2, <4>1, WrapSmall
      <4> QED
        BY <1>1, <1>3, <2>1, <4>2
    <3>2. CASE end < last
      <4>1. /\ size - (last - base) = (AddrSpace + end - last) - AddrSpace
            /\ AddrSpace + end - last \in 0..(AddrSpace - 1) /\ size - (last - base) \in Int
        BY <1>1, <1>3, <3>2
      <4>2. rest = AddrSpace + end - last
        BY <1>2, <4>1, WrapOnce
      <4>3. last + rest - 1 = (end - 1) + AddrSpace /\ last + rest - 1 \in Int
        BY <1>1, <1>3, <4>2
      <4>4. Wrap(last + rest - 1) = end - 1
        BY <1>3, <4>3, WrapOnce
      <4> QED
        BY <1>1, <1>3, <2>1, <3>2, <4>4
    <3> QED
      BY <1>1, <1>3, <3>1, <3>2
  <2>3. last + rest = end /\ last + rest - 1 = end - 1
    BY <1>1, <1>3, <2>2
  <2>4. Wrap(last + rest) = end /\ Wrap(last + rest - 1) = end - 1
    BY <1>3, <2>3, WrapSmall
  <2>5. q.map = p.map \cup {[base |-> last, high |-> base + size - 1, index |-> i]} /\ q.last = base + size
    BY <1>1, <1>7, <2>4 DEF StoreRange
  <2>6. last <= base + size - 1 /\ last \in Int
    BY <1>1, <2>2
  <2> QED
    BY <1>7, <2>5, <2>6 DEF TakesPlace, base, size, last
<1> QED
  BY <1>2, <1>5, <1>6, <1>7
\* What holds of the map behind n modules: each range is inside its module,
\* and in an orderly list no address of a module that is not ignored is lost.
BaseOf(items, i) == Get(items[i].raw, "base")
EndOf(items, i)  == Get(items[i].raw, "base") + Get(items[i].raw, "size")

Inside(map, items, n) ==
    \A r \in map : /\ r.index \in 1..n /\ r.base \in Int /\ r.high \in Int
                   /\ BaseOf(items, r.index) <= r.base /\ r.high < EndOf(items, r.index)

Covered(map, items, n) ==
    \A j \in 1..n : ~IsAshmem(items[j]) =>
        \A a \in Nat : BaseOf(items, j) <= a /\ a < EndOf(items, j) => \E r \in map : r.base <= a /\ a <= r.high

Orderly(items, n) ==
    \A i \in 2..n : BaseOf(items, i - 1) <= BaseOf(items, i) /\ ~IsAshmem(items[i - 1])

LastIs(last, items, n) == last = IF n = 0 THEN 0 ELSE EndOf(items, n)

\* One more module.
LEMMA OneMorePlaced ==
    ASSUME NEW items, NEW i \in Nat \ {0}, NEW p, NEW q,
           \A j \in 1..i : /\ BaseOf(items, j) \in Nat /\ EndOf(items, j) \in 1..(AddrSpace - 1)
                           /\ BaseOf(items, j) < EndOf(items, j),
           TakesPlace(p, q, BaseOf(items, i), EndOf(items, i) - BaseOf(items, i), items[i], i),
           LastIs(p.last, items, i - 1), Inside(p.map, items, i - 1)
    PROVE  /\ LastIs(q.last, items, i) /\ Inside(q.map, items, i)
           /\ Orderly(items, i) /\ Covered(p.map, items, i - 1) => Covered(q.map, items, i)
<1> DEFINE base == BaseOf(items, i)
           end == EndOf(items, i)
<1>1. base \in Nat /\ end \in Nat /\ base < end /\ base + (end - base) = end /\ base + (end - base) - 1 = end - 1
  OBVIOUS
<1>2. /\ q.last = end
      /\ \/ IsAshmem(items[i]) /\ q.map = p.map
         \/ \E lo \in Int : /\ lo = base \/ (base < p.last /\ lo = p.last)
                            /\ lo <= end - 1
                            /\ q.map = p.map \cup {[base |-> lo, high |-> end - 1, index |-> i]}
  BY <1>1 DEF TakesPlace
<1>3. LastIs(q.last, items, i)
  BY <1>2 DEF LastIs
<1> HIDE DEF base, end
<1>4. ASSUME NEW r \in p.map
      PROVE  /\ r.index \in 1..i /\ r.base \in Int /\ r.high \in Int
             /\ BaseOf(items, r.index) <= r.base /\ r.high < EndOf(items, r.index)
  BY DEF Inside
<1>5. CASE IsAshmem(items[i]) /\ q.map = p.map
  <2>1. Inside(q.map, items, i)
    BY <1>4, <1>5 DEF Inside
  <2>2. Covered(p.map, items, i - 1) => Covered(q.map, items, i)
    BY <1>5 DEF Covered
  <2> QED
    BY <1>3, <2>1, <2>2
<1>6. ASSUME NEW lo \in Int, lo = base \/ (base < p.last /\ lo = p.last), lo <= end - 1,
             q.map = p.map \cup {[base |-> lo, high |-> end - 1, index |-> i]}
      PROVE  /\ Inside(q.map, items, i)
             /\ Orderly(items, i) /\ Covered(p.map, items, i - 1) => Covered(q.map, items, i)
  <2> DEFINE r == [base |-> lo, high |-> end - 1, index |-> i]
  <2>0. r.base = lo /\ r.high = end - 1 /\ r.index = i /\ q.map = p.map \cup {r}
    BY <1>6
  <2> HIDE DEF r
  <2>1. base <= lo /\ end - 1 < end
    BY <1>1, <1>6 DEF LastIs
  <2>2. Inside(q.map, items, i)
    BY <1>1, <1>4, <2>0, <2>1 DEF Inside, base, end
  <2>3. ASSUME Orderly(items, i), Covered(p.map, items, i - 1), NEW j \in 1..i, ~IsAshmem(items[j]),
               NEW a \in Nat, BaseOf(items, j) <= a, a < EndOf(items, j)
        PROVE  \E x \in q.map : x.base <= a /\ a <= x.high
    <3>1. CASE j # i
      <4>1. j \in 1..(i - 1)
        BY <3>1
      <4>2. \E x \in p.map : x.base <= a /\ a <= x.high
        BY <2>3, <4>1 DEF Covered
      <4> QED
        BY <2>0, <4>2
    <3>2. CASE j = i /\ lo <= a
      BY <1>1, <2>0, <2>3, <3>2 DEF end
    <3>3. CASE j = i /\ a < lo
      <4>1. lo = p.last /\ base < p.last
        BY <1>1, <1>6, <2>3, <3>3 DEF base
      <4>2. i # 1 /\ i - 1 \in 1..i /\ i \in 2..i /\ p.last = EndOf(items, i - 1)
        BY <1>1, <4>1 DEF LastIs
      <4>3. BaseOf(items, i - 1) <= base /\ ~IsAshmem(items[i - 1]) /\ BaseOf(items, i - 1) \in Nat
        BY <2>3, <4>2 DEF Orderly, base
      <4>4. BaseOf(items, i - 1) <= a /\ a < EndOf(items, i - 1)
        BY <1>1, <2>3, <3>3, <4>1, <4>2, <4>3 DEF base
      <4>5. \E x \in p.map : x.base <= a /\ a <= x.high
        BY <2>3, <4>2, <4>3, <4>4 DEF Covered
      <4> QED
        BY <2>0, <4>5
    <3> QED
      BY <1>6, <2>3, <3>1, <3>2, <3>3
  <2>4. Orderly(items, i) /\ Covered(p.map, items, i - 1) => Covered(q.map, items, i)
    BY <2>3 DEF Covered
  <2> QED
    BY <2>2, <2>4
<1> QED
  BY <1>2, <1>3, <1>5, <1>6

\* The modules of a list are sound ones.
SoundModules(items, n) ==
    \A i \in 1..n : /\ Get(items[i].raw, "base") \in Nat /\ Get(items[i].raw, "size") \in Nat
                    /\ Sound(items[i].raw)

LEMMA SoundEnds ==
    ASSUME NEW items, NEW n \in Nat, SoundModules(items, n)
    PROVE  \A j \in 1..n : /\ BaseOf(items, j) \in Nat /\ EndOf(items, j) \in 1..(AddrSpace - 1)
                           /\ BaseOf(items, j) < EndOf(items, j)
                           /\ EndOf(items, j) - BaseOf(items, j) = Get(items[j].raw, "size")
BY AddrSpaceAssumption DEF SoundModules, Sound, FitsIn, BaseOf, EndOf

\* Placing the modules one after the other.
LEMMA AllPlaced ==
    ASSUME NEW h, NEW items, NEW n \in Nat, Placing(h, items, n), SoundModules(items, n)
    PROVE  \A i \in 0..n : /\ LastIs(h[i].last, items, i) /\ Inside(h[i].map, items, i)
                           /\ Orderly(items, i) => Covered(h[i].map, items, i)
<1> DEFINE Good(i) == /\ LastIs(h[i].last, items, i) /\ Inside(h[i].map, items, i)
                      /\ Orderly(items, i) => Covered(h[i].map, items, i)
           T == {i \in 0..n : Good(i)}
<1>0. AddrSpace \in Nat \ {0}
  BY AddrSpaceAssumption
<1>1. Good(0)
  BY DEF Placing, LastIs, Inside, Covered
<1>2. ASSUME NEW i \in 0..(n - 1), Good(i)
      PROVE  Good(i + 1)
  <2> DEFINE k == i + 1
             p == h[i]
             q == h[k]
  <2>0. k \in 1..n /\ k - 1 = i /\ k \in Nat \ {0} /\ i \in Nat
    OBVIOUS
  <2>1. Placed(p, q, items[k], k)
    BY <2>0 DEF Placing
  <2>2. \A j \in 1..k : /\ BaseOf(items, j) \in Nat /\ EndOf(items, j) \in 1..(AddrSpace - 1)
                        /\ BaseOf(items, j) < EndOf(items, j)
                        /\ EndOf(items, j) - BaseOf(items, j) = Get(items[j].raw, "size")
    BY <2>0, SoundEnds
  <2>3. LastIs(p.last, items, i) /\ Inside(p.map, items, i) /\ (Orderly(items, i) => Covered(p.map, items, i))
    BY <1>2
  <2> HIDE DEF p, q, k
  <2>4. p.last \in 0..(AddrSpace - 1)
    <3>1. i # 0 => i \in 1..k
      BY <2>0
    <3> QED
      BY <1>0, <2>2, <2>3, <3>1 DEF LastIs
  <2>5. TakesPlace(p, q, BaseOf(items, k), EndOf(items, k) - BaseOf(items, k), items[k], k)
    <3>1. k \in 1..k
      BY <2>0
    <3>2. Get(items[k].raw, "base") \in Nat /\ Get(items[k].raw, "size") \in Nat /\ Sound(items[k].raw)
      BY <2>0 DEF SoundModules
    <3>3. TakesPlace(p, q, Get(items[k].raw, "base"), Get(items[k].raw, "size"), items[k], k)
      BY <2>1, <2>4, <3>2, PlaceTaken
    <3> QED
      BY <2>2, <3>1, <3>3 DEF BaseOf
  <2>6. /\ LastIs(q.last, items, k) /\ Inside(q.map, items, k)
        /\ Orderly(items, k) /\ Covered(p.map, items, i) => Covered(q.map, items, k)
    <3>1. LastIs(p.last, items, k - 1) /\ Inside(p.map, items, k - 1)
      BY <2>0, <2>3
    <3> QED
      BY <2>0, <2>2, <2>5, <3>1, OneMorePlaced
  <2>7. Orderly(items, k) => Orderly(items, i)
    BY <2>0 DEF Orderly
  <2> QED
    BY <2>3, <2>6, <2>7 DEF q, k
<1> HIDE DEF Good
<1>3. 0 \in T /\ \A i \in 0..(n - 1) : i \in T => i + 1 \in T
  BY <1>1, <1>2
<1>4. \A i \in 0..n : i \in T
  BY <1>3, Induct
<1> QED
  BY <1>4 DEF Good
\* The list of modules that is kept: its modules are sound, and its map comes
\* from placing them.
LEMMA ListPlaced ==
    ASSUME FileOK, DirectoryOK, NEW v, ModulesOK(v),
           NEW n, n = CountOf(Place("ModuleList")),
           NEW cells, cells = ItemCells(Place("ModuleList"), SizeOf("ModuleList"))
    PROVE  /\ n \in Nat
           /\ v.items = [i \in 1..n |-> v.items[i]]
           /\ \A i \in 1..n : v.items[i].raw = cells[i] /\ IsCell(cells[i])
           /\ SoundModules(v.items, n)
           /\ \E h : Placing(h, v.items, n) /\ v.map = h[n].map
<1> DEFINE at == Place("ModuleList")
<1>1. ModulesRead(v, cells, n) /\ \A i \in 1..n : Sound(cells[i])
  BY DEF ModulesOK
<1>2. n \in Nat /\ \A i \in 1..n : IsCell(cells[i])
  <2>1. at \in Nat /\ SizeOf("ModuleList") \in Nat
    BY DirectoryNumbers DEF ModulesOK, Listless, InDirectory
  <2>2. n \in Nat /\ at + SizeOf("ModuleList") - n \in Int
    BY <2>1, CountIsNat
  <2> QED
    BY <2>2, BlockCells DEF ItemCells
<1>3. /\ v.items = [i \in 1..n |-> v.items[i]]
      /\ \E h : Placing(h, v.items, n) /\ v.map = h[n].map
  BY <1>1 DEF ModulesRead
<1>4. \A i \in 1..n : v.items[i].raw = cells[i]
  <2>1. \A x, m : ModuleRead(x, m) => x.raw = m
    BY DEF ModuleRead
  <2> QED
    BY <1>1, <2>1 DEF ModulesRead
<1>5. SoundModules(v.items, n)
  BY <1>1, <1>2, <1>4 DEF SoundModules, IsCell, Unsigned
<1> QED
  BY <1>2, <1>3, <1>4, <1>5

LEMMA InvModulesHaveTheirAddresses == IInv => ModulesHaveTheirAddresses
<1> SUFFICES ASSUME IInv, rd.streams["ModuleList"] # NULL, NEW v, v = rd.streams["ModuleList"],
                    NEW a \in 0..(AddrSpace - 1)
             PROVE  LET Base(i) == Get(v.items[i].raw, "base")
                        Has(i, b) == Base(i) <= b /\ b < Base(i) + Get(v.items[i].raw, "size")
                        InOrder == \A i \in DOMAIN v.items \ {1} : Base(i - 1) <= Base(i) /\ ~IsAshmem(v.items[i - 1])
                    IN  /\ RetrieveRange(v.map, a, 0) # 0 => Has(RetrieveRange(v.map, a, 0), a)
                        /\ RetrieveRange(v.map, a, 0) = 0 /\ InOrder =>
                              \A i \in DOMAIN v.items : Has(i, a) => IsAshmem(v.items[i])
  BY DEF ModulesHaveTheirAddresses
<1>1. FileOK /\ DirectoryOK /\ ModulesOK(v)
  BY InvGives DEF Holds, KeepsModules
<1>2. PICK n \in Nat : /\ v.items = [i \in 1..n |-> v.items[i]]
                       /\ SoundModules(v.items, n)
                       /\ \E h : Placing(h, v.items, n) /\ v.map = h[n].map
  <2>1. PICK n, cells : n = CountOf(Place("ModuleList")) /\ cells = ItemCells(Place("ModuleList"), SizeOf("ModuleList"))
    OBVIOUS
  <2>2. /\ n \in Nat /\ v.items = [i \in 1..n |-> v.items[i]] /\ SoundModules(v.items, n)
        /\ \E h : Placing(h, v.items, n) /\ v.map = h[n].map
    BY <1>1, <2>1, ListPlaced
  <2> QED
    BY <2>2, Zenon
<1>3. PICK h : Placing(h, v.items, n) /\ v.map = h[n].map
  BY <1>2
<1>4. Inside(v.map, v.items, n) /\ (Orderly(v.items, n) => Covered(v.map, v.items, n))
  BY <1>2, <1>3, AllPlaced
<1>5. DOMAIN v.items = 1..n
  BY <1>2
<1> DEFINE found == RetrieveRange(v.map, a, 0)
<1>6. CASE Within(v.map, a) = {}
  <2>1. found = 0
    BY <1>6 DEF RetrieveRange
  <2>2. ASSUME \A i \in (1..n) \ {1} : BaseOf(v.items, i - 1) <= BaseOf(v.items, i) /\ ~IsAshmem(v.items[i - 1]),
               NEW i \in 1..n, BaseOf(v.items, i) <= a, a < EndOf(v.items, i)
        PROVE  IsAshmem(v.items[i])
    <3>1. Orderly(v.items, n)
      BY <2>2 DEF Orderly
    <3>2. a \in Nat
      BY AddrSpaceAssumption
    <3> QED
      BY <1>4, <1>6, <2>2, <3>1, <3>2 DEF Covered, Within
  <2> QED
    BY <1>5, <2>1, <2>2 DEF BaseOf, EndOf
<1>7. CASE Within(v.map, a) # {}
  <2>1. PICK r : r \in Within(v.map, a) /\ found = r.index
    BY <1>7 DEF RetrieveRange
  <2>2. /\ found \in 1..n /\ r.base \in Int /\ r.high \in Int
        /\ BaseOf(v.items, found) <= r.base /\ r.high < EndOf(v.items, found)
        /\ r.base <= a /\ a <= r.high
    BY <1>4, <2>1 DEF Inside, Within
  <2>3. BaseOf(v.items, found) <= a /\ a < EndOf(v.items, found) /\ found # 0
    <3>1. BaseOf(v.items, found) \in Int /\ EndOf(v.items, found) \in Int /\ a \in Int /\ r.base \in Int /\ r.high \in Int
      BY <1>2, <2>2, SoundEnds
    <3> QED
      BY <2>2, <3>1
  <2> QED
    BY <2>3 DEF BaseOf, EndOf
<1> QED
  BY <1>6, <1>7

\* A module found for an address has that address; in a list in order of the
\* addresses no address of a module is lost.
THEOREM ModulesFoundByAddress == Spec => []ModulesHaveTheirAddresses
BY Invariance, InvModulesHaveTheirAddresses, PTL
=============================================================================
