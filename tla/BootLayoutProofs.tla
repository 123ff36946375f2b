-------------------------- MODULE BootLayoutProofs --------------------------
(***************************************************************************)
(* Where the boot's vectors, tables and pages lie in the heap.  The device *)
(* lists grow and shrink in one page of the heap, in front of the guest's  *)
(* memory; everything behind it is taken in whole pages.  So every table   *)
(* is page aligned, although the allocator is not asked for it.            *)
(***************************************************************************)
EXTENDS BootProofs

\* The vectors' area from B to E: below X it is in use or in pieces, from X on it
\* is one hole.  Behind E the heap may have other holes.
Area(holes, B, X, E) ==
    /\ B <= X /\ X <= E
    /\ \A h \in holes : /\ B <= h.at
                        /\ h.at + h.len <= X \/ h = Hole(X, E - X) \/ E <= h.at
    /\ X < E => Hole(X, E - X) \in holes

\* The holes behind the area do not change.
SameTail(holes, new, E) == \A h \in new : E <= h.at => h \in holes

\* A small piece is taken in the area: below X if it has room there.
LEMMA AreaAllocate ==
    ASSUME NEW holes, NEW lo \in Nat, NEW hi \in Nat, HolesOK(holes, lo, hi),
           NEW B \in Nat, NEW X \in Nat, NEW E \in Nat, Area(holes, B, X, E),
           NEW size \in Nat \ {0}, Candidates(holes, size, 1) # {},
           E = hi \/ X + size + MIN_HOLE <= E
    PROVE  LET a == allocate(holes, size, 1)
           IN \E Y \in {X, X + size} :
                 /\ Area(a.holes, B, Y, E) /\ SameTail(holes, a.holes, E)
                 /\ a.at \in Nat /\ B <= a.at /\ a.at + size <= Y
                 /\ (\E g \in holes : Room(g, size) /\ g.at < X) => Y = X
<1>1. \A h \in holes : h \in Piece /\ h.at \in Nat /\ h.len \in Nat \ {0} /\ h.at + h.len <= hi
                        /\ h.at % 1 = 0
  BY DEF HolesOK, Piece
<1>a. PICK h \in holes : CutFrom(holes, h, size, 1)
  BY <1>1, AllocateAligned DEF HolesOK
<1>2. /\ h.at % 1 = 0 /\ Room(h, size)
      /\ \A g \in holes : g.at % 1 = 0 /\ Room(g, size) => h.at <= g.at
      /\ allocate(holes, size, 1) = [at |-> h.at, holes |-> Cut(holes, h, size)]
  BY <1>a DEF CutFrom
<1>3. h.at < E
  <2>1. CASE E = hi
    BY <1>1, <2>1
  <2>2. CASE X + size + MIN_HOLE <= E
    <3>1. Hole(X, E - X) \in holes
      BY <2>2 DEF Area, MIN_HOLE
    <3>2. Room(Hole(X, E - X), size) /\ Hole(X, E - X).at = X
      BY <2>2 DEF Hole, Room, MIN_HOLE
    <3>3. h.at <= X
      BY <1>1, <1>2, <3>1, <3>2
    <3>4. QED
      BY <1>1, <2>2, <3>3 DEF MIN_HOLE
  <2>3. QED
    BY <2>1, <2>2
<1>h. h.at \in Nat /\ h.len \in Nat \ {0} /\ size <= h.len /\ B <= h.at
  BY <1>1, <1>2 DEF Room, MIN_HOLE, Area
<1> DEFINE r == Hole(h.at + size, h.len - size)
<1>r. r.at = h.at + size /\ r.len = h.len - size
  BY DEF Hole
<1>4. CASE h.at + h.len <= X
  <2>1. \A g \in Cut(holes, h, size) : g \in holes \/ (g = r /\ r.at + r.len <= X /\ B <= r.at /\ r.at < E)
    BY <1>3, <1>4, <1>h, <1>r DEF Cut, Area
  <2>2. X < E => h # Hole(X, E - X)
    BY <1>4, <1>h DEF Hole
  <2>3. Area(Cut(holes, h, size), B, X, E)
    <3>1. X < E => Hole(X, E - X) \in Cut(holes, h, size)
      BY <2>2 DEF Cut, Area
    <3>2. QED
      BY <2>1, <3>1 DEF Area
  <2>4. SameTail(holes, Cut(holes, h, size), E)
    BY <1>3, <1>h, <1>4, <2>1, <1>r DEF SameTail, Area
  <2>5. h.at + size <= X
    BY <1>4, <1>h
  <2>6. QED
    BY <1>2, <1>h, <2>3, <2>4, <2>5
<1>5. CASE h = Hole(X, E - X)
  <2>1. h.at = X /\ h.len = E - X /\ r = Hole(X + size, E - (X + size))
    BY <1>5, <1>h DEF Hole
  <2>2. \A g \in Cut(holes, h, size) :
           (g \in holes /\ g # h) \/ (g = Hole(X + size, E - (X + size)) /\ r.len > 0)
    BY <2>1 DEF Cut
  <2>3. X + size <= E /\ (X + size < E => Hole(X + size, E - (X + size)) \in Cut(holes, h, size))
    BY <1>h, <2>1, <1>r DEF Cut
  <2>4. ASSUME NEW g \in Cut(holes, h, size)
        PROVE  /\ B <= g.at
               /\ g.at + g.len <= X + size \/ g = Hole(X + size, E - (X + size)) \/ E <= g.at
               /\ E <= g.at => g \in holes
    <3>1. CASE g \in holes /\ g # h
      BY <1>1, <1>5, <3>1 DEF Area
    <3>2. CASE g = Hole(X + size, E - (X + size)) /\ r.len > 0
      <4>1. g.at = X + size /\ X + size < E
        BY <1>r, <2>1, <3>2 DEF Hole
      <4>2. QED
        BY <1>h, <2>1, <3>2, <4>1
    <3>3. QED
      BY <2>2, <3>1, <3>2
  <2>5. Area(Cut(holes, h, size), B, X + size, E)
    BY <2>3, <2>4 DEF Area
  <2>6. SameTail(holes, Cut(holes, h, size), E)
    BY <2>4 DEF SameTail
  <2>7. ~\E g \in holes : Room(g, size) /\ g.at < X
    BY <1>1, <1>2, <2>1
  <2>8. QED
    BY <1>2, <1>h, <2>1, <2>5, <2>6, <2>7
<1>6. QED
  BY <1>3, <1>4, <1>5, <1>h DEF Area

\* A piece of the area is freed: it joins the hole at the end, or X is unchanged.
LEMMA AreaFree ==
    ASSUME NEW holes, NEW lo \in Nat, NEW hi \in Nat, HolesOK(holes, lo, hi),
           NEW B \in Nat, NEW X \in Nat, NEW E \in Nat, Area(holes, B, X, E),
           X < E \/ E = hi,
           NEW at \in Nat, NEW size \in Nat \ {0}, B <= at, at + size <= X,
           ApartFromAll(Hole(at, size), holes)
    PROVE  \E Y \in Nat : /\ Y <= X /\ Area(deallocate(holes, at, size), B, Y, E)
                          /\ SameTail(holes, deallocate(holes, at, size), E)
<1> DEFINE near == {h \in holes : h.at + h.len = at \/ h.at = at + size}
           top == Hole(X, E - X)
<1>1. \A h \in holes : h \in Piece /\ h.at \in Nat /\ h.len \in Nat \ {0} /\ h.at + h.len <= hi
  BY DEF HolesOK, Piece
<1>2. PICK from \in Nat, to \in Nat :
         /\ deallocate(holes, at, size) = (holes \ near) \cup {Hole(from, to - from)}
         /\ from = at \/ \E h \in holes : from = h.at /\ h.at + h.len = at
         /\ \A h \in holes : h.at + h.len = at => from = h.at
         /\ to = at + size \/ \E h \in holes : to = h.at + h.len /\ h.at = at + size
         /\ \A h \in holes : h.at = at + size => to = h.at + h.len
  BY DeallocateForm DEF JoinsNeighbours
<1> DEFINE new == Hole(from, to - from)
           free == (holes \ near) \cup {new}
<1>3. B <= from /\ from <= at /\ from < E /\ new.at = from /\ new.len = to - from
  BY <1>1, <1>2 DEF Area, Hole
<1>t. top.at = X /\ top.len = E - X
  BY DEF Hole
<1>4. CASE at + size = X /\ X < E
  <2>1. top \in holes /\ top \in near
    BY <1>4, <1>t DEF Area
  <2>2. to = E
    BY <1>2, <1>4, <1>t, <2>1
  <2>3. ASSUME NEW g \in holes \ near PROVE B <= g.at /\ (g.at + g.len <= from \/ E <= g.at)
    <3>1. g # top /\ B <= g.at /\ (g.at + g.len <= X \/ E <= g.at)
      BY <2>1 DEF Area
    <3>2. CASE g.at + g.len <= X
      <4>1. g.at + g.len <= at
        BY <1>1, <1>4, <3>2 DEF ApartFromAll, Apart, Hole
      <4>2. CASE from = at
        BY <3>1, <4>1, <4>2
      <4>3. CASE \E h \in holes : from = h.at /\ h.at + h.len = at
        <5>1. PICK h \in holes : from = h.at /\ h.at + h.len = at
          BY <4>3
        <5>2. g # h /\ Apart(g, h)
          BY <5>1 DEF HolesOK
        <5>3. QED
          BY <1>1, <3>1, <4>1, <5>1, <5>2 DEF Apart
      <4>4. QED
        BY <1>2, <4>2, <4>3
    <3>3. QED
      BY <3>1, <3>2
  <2>4. Area(free, B, from, E)
    BY <1>3, <2>2, <2>3 DEF Area
  <2>5. SameTail(holes, free, E)
    BY <1>3 DEF SameTail
  <2>6. from <= X
    BY <1>3
  <2>7. QED
    BY <1>2, <2>4, <2>5, <2>6
<1>5. CASE ~(at + size = X /\ X < E)
  <2>1. to <= X
    <3>1. CASE to = at + size
      BY <3>1
    <3>2. CASE \E h \in holes : to = h.at + h.len /\ h.at = at + size
      <4>1. PICK h \in holes : to = h.at + h.len /\ h.at = at + size
        BY <3>2
      <4>2. h # top /\ ~(E <= h.at)
        BY <1>1, <1>5, <1>t, <4>1 DEF Area
      <4>3. QED
        BY <4>1, <4>2 DEF Area
    <3>3. QED
      BY <1>2, <3>1, <3>2
  <2>2. from <= to /\ at + size <= to
    BY <1>1, <1>2, <1>3
  <2>3. X < E => top \notin near /\ top \in free
    BY <1>5, <1>t DEF Area
  <2>n. B <= new.at /\ new.at + new.len <= X
    BY <1>3, <2>1, <2>2
  <2> HIDE DEF new
  <2>4. Area(free, B, X, E)
    BY <2>n, <2>3 DEF Area
  <2>5. SameTail(holes, free, E)
    BY <1>3 DEF SameTail
  <2>6. deallocate(holes, at, size) = free
    BY <1>2, Zenon DEF new
  <2> HIDE DEF free
  <2>7. QED
    BY <2>4, <2>5, <2>6
<1>6. QED
  BY <1>4, <1>5

----------------------------------------------------------------------------
(* What the requests do to the area                                        *)

\* The vectors lie between B and E.
VecsIn(h, B, E) ==
    \A v \in Vecs : h.vecs[v].len # 0 => B <= h.vecs[v].at /\ h.vecs[v].at + h.vecs[v].len <= E

\* The heap h is well formed, and own holds everything in use.
Sound(h, own, end) ==
    h \in MemType /\ HeapOwners(h) \subseteq own /\ end \in Nat /\ OwnersOK(own, h.holes, end)

LEMMA SoundFacts ==
    ASSUME NEW h, NEW own, NEW end, Sound(h, own, end)
    PROVE  /\ h.holes \subseteq Piece /\ HolesOK(h.holes, HeapStart, end) /\ HeapStart \in Nat
           /\ end \in Nat
           /\ \A k \in h.holes : k.at \in Nat /\ k.len \in Nat \ {0} /\ k.at + k.len <= end
           /\ \A v \in Vecs : h.vecs[v].at \in Nat /\ h.vecs[v].len \in Nat
<1>1. h.holes \subseteq Piece /\ HolesOK(h.holes, HeapStart, end) /\ end \in Nat
  BY DEF Sound, OwnersOK, HolesOK
<1>2. \A k \in h.holes : k.at \in Nat /\ k.len \in Nat \ {0} /\ k.at + k.len <= end
  BY <1>1 DEF HolesOK, Piece
<1>3. \A v \in Vecs : h.vecs[v].at \in Nat /\ h.vecs[v].len \in Nat
  BY DEF Sound, MemType
<1>4. QED
  BY <1>1, <1>2, <1>3, BootAssumption

\* A vector in use is apart from every hole.
LEMMA VecApart ==
    ASSUME NEW h, NEW own, NEW end, Sound(h, own, end), NEW v \in Vecs, h.vecs[v].len # 0
    PROVE  Owner(v, h.vecs[v].at, h.vecs[v].len) \in own
           /\ ApartFromAll(Hole(h.vecs[v].at, h.vecs[v].len), h.holes)
<1> DEFINE x == Owner(v, h.vecs[v].at, h.vecs[v].len)
<1>1. x \in own /\ x.at = h.vecs[v].at /\ x.len = h.vecs[v].len
  BY DEF Sound, HeapOwners, Owner
<1>2. ApartFromAll(x, h.holes)
  BY <1>1 DEF Sound, OwnersOK
<1>3. QED
  BY <1>1, <1>2 DEF ApartFromAll, Apart, Hole

\* So the vectors in the area lie below X.
LEMMA VecBelow ==
    ASSUME NEW h, NEW own, NEW end, Sound(h, own, end),
           NEW B \in Nat, NEW X \in Nat, NEW E \in Nat, Area(h.holes, B, X, E), VecsIn(h, B, E),
           NEW v \in Vecs, h.vecs[v].len # 0
    PROVE  B <= h.vecs[v].at /\ h.vecs[v].at + h.vecs[v].len <= X
<1> DEFINE at == h.vecs[v].at
           len == h.vecs[v].len
<1>1. at \in Nat /\ len \in Nat /\ len # 0 /\ B <= at /\ at + len <= E
  BY SoundFacts DEF VecsIn
<1>2. ApartFromAll(Hole(at, len), h.holes)
  BY VecApart
<1> HIDE DEF at, len
<1>3. at + len <= X
  <2>1. CASE X < E
    <3>1. Apart(Hole(at, len), Hole(X, E - X))
      BY <1>2, <2>1 DEF ApartFromAll, Area
    <3>2. QED
      BY <1>1, <2>1, <3>1 DEF Apart, Hole
  <2>2. QED
    BY <1>1, <2>1 DEF Area
<1>4. QED
  BY <1>1, <1>3 DEF at, len

\* An allocation that succeeds.
LEMMA TakeForm ==
    ASSUME NEW h \in MemType, NEW size, NEW align, NEW b, b = take(h, size, align), b.ok
    PROVE  /\ Candidates(h.holes, size, align) # {}
           /\ b.holes = allocate(h.holes, size, align).holes
           /\ b.last = allocate(h.holes, size, align).at
           /\ b.tables = h.tables /\ b.ram = h.ram /\ b.vecs = h.vecs
<1>1. CASE ~(h.ok /\ Candidates(h.holes, size, align) # {})
  <2>1. b = [h EXCEPT !.ok = FALSE]
    BY <1>1, Zenon DEF take
  <2>2. ~b.ok
    BY <2>1 DEF MemType
  <2>3. QED
    BY <2>2
<1>2. CASE h.ok /\ Candidates(h.holes, size, align) # {}
  <2> DEFINE a == allocate(h.holes, size, align)
  <2>1. b = [h EXCEPT !.holes = a.holes, !.last = a.at]
    BY <1>2, Zenon DEF take
  <2> HIDE DEF a
  <2>2. b.holes = a.holes /\ b.last = a.at /\ b.tables = h.tables /\ b.ram = h.ram /\ b.vecs = h.vecs
    BY <2>1 DEF MemType
  <2>3. QED
    BY <1>2, <2>2 DEF a
<1>3. QED
  BY <1>1, <1>2

LEMMA TakeSound ==
    ASSUME NEW h, NEW own, NEW end, Sound(h, own, end),
           NEW size \in Nat \ {0}, NEW align \in Nat \ {0}
    PROVE  Sound(take(h, size, align), own, end)
<1> DEFINE b == take(h, size, align)
<1>1. TakenOK(h, b, own, end, "new", size, align)
  BY TakeOK DEF Sound, PageKinds, Queues
<1> HIDE DEF b
<1>2. b \in MemType /\ OwnersOK(own, b.holes, end) /\ HeapOwners(b) = HeapOwners(h)
  BY <1>1, Zenon DEF TakenOK, HeapOwners
<1>3. QED
  BY <1>2 DEF b, Sound

\* The heap g after vector v has grown, from the heap b that holds its new buffer.
Grown(h, b, g, v, n) ==
    /\ b.ok /\ g.tables = h.tables
    /\ g.vecs = [h.vecs EXCEPT ![v] = [at |-> b.last, len |-> n]]
    /\ g.holes = IF h.vecs[v].len = 0 THEN b.holes
                 ELSE deallocate(b.holes, h.vecs[v].at, h.vecs[v].len)

LEMMA GrowForm ==
    ASSUME NEW h \in MemType, NEW v \in Vecs, NEW n \in Nat \ {0},
           NEW b, b = take(h, n, 1), b \in MemType, NEW g, g = grow(h, v, n), g.ok
    PROVE  Grown(h, b, g, v, n)
<1> USE DEF Grown
<1>1. g = IF b.ok THEN [release(b, b.vecs[v]) EXCEPT !.vecs[v] = [at |-> b.last, len |-> n]]
          ELSE b
  BY Zenon DEF grow
<1>2. b.ok
  BY <1>1
<1>3. b.vecs = h.vecs /\ b.tables = h.tables
  BY <1>2, TakeForm
<1>4. CASE h.vecs[v].len = 0
  <2>1. release(b, b.vecs[v]) = b
    BY <1>3, <1>4, Zenon DEF release
  <2>2. QED
    BY <1>1, <1>2, <1>3, <1>4, <2>1 DEF MemType
<1>5. CASE h.vecs[v].len # 0
  <2> DEFINE free == deallocate(b.holes, h.vecs[v].at, h.vecs[v].len)
  <2>1. release(b, b.vecs[v]) = [b EXCEPT !.holes = free]
    BY <1>3, <1>5, Zenon DEF release
  <2> HIDE DEF free
  <2> DEFINE rel == release(b, b.vecs[v])
  <2>r. rel = [holes |-> free, last |-> b.last, tables |-> b.tables, ram |-> b.ram, ok |-> b.ok,
               vecs |-> b.vecs]
    BY <2>1 DEF MemType
  <2>g. g = [rel EXCEPT !.vecs[v] = [at |-> b.last, len |-> n]]
    BY <1>1, <1>2
  <2> HIDE DEF rel
  <2>2. g.holes = free /\ g.tables = b.tables /\ g.vecs = [b.vecs EXCEPT ![v] = [at |-> b.last, len |-> n]]
    BY <2>r, <2>g
  <2>3. QED
    BY <1>2, <1>3, <1>5, <2>2 DEF free
<1>6. QED
  BY <1>4, <1>5

\* A vector that grows stays in the area, below X if its new buffer has room there.
LEMMA GrowInArea ==
    ASSUME NEW h, NEW own, NEW end, Sound(h, own, end),
           NEW B \in Nat, NEW X \in Nat, NEW E \in Nat, Area(h.holes, B, X, E), VecsIn(h, B, E),
           NEW v \in Vecs, NEW n \in Nat \ {0}, E = end \/ X + n + MIN_HOLE <= E,
           NEW g, g = grow(h, v, n), g.ok
    PROVE  /\ g.tables = h.tables /\ SameTail(h.holes, g.holes, E) /\ VecsIn(g, B, E)
           /\ \A w \in Vecs : g.vecs[w].len = IF w = v THEN n ELSE h.vecs[w].len
           /\ \E Y \in Nat : /\ Y <= X + n /\ Area(g.holes, B, Y, E)
                             /\ (\E k \in h.holes : Room(k, n) /\ k.at < X) => Y <= X
<1> DEFINE b == take(h, n, 1)
           old == h.vecs[v]
           low == \E k \in h.holes : Room(k, n) /\ k.at < X
<1>0. h \in MemType /\ 1 \in Nat \ {0}
  BY DEF Sound
<1>1. Sound(b, own, end)
  BY <1>0, TakeSound
<1> HIDE DEF b
<1>2. /\ b.ok /\ g.tables = h.tables
      /\ g.vecs = [h.vecs EXCEPT ![v] = [at |-> b.last, len |-> n]]
      /\ g.holes = IF old.len = 0 THEN b.holes ELSE deallocate(b.holes, old.at, old.len)
  BY <1>0, <1>1, GrowForm DEF b, Sound, Grown
<1>3. /\ Candidates(h.holes, n, 1) # {} /\ b.vecs = h.vecs
      /\ b.holes = allocate(h.holes, n, 1).holes /\ b.last = allocate(h.holes, n, 1).at
  BY <1>0, <1>2, TakeForm DEF b
<1>4. HolesOK(h.holes, HeapStart, end) /\ HeapStart \in Nat /\ end \in Nat
  BY SoundFacts
<1>5. PICK Y \in {X, X + n} :
         /\ Area(b.holes, B, Y, E) /\ SameTail(h.holes, b.holes, E)
         /\ b.last \in Nat /\ B <= b.last /\ b.last + n <= Y
         /\ low => Y = X
  BY <1>3, <1>4, AreaAllocate
<1> HIDE DEF low
<1>6. Y \in Nat /\ X <= Y /\ Y <= X + n /\ Y <= E /\ (Y < E \/ E = end)
  BY <1>5 DEF MIN_HOLE, Area
<1>7. VecsIn(g, B, E)
  BY <1>0, <1>2, <1>5, <1>6 DEF VecsIn, MemType, Sound
<1>8. \A w \in Vecs : g.vecs[w].len = IF w = v THEN n ELSE h.vecs[w].len
  BY <1>0, <1>2 DEF MemType
<1>9. CASE old.len = 0
  BY <1>2, <1>5, <1>6, <1>7, <1>8, <1>9 DEF low
<1>10. CASE old.len # 0
  <2>1. old.at \in Nat /\ old.len \in Nat \ {0} /\ B <= old.at /\ old.at + old.len <= X
    BY <1>10, SoundFacts, VecBelow
  <2>2. ApartFromAll(Hole(old.at, old.len), b.holes)
    BY <1>1, <1>3, <1>10, VecApart
  <2>3. HolesOK(b.holes, HeapStart, end)
    BY <1>1, SoundFacts
  <2> DEFINE free == deallocate(b.holes, old.at, old.len)
  <2>4. PICK Z \in Nat : Z <= Y /\ Area(free, B, Z, E) /\ SameTail(b.holes, free, E)
    <3>1. old.at + old.len <= Y
      BY <1>6, <2>1
    <3> HIDE DEF old
    <3>2. QED
      BY <1>4, <1>5, <1>6, <2>1, <2>2, <2>3, <3>1, AreaFree
  <2>5. g.holes = free
    BY <1>2, <1>10
  <2> HIDE DEF free
  <2>6. SameTail(h.holes, g.holes, E)
    BY <1>5, <2>4, <2>5 DEF SameTail
  <2>7. Z <= X + n /\ (low => Z <= X)
    BY <1>5, <1>6, <2>4
  <2>8. QED
    BY <1>2, <1>7, <1>8, <2>4, <2>5, <2>6, <2>7 DEF low
<1>11. QED
  BY <1>9, <1>10

\* The virtio list alone: its buffer, in front of it one hole of the p units its
\* former buffers had, behind it the rest of the heap.
Ladder(h, B, X, E, p) ==
    /\ X = B + p + h.vecs["virtio"].len /\ X <= E
    /\ IF h.vecs["virtio"].len = 0 THEN p = 0 ELSE h.vecs["virtio"].at = B + p
    /\ \A k : k \in h.holes <=> (k = Hole(B, p) /\ p > 0) \/ (k = Hole(X, E - X) /\ X < E)

\* A new buffer larger than the hole in front is taken behind, and the old one
\* joins that hole.
LEMMA LadderGrow ==
    ASSUME NEW h, NEW own, NEW end, Sound(h, own, end),
           NEW B \in Nat, NEW X \in Nat, NEW p \in Nat, Ladder(h, B, X, end, p),
           NEW n \in Nat \ {0}, p < n, NEW g, g = grow(h, "virtio", n), g.ok
    PROVE  /\ g.tables = h.tables
           /\ \A w \in Vecs : g.vecs[w].len = IF w = "virtio" THEN n ELSE h.vecs[w].len
           /\ Ladder(g, B, X + n, end, p + h.vecs["virtio"].len)
<1> DEFINE b == take(h, n, 1)
           old == h.vecs["virtio"]
<1>0. h \in MemType /\ 1 \in Nat \ {0} /\ "virtio" \in Vecs
  BY DEF Sound, Vecs
<1>1. Sound(b, own, end)
  BY <1>0, TakeSound
<1> HIDE DEF b
<1>2. /\ b.ok /\ g.tables = h.tables
      /\ g.vecs = [h.vecs EXCEPT !["virtio"] = [at |-> b.last, len |-> n]]
      /\ g.holes = IF old.len = 0 THEN b.holes ELSE deallocate(b.holes, old.at, old.len)
  BY <1>0, <1>1, GrowForm DEF b, Sound, Grown
<1>3. /\ Candidates(h.holes, n, 1) # {}
      /\ b.holes = allocate(h.holes, n, 1).holes /\ b.last = allocate(h.holes, n, 1).at
  BY <1>0, <1>2, TakeForm DEF b
<1>4. /\ HolesOK(b.holes, HeapStart, end) /\ HeapStart \in Nat /\ end \in Nat
      /\ h.holes \subseteq Piece /\ \A k \in h.holes : k.at \in Nat /\ k.len \in Nat /\ k.at % 1 = 0
      /\ old.at \in Nat /\ old.len \in Nat
  BY <1>0, <1>1, SoundFacts
<1>a. PICK k \in h.holes : CutFrom(h.holes, k, n, 1)
  BY <1>3, <1>4, AllocateAligned
<1>5. /\ Room(k, n)
      /\ allocate(h.holes, n, 1) = [at |-> k.at, holes |-> Cut(h.holes, k, n)]
  BY <1>a DEF CutFrom
<1>6. k = Hole(X, end - X) /\ X < end
  BY <1>5 DEF Ladder, Room, Hole, MIN_HOLE
<1>7. k.at = X /\ k.len = end - X /\ X + n <= end /\ b.last = X
  BY <1>3, <1>4, <1>5, <1>6 DEF Hole, Room, MIN_HOLE
<1>8. \A j : j \in b.holes <=> (j = Hole(B, p) /\ p > 0) \/ (j = Hole(X + n, end - (X + n)) /\ X + n < end)
  <2>1. b.holes = Cut(h.holes, k, n) /\ k.len - n = end - (X + n)
    BY <1>3, <1>4, <1>5, <1>7
  <2>2. Hole(X + n, end - (X + n)).len = end - (X + n)
    BY DEF Hole
  <2>3. \A j : j \in b.holes <=> (j \in h.holes /\ j # k) \/ (j = Hole(X + n, end - (X + n)) /\ X + n < end)
    BY <1>4, <1>7, <2>1, <2>2 DEF Cut
  <2>4. p > 0 => Hole(B, p) # k
    <3>1. p > 0 => B < X
      BY <1>4 DEF Ladder
    <3>2. QED
      BY <1>7, <3>1 DEF Hole
  <2>5. QED
    BY <1>6, <2>3, <2>4 DEF Ladder
<1>9. /\ g.vecs["virtio"].at = X /\ g.vecs["virtio"].len = n
      /\ \A w \in Vecs : g.vecs[w].len = IF w = "virtio" THEN n ELSE h.vecs[w].len
  BY <1>0, <1>2, <1>7 DEF MemType
<1>10. p + old.len \in Nat /\ X = B + (p + old.len) /\ X + n = B + (p + old.len) + n
  BY <1>4 DEF Ladder
<1>11. \A j : j \in g.holes <=>
          \/ j = Hole(B, p + old.len) /\ p + old.len > 0
          \/ j = Hole(X + n, end - (X + n)) /\ X + n < end
  <2>1. CASE old.len = 0
    BY <1>2, <1>8, <2>1 DEF Ladder
  <2>2. CASE old.len # 0
    <3>1. old.at = B + p /\ old.at + old.len = X
      BY <1>4, <2>2 DEF Ladder
    <3> DEFINE near == {j \in b.holes : j.at + j.len = old.at \/ j.at = old.at + old.len}
    <3>2. PICK from \in Nat, to \in Nat :
             /\ deallocate(b.holes, old.at, old.len) = (b.holes \ near) \cup {Hole(from, to - from)}
             /\ from = old.at \/ \E j \in b.holes : from = j.at /\ j.at + j.len = old.at
             /\ \A j \in b.holes : j.at + j.len = old.at => from = j.at
             /\ to = old.at + old.len \/ \E j \in b.holes : to = j.at + j.len /\ j.at = old.at + old.len
             /\ \A j \in b.holes : j.at = old.at + old.len => to = j.at + j.len
      <4>1. HolesOK(b.holes, HeapStart, end) /\ old.len \in Nat \ {0}
        BY <1>4, <2>2
      <4>2. JoinsNeighbours(b.holes, old.at, old.len)
        BY <1>4, <4>1, DeallocateForm, Zenon
      <4>3. QED
        BY <4>2, Zenon DEF JoinsNeighbours
    <3>3. ASSUME NEW j \in b.holes
          PROVE  j \in near <=> j = Hole(B, p) /\ p > 0
      BY <1>4, <1>7, <1>8, <1>10, <3>1 DEF Hole
    <3>4. \A j \in b.holes : j.at # old.at + old.len
      BY <1>4, <1>7, <1>8, <1>10, <3>1, <2>2 DEF Hole
    <3>5. to = X
      BY <3>1, <3>2, <3>4
    <3>6. from = B
      <4>1. CASE p = 0
        <5>1. \A j \in b.holes : j.at + j.len # old.at
          BY <1>4, <1>7, <1>8, <1>10, <3>1, <4>1 DEF Hole
        <5>2. QED
          BY <3>1, <3>2, <4>1, <5>1
      <4>2. CASE p # 0
        <5>1. Hole(B, p) \in b.holes /\ Hole(B, p).at = B /\ Hole(B, p).len = p
          BY <1>8, <4>2 DEF Hole
        <5>2. QED
          BY <3>1, <3>2, <5>1
      <4>3. QED
        BY <4>1, <4>2
    <3>7. to - from = p + old.len
      BY <1>4, <1>10, <3>5, <3>6
    <3>8. p + old.len > 0
      BY <1>4, <2>2
    <3>9. g.holes = (b.holes \ near) \cup {Hole(B, p + old.len)}
      BY <1>2, <2>2, <3>2, <3>6, <3>7
    <3> HIDE DEF near, old
    <3>10. X + n < end => Hole(X + n, end - (X + n)) # Hole(B, p)
      BY <1>4, <1>10 DEF Hole
    <3>11. QED
      BY <1>8, <3>3, <3>8, <3>9, <3>10
  <2>3. QED
    BY <2>1, <2>2
<1>12. QED
  BY <1>2, <1>7, <1>9, <1>10, <1>11 DEF Ladder

\* Before the vectors: the heap is one hole from a page boundary on.
Fresh(h, B, end) ==
    /\ B % PAGE_UNITS = 0 /\ B <= end
    /\ \A k : k \in h.holes <=> k = Hole(B, end - B) /\ B < end
    /\ \A v \in Vecs : h.vecs[v].len = 0

\* A page or a table is then cut off at the page boundary.
LEMMA FreshTaken ==
    ASSUME NEW h, NEW own, NEW end, Sound(h, own, end), NEW B \in Nat, Fresh(h, B, end),
           NEW align \in {1, PAGE_UNITS}, NEW b, b = take(h, PAGE_UNITS, align), b.ok
    PROVE  b.last % PAGE_UNITS = 0 /\ Fresh(b, B + PAGE_UNITS, end)
<1> USE DEF PAGE_UNITS
<1>1. /\ Candidates(h.holes, PAGE_UNITS, align) # {} /\ b.vecs = h.vecs
      /\ b.holes = allocate(h.holes, PAGE_UNITS, align).holes
      /\ b.last = allocate(h.holes, PAGE_UNITS, align).at
  BY TakeForm DEF Sound
<1>2. h.holes \subseteq Piece /\ end \in Nat
  BY SoundFacts
<1>3. \A k \in h.holes : k.at = B /\ k.len = end - B /\ k.at % align = 0
  BY DEF Fresh, Hole
<1>a. PICK k \in h.holes : CutFrom(h.holes, k, PAGE_UNITS, align)
  BY <1>1, <1>2, <1>3, AllocateAligned
<1>4. /\ Room(k, PAGE_UNITS)
      /\ allocate(h.holes, PAGE_UNITS, align) = [at |-> k.at, holes |-> Cut(h.holes, k, PAGE_UNITS)]
  BY <1>a DEF CutFrom
<1>5. k = Hole(B, end - B) /\ B < end /\ k.at = B /\ k.len = end - B /\ B + PAGE_UNITS <= end
  BY <1>2, <1>3, <1>4 DEF Fresh, Room, MIN_HOLE
<1>6. b.last = B /\ b.holes = Cut(h.holes, k, PAGE_UNITS)
  BY <1>1, <1>4, <1>5
<1>7. \A j : j \in b.holes <=> j = Hole(B + PAGE_UNITS, end - (B + PAGE_UNITS)) /\ B + PAGE_UNITS < end
  <2>1. k.len - PAGE_UNITS = end - (B + PAGE_UNITS)
        /\ Hole(B + PAGE_UNITS, end - (B + PAGE_UNITS)).len = end - (B + PAGE_UNITS)
    BY <1>2, <1>5 DEF Hole
  <2>2. \A j : j \in b.holes <=> (j \in h.holes /\ j # k)
                  \/ (j = Hole(B + PAGE_UNITS, end - (B + PAGE_UNITS)) /\ B + PAGE_UNITS < end)
    BY <1>2, <1>5, <1>6, <2>1 DEF Cut
  <2>3. QED
    BY <1>5, <2>2 DEF Fresh
<1>8. (B + PAGE_UNITS) % PAGE_UNITS = 0
  BY DEF Fresh
<1>9. QED
  BY <1>1, <1>5, <1>6, <1>7, <1>8 DEF Fresh

\* The area is one page, with a vector in it; the holes behind begin aligned.
Closed(h, B, X) ==
    /\ B % PAGE_UNITS = 0 /\ X + MIN_HOLE <= B + PAGE_UNITS
    /\ Area(h.holes, B, X, B + PAGE_UNITS)
    /\ VecsIn(h, B, B + PAGE_UNITS)
    /\ h.vecs["virtio"].len # 0 \/ h.vecs["pci"].len # 0
    /\ \A k \in h.holes : B + PAGE_UNITS <= k.at => k.at % PAGE_UNITS = 0

\* A vector in the area takes some of it.
LEMMA AreaUsed ==
    ASSUME NEW h, NEW own, NEW end, Sound(h, own, end),
           NEW B \in Nat, NEW X \in Nat, NEW E \in Nat, Area(h.holes, B, X, E), VecsIn(h, B, E),
           h.vecs["virtio"].len # 0 \/ h.vecs["pci"].len # 0
    PROVE  B < X
<1>1. PICK v \in Vecs : h.vecs[v].len # 0
  BY DEF Vecs
<1>2. B <= h.vecs[v].at /\ h.vecs[v].at + h.vecs[v].len <= X /\ h.vecs[v].at \in Nat /\ h.vecs[v].len \in Nat
  BY <1>1, VecBelow, SoundFacts
<1>3. QED
  BY <1>1, <1>2

\* A page or a table does not fit into the area, and is cut off behind it.
LEMMA ClosedTaken ==
    ASSUME NEW h, NEW own, NEW end, Sound(h, own, end),
           NEW B \in Nat, NEW X \in Nat, Closed(h, B, X),
           NEW align \in {1, PAGE_UNITS}, NEW b, b = take(h, PAGE_UNITS, align), b.ok
    PROVE  b.last % PAGE_UNITS = 0 /\ Closed(b, B, X)
<1> USE DEF PAGE_UNITS
<1> DEFINE E == B + PAGE_UNITS
<1>0. Area(h.holes, B, X, E) /\ VecsIn(h, B, E) /\ E \in Nat
  BY DEF Closed
<1>1. B < X
  BY <1>0, AreaUsed DEF Closed
<1>2. /\ Candidates(h.holes, PAGE_UNITS, align) # {} /\ b.vecs = h.vecs
      /\ b.holes = allocate(h.holes, PAGE_UNITS, align).holes
      /\ b.last = allocate(h.holes, PAGE_UNITS, align).at
  BY TakeForm DEF Sound
<1>3. h.holes \subseteq Piece /\ \A k \in h.holes : k.at \in Nat /\ k.len \in Nat \ {0}
  BY SoundFacts
<1>4. \A k \in h.holes : k.len >= PAGE_UNITS => E <= k.at
  <2>1. SUFFICES ASSUME NEW k \in h.holes, ~(E <= k.at) PROVE k.len < PAGE_UNITS
    BY <1>3
  <2>2. B <= k.at /\ (k.at + k.len <= X \/ k = Hole(X, E - X))
    BY <1>0, <2>1 DEF Area
  <2>3. CASE k.at + k.len <= X
    BY <1>3, <2>2, <2>3 DEF Closed, MIN_HOLE
  <2>4. CASE k = Hole(X, E - X)
    BY <1>1, <2>4 DEF Hole
  <2>5. QED
    BY <2>2, <2>3, <2>4
<1>5. \A k \in h.holes : Fits(k, PAGE_UNITS, align) => E <= k.at /\ k.at % PAGE_UNITS = 0 /\ k.at % align = 0
  <2>1. SUFFICES ASSUME NEW k \in h.holes, Fits(k, PAGE_UNITS, align)
                 PROVE  E <= k.at /\ k.at % PAGE_UNITS = 0 /\ k.at % align = 0
    OBVIOUS
  <2>2. k.len >= PAGE_UNITS
    <3>1. k \in Piece /\ PAGE_UNITS \in Nat \ {0} /\ align \in Nat \ {0}
      BY <1>3
    <3>2. StartIn(k, align) \in Nat /\ k.at <= StartIn(k, align)
          /\ StartIn(k, align) + PAGE_UNITS <= k.at + k.len
      BY <2>1, <3>1, FitsInside
    <3>3. QED
      BY <1>3, <3>2
  <2>3. E <= k.at /\ k.at % PAGE_UNITS = 0
    BY <1>4, <2>2 DEF Closed
  <2>4. QED
    BY <1>3, <2>3
<1>a. PICK k \in h.holes : CutFrom(h.holes, k, PAGE_UNITS, align)
  BY <1>2, <1>3, <1>5, AllocateAligned
<1>6. /\ Room(k, PAGE_UNITS)
      /\ allocate(h.holes, PAGE_UNITS, align) = [at |-> k.at, holes |-> Cut(h.holes, k, PAGE_UNITS)]
  BY <1>a DEF CutFrom
<1>7. k.at \in Nat /\ k.len \in Nat /\ E <= k.at /\ k.at % PAGE_UNITS = 0
  BY <1>3, <1>4, <1>6 DEF Room, MIN_HOLE, Closed
<1>8. b.last = k.at /\ b.holes = Cut(h.holes, k, PAGE_UNITS)
  BY <1>2, <1>6
<1> DEFINE r == Hole(k.at + PAGE_UNITS, k.len - PAGE_UNITS)
<1>9. r.at = k.at + PAGE_UNITS /\ E <= r.at /\ B <= r.at /\ r.at % PAGE_UNITS = 0
  BY <1>7 DEF Hole
<1>10. \A j \in b.holes : j \in h.holes \/ j = r
  BY <1>8 DEF Cut
<1> HIDE DEF r
<1>11. X < E /\ k # Hole(X, E - X)
  BY <1>7 DEF Closed, Hole, MIN_HOLE
<1>12. Hole(X, E - X) \in b.holes
  BY <1>0, <1>8, <1>11 DEF Area, Cut
<1>13. Area(b.holes, B, X, E)
  BY <1>0, <1>9, <1>10, <1>12 DEF Area
<1>14. \A j \in b.holes : E <= j.at => j.at % PAGE_UNITS = 0
  BY <1>9, <1>10 DEF Closed
<1>15. QED
  BY <1>2, <1>7, <1>8, <1>13, <1>14 DEF Closed, VecsIn

LEMMA DivMod512 == ASSUME NEW B \in Nat, B % 512 = 0 PROVE \E q \in Nat : B = 512 * q
BY B = 512 * (B \div 512) /\ B \div 512 \in Nat

\* The first page after the vectors ends the area at the next page boundary.
LEMMA PageCloses ==
    ASSUME NEW h, NEW own, NEW end, Sound(h, own, end),
           NEW B \in Nat, NEW X \in Nat, B % PAGE_UNITS = 0, X + MIN_HOLE <= B + PAGE_UNITS,
           Area(h.holes, B, X, end), VecsIn(h, B, end),
           h.vecs["virtio"].len # 0 \/ h.vecs["pci"].len # 0,
           NEW b, b = take(h, PAGE_UNITS, PAGE_UNITS), b.ok
    PROVE  b.last % PAGE_UNITS = 0 /\ Closed(b, B, X)
<1> USE DEF PAGE_UNITS
<1> DEFINE E == B + PAGE_UNITS
<1>1. end \in Nat /\ h.holes \subseteq Piece
      /\ \A k \in h.holes : k.at \in Nat /\ k.len \in Nat \ {0} /\ k.at + k.len <= end
  BY SoundFacts
<1>2. B < X
  BY <1>1, AreaUsed
<1>3. /\ Candidates(h.holes, PAGE_UNITS, PAGE_UNITS) # {} /\ b.vecs = h.vecs
      /\ b.holes = allocate(h.holes, PAGE_UNITS, PAGE_UNITS).holes
      /\ b.last = allocate(h.holes, PAGE_UNITS, PAGE_UNITS).at
  BY TakeForm DEF Sound
<1>t. PICK k \in h.holes : TakenFrom(h.holes, k, PAGE_UNITS, PAGE_UNITS)
  BY <1>1, <1>3, AllocateForm
<1>4. /\ Fits(k, PAGE_UNITS, PAGE_UNITS)
      /\ LET at == StartIn(k, PAGE_UNITS)
             rest == {Hole(k.at, at - k.at), Hole(at + PAGE_UNITS, k.at + k.len - at - PAGE_UNITS)}
         IN allocate(h.holes, PAGE_UNITS, PAGE_UNITS)
              = [at |-> at, holes |-> (h.holes \ {k}) \cup {r \in rest : r.len > 0}]
  BY <1>t DEF TakenFrom
<1> DEFINE at == StartIn(k, PAGE_UNITS)
<1>5. at \in Nat /\ k.at <= at /\ at + PAGE_UNITS <= k.at + k.len
  <2>1. k \in Piece /\ PAGE_UNITS \in Nat \ {0}
    BY <1>1
  <2>2. QED
    BY <1>4, <2>1, FitsInside
<1>6. k = Hole(X, end - X) /\ k.at = X /\ k.len = end - X /\ X < end
  <2> HIDE DEF at
  <2>1. ~(k.at + k.len <= X)
    BY <1>1, <1>5 DEF Area, MIN_HOLE
  <2>2. ~(end <= k.at)
    BY <1>1
  <2>3. k = Hole(X, end - X)
    BY <2>1, <2>2 DEF Area
  <2>4. QED
    BY <1>1, <2>2, <2>3 DEF Hole
<1>7. at = E
  <2>1. PICK q \in Nat : B = 512 * q
    BY DivMod512
  <2>2. X % 512 # 0
    BY <1>2, <2>1 DEF MIN_HOLE
  <2>3. AlignUp(X + MIN_HOLE, 512) = 512 * q + 512
    BY <1>2, <2>1 DEF AlignUp, MIN_HOLE
  <2>4. QED
    BY <1>6, <2>1, <2>2, <2>3 DEF StartIn
<1>8. b.last = E /\ b.holes = (h.holes \ {k}) \cup
          {r \in {Hole(X, E - X), Hole(E + PAGE_UNITS, end - E - PAGE_UNITS)} : r.len > 0}
  <2>1. X + (end - X) - E - PAGE_UNITS = end - E - PAGE_UNITS
    BY <1>1
  <2> HIDE DEF E
  <2>2. QED
    BY <1>3, <1>4, <1>6, <1>7, <2>1
<1> DEFINE front == Hole(X, E - X)
           back == Hole(E + PAGE_UNITS, end - E - PAGE_UNITS)
<1>9. front.len > 0 /\ front \in b.holes /\ back.at = E + PAGE_UNITS /\ (E + PAGE_UNITS) % PAGE_UNITS = 0
  BY <1>8 DEF Hole, MIN_HOLE
<1>10. \A j \in b.holes : (j \in h.holes /\ j # k) \/ j = front \/ j = back
  BY <1>8
<1>11. \A j \in h.holes : j # k => B <= j.at /\ j.at + j.len <= X
  BY <1>1, <1>6 DEF Area
<1> HIDE DEF back
<1>12. Area(b.holes, B, X, E)
  <2>1. B <= front.at
    BY <1>2 DEF Hole
  <2>2. ASSUME NEW j \in b.holes PROVE B <= j.at /\ (j.at + j.len <= X \/ j = front \/ E <= j.at)
    BY <1>9, <1>10, <1>11, <2>1
  <2>3. QED
    BY <1>2, <1>9, <2>2 DEF Area, MIN_HOLE
<1>13. VecsIn(b, B, E)
  <2>1. SUFFICES ASSUME NEW v \in Vecs, b.vecs[v].len # 0
                 PROVE  B <= b.vecs[v].at /\ b.vecs[v].at + b.vecs[v].len <= E
    BY DEF VecsIn
  <2>2. B <= b.vecs[v].at /\ b.vecs[v].at + b.vecs[v].len <= X /\ b.vecs[v].at \in Nat /\ b.vecs[v].len \in Nat
    BY <1>1, <1>3, <2>1, VecBelow, SoundFacts
  <2>3. QED
    BY <2>2 DEF MIN_HOLE
<1>14. \A j \in b.holes : E <= j.at => j.at % PAGE_UNITS = 0
  <2>1. front.at = X /\ ~(E <= X)
    BY DEF Hole, MIN_HOLE
  <2>2. ASSUME NEW j \in h.holes, j # k PROVE ~(E <= j.at)
    BY <1>1, <1>11, <2>2 DEF MIN_HOLE
  <2>3. QED
    BY <1>9, <1>10, <2>1, <2>2
<1>15. QED
  BY <1>3, <1>8, <1>12, <1>13, <1>14 DEF Closed

----------------------------------------------------------------------------
(* The device lists                                                        *)

\* How often a vector has grown when it holds n elements, for n up to 32.
Steps(n) == IF n = 0 THEN 0 ELSE IF n <= 4 THEN 1 ELSE IF n <= 8 THEN 2 ELSE IF n <= 16 THEN 3 ELSE 4

LEMMA Capacities ==
    /\ Len(CAPACITIES) = 9
    /\ CAPACITIES[1] = 4 /\ CAPACITIES[2] = 8 /\ CAPACITIES[3] = 16 /\ CAPACITIES[4] = 32
    /\ \A k \in 5..9 : CAPACITIES[k] \in Nat /\ CAPACITIES[k] >= 64
BY DEF CAPACITIES

LEMMA PushAllForm ==
    ASSUME NEW name, NEW unit, NEW n \in 0..32
    PROVE  /\ Len(PushAll(name, unit, n)) = Steps(n)
           /\ \A k \in 1..Steps(n) : PushAll(name, unit, n)[k] = Grow(name, unit * CAPACITIES[k])
<1> DEFINE needed == {k \in 1..Len(CAPACITIES) : n > (IF k = 1 THEN 0 ELSE CAPACITIES[k - 1])}
<1>1. Steps(n) \in 0..4
  BY DEF Steps
<1>2. ASSUME NEW k \in 1..9
      PROVE  n > (IF k = 1 THEN 0 ELSE CAPACITIES[k - 1]) <=> k <= Steps(n)
  <2>1. CASE k \in {1, 2, 3, 4, 5}
    <3>1. (IF k = 1 THEN 0 ELSE CAPACITIES[k - 1])
             = IF k = 1 THEN 0 ELSE IF k = 2 THEN 4 ELSE IF k = 3 THEN 8 ELSE IF k = 4 THEN 16 ELSE 32
      BY <2>1, Capacities
    <3>2. QED
      BY <2>1, <3>1 DEF Steps
  <2>2. CASE k \in 6..9
    <3>1. k # 1 /\ k - 1 \in 5..9
      BY <2>2
    <3>2. CAPACITIES[k - 1] \in Nat /\ CAPACITIES[k - 1] >= 64
      BY <3>1, Capacities
    <3>3. QED
      BY <1>1, <2>2, <3>1, <3>2
  <2>3. QED
    BY <2>1, <2>2
<1>3. needed = 1..Steps(n)
  BY <1>1, <1>2, Capacities
<1>4. Cardinality(1..Steps(n)) = Steps(n)
  <2>1. 1 \in Int /\ Steps(n) \in Int
    BY <1>1
  <2>2. Cardinality(1..Steps(n)) = IF 1 > Steps(n) THEN 0 ELSE Steps(n) - 1 + 1
    BY <2>1, FS_Interval, Zenon
  <2>3. QED
    BY <1>1, <2>2
<1>5. PushAll(name, unit, n) = [k \in 1..Cardinality(needed) |-> Grow(name, unit * CAPACITIES[k])]
  BY Zenon DEF PushAll
<1> HIDE DEF needed
<1>6. PushAll(name, unit, n) = [k \in 1..Steps(n) |-> Grow(name, unit * CAPACITIES[k])]
  BY <1>3, <1>4, <1>5
<1>7. QED
  BY <1>1, <1>6

\* The requests of Devices::new: the virtio list grows, then the PCI ranges.
DeviceRequest(n, k) ==
    IF k <= Steps(n) THEN Grow("virtio", VIRTIO * CAPACITIES[k])
    ELSE Grow("pci", MEMORY_MAP * CAPACITIES[k - Steps(n)])

LEMMA DeviceRequests ==
    ASSUME NEW n \in 0..32, NEW ranges \in Seq({"low", "high"}), Len(ranges) \in 0..32
    PROVE  /\ Len(VirtIoList_new(n) \o Pci_new(ranges)) = Steps(n) + Steps(Len(ranges))
           /\ \A k \in 1..Steps(n) + Steps(Len(ranges)) :
                 (VirtIoList_new(n) \o Pci_new(ranges))[k] = DeviceRequest(n, k)
<1> DEFINE v == VirtIoList_new(n)
           p == Pci_new(ranges)
           r == Len(ranges)
<1>1. v \in Seq(Requests) /\ p \in Seq(Requests)
  BY PushAllTyped DEF VirtIoList_new, Pci_new, Vecs, VIRTIO, MEMORY_MAP
<1>2. Len(v) = Steps(n) /\ \A k \in 1..Steps(n) : v[k] = Grow("virtio", VIRTIO * CAPACITIES[k])
  BY PushAllForm DEF VirtIoList_new
<1>3. Len(p) = Steps(r) /\ \A k \in 1..Steps(r) : p[k] = Grow("pci", MEMORY_MAP * CAPACITIES[k])
  BY PushAllForm DEF Pci_new
<1>4. Steps(n) \in Nat /\ Steps(r) \in Nat
  BY DEF Steps
<1> HIDE DEF v, p, r
<1>5. /\ Len(v \o p) = Steps(n) + Steps(r)
      /\ \A i \in 1..Steps(n) + Steps(r) : (v \o p)[i] = IF i <= Steps(n) THEN v[i] ELSE p[i - Steps(n)]
  <2>1. /\ Len(v \o p) = Len(v) + Len(p)
        /\ \A i \in 1..Len(v) + Len(p) : (v \o p)[i] = IF i <= Len(v) THEN v[i] ELSE p[i - Len(v)]
    BY <1>1, ConcatProperties, Zenon
  <2>2. Len(v) = Steps(n) /\ Len(p) = Steps(r)
    BY <1>2, <1>3
  <2>3. QED
    BY <2>1, <2>2, Zenon
<1>6. ASSUME NEW k \in 1..Steps(n) + Steps(r) PROVE (v \o p)[k] = DeviceRequest(n, k)
  <2>1. CASE k <= Steps(n)
    BY <1>2, <1>4, <1>5, <2>1 DEF DeviceRequest
  <2>2. CASE ~(k <= Steps(n))
    BY <1>3, <1>4, <1>5, <2>2 DEF DeviceRequest
  <2>3. QED
    BY <2>1, <2>2
<1>7. QED
  BY <1>5, <1>6 DEF v, p, r

\* How far the area reaches behind B once the PCI list has grown j times: it finds
\* room in front of a virtio list that has grown three times, or twice with four.
Reach(n, j) ==
    CASE Steps(n) = 4 -> 180
      [] Steps(n) = 3 -> IF j <= 1 THEN 84 ELSE 124
      [] OTHER -> IF j = 0 THEN 36 ELSE IF j = 1 THEN 56 ELSE 96

\* The heap after i of the requests.
Growing(h, n, i, B, X, end) ==
    /\ B % PAGE_UNITS = 0
    /\ IF i <= Steps(n)
       THEN LET len == IF i = 0 THEN 0 ELSE VIRTIO * CAPACITIES[i]
            IN /\ h.vecs["virtio"].len = len /\ h.vecs["pci"].len = 0 /\ h.vecs["map"].len = 0
               /\ Ladder(h, B, X, end, IF i = 0 THEN 0 ELSE len - 12)
       ELSE /\ h.vecs["pci"].len # 0
            /\ Area(h.holes, B, X, end) /\ VecsIn(h, B, end)
            /\ X <= B + Reach(n, i - Steps(n))
            /\ Steps(n) = 4 /\ i = 5 => Hole(B + 20, 64) \in h.holes

LEMMA LadderArea ==
    ASSUME NEW h, NEW own, NEW end, Sound(h, own, end), NEW B \in Nat, NEW X \in Nat, NEW p \in Nat,
           Ladder(h, B, X, end, p), h.vecs["pci"].len = 0, h.vecs["map"].len = 0
    PROVE  Area(h.holes, B, X, end) /\ VecsIn(h, B, end)
<1>1. /\ end \in Nat /\ h.vecs["virtio"].len \in Nat /\ B + p <= X /\ X <= end
      /\ X = B + p + h.vecs["virtio"].len
  BY SoundFacts DEF Ladder, Vecs
<1>2. VecsIn(h, B, end)
  BY <1>1 DEF VecsIn, Vecs, Ladder
<1>3. \A k \in h.holes : B <= k.at /\ (k.at + k.len <= X \/ k = Hole(X, end - X))
  BY <1>1 DEF Ladder, Hole
<1>4. QED
  BY <1>1, <1>2, <1>3 DEF Area, Ladder

\* The first buffer of the PCI list is taken at the beginning of the hole in front
\* of the virtio list.
LEMMA FirstPci ==
    ASSUME NEW h, NEW own, NEW end, Sound(h, own, end), NEW B \in Nat, NEW X \in Nat,
           NEW p \in Nat, NEW s \in Nat \ {0}, s + MIN_HOLE <= p, Ladder(h, B, X, end, p), h.vecs["pci"].len = 0,
           NEW g, g = grow(h, "pci", s), g.ok
    PROVE  Hole(B + s, p - s) \in g.holes
<1> DEFINE b == take(h, s, 1)
<1>0. h \in MemType /\ 1 \in Nat \ {0} /\ "pci" \in Vecs
  BY DEF Sound, Vecs
<1>1. b \in MemType
  <2>1. Sound(b, own, end)
    BY <1>0, TakeSound
  <2>2. QED
    BY <2>1 DEF Sound
<1> HIDE DEF b
<1>g. Grown(h, b, g, "pci", s)
  BY <1>0, <1>1, GrowForm DEF b
<1>2. /\ b.ok
      /\ g.holes = IF h.vecs["pci"].len = 0 THEN b.holes
                   ELSE deallocate(b.holes, h.vecs["pci"].at, h.vecs["pci"].len)
  BY <1>g DEF Grown
<1>p. p > 0 /\ p - s > 0
  BY DEF MIN_HOLE
<1>3. Candidates(h.holes, s, 1) # {} /\ b.holes = allocate(h.holes, s, 1).holes
  BY <1>0, <1>2, TakeForm DEF b
<1>4. /\ h.holes \subseteq Piece /\ end \in Nat /\ \A k \in h.holes : k.at \in Nat /\ k.at % 1 = 0
      /\ h.vecs["virtio"].len \in Nat
  BY SoundFacts DEF Vecs
<1>a. PICK k \in h.holes : CutFrom(h.holes, k, s, 1)
  BY <1>3, <1>4, AllocateAligned
<1>5. /\ k.at % 1 = 0 /\ Room(k, s)
      /\ \A j \in h.holes : j.at % 1 = 0 /\ Room(j, s) => k.at <= j.at
      /\ allocate(h.holes, s, 1) = [at |-> k.at, holes |-> Cut(h.holes, k, s)]
  BY <1>a DEF CutFrom
<1>6. Hole(B, p) \in h.holes /\ Room(Hole(B, p), s) /\ Hole(B, p).at = B /\ Hole(B, p).len = p
  BY <1>p DEF Ladder, Hole, Room, MIN_HOLE
<1>7. k = Hole(B, p)
  <2>1. k.at <= B
    BY <1>4, <1>5, <1>6
  <2>2. B < X
    BY <1>4, <1>p DEF Ladder
  <2>3. k # Hole(X, end - X)
    BY <2>1, <2>2 DEF Hole
  <2>4. QED
    BY <2>3 DEF Ladder
<1>8. Hole(B + s, p - s) \in Cut(h.holes, k, s)
  BY <1>6, <1>7, <1>p DEF Cut, Hole
<1>9. QED
  BY <1>2, <1>3, <1>5, <1>8

LEMMA ServeGrow ==
    ASSUME NEW h, NEW v, NEW n
    PROVE  Serve(h, Grow(v, n)) = grow(h, v, n)
BY DEF Serve, Grow

\* The virtio list grows.
LEMMA GrowingVirtio ==
    ASSUME NEW h, NEW own, NEW end, Sound(h, own, end), NEW n \in 0..22,
           NEW i \in Nat, i < Steps(n), NEW B \in Nat, NEW X \in Nat, Growing(h, n, i, B, X, end),
           NEW g, g = Serve(h, DeviceRequest(n, i + 1)), g.ok
    PROVE  g.tables = h.tables /\ \E Y \in Nat : Growing(g, n, i + 1, B, Y, end)
<1> DEFINE len == IF i = 0 THEN 0 ELSE VIRTIO * CAPACITIES[i]
           p == IF i = 0 THEN 0 ELSE len - 12
           s == VIRTIO * CAPACITIES[i + 1]
<1>1. i \in {0, 1, 2, 3} /\ i + 1 <= Steps(n) /\ Steps(n) \in Nat
  BY DEF Steps
<1>2. len \in Nat /\ p \in Nat /\ s \in Nat \ {0} /\ p < s /\ p + len = s - 12
  BY <1>1, Capacities DEF VIRTIO
<1>3. g = grow(h, "virtio", s)
  BY <1>1, ServeGrow DEF DeviceRequest
<1>4. /\ B % PAGE_UNITS = 0 /\ Ladder(h, B, X, end, p)
      /\ h.vecs["virtio"].len = len /\ h.vecs["pci"].len = 0 /\ h.vecs["map"].len = 0
  BY <1>1 DEF Growing
<1> HIDE DEF p, s, len
<1>5. /\ g.tables = h.tables
      /\ \A w \in Vecs : g.vecs[w].len = IF w = "virtio" THEN s ELSE h.vecs[w].len
      /\ Ladder(g, B, X + s, end, p + h.vecs["virtio"].len)
  BY <1>2, <1>3, <1>4, LadderGrow
<1>6. g.vecs["virtio"].len = s /\ g.vecs["pci"].len = 0 /\ g.vecs["map"].len = 0
  BY <1>4, <1>5 DEF Vecs
<1>7. Ladder(g, B, X + s, end, s - 12)
  BY <1>2, <1>4, <1>5
<1>8. i + 1 # 0 /\ X + s \in Nat
  BY <1>1, <1>2
<1>9. Growing(g, n, i + 1, B, X + s, end)
  BY <1>1, <1>4, <1>6, <1>7, <1>8 DEF Growing, s
<1>10. QED
  BY <1>5, <1>8, <1>9

\* The PCI list gets its first buffer.
LEMMA GrowingPci ==
    ASSUME NEW h, NEW own, NEW end, Sound(h, own, end), NEW n \in 0..22,
           NEW B \in Nat, NEW X \in Nat, Growing(h, n, Steps(n), B, X, end),
           NEW g, g = Serve(h, DeviceRequest(n, Steps(n) + 1)), g.ok
    PROVE  g.tables = h.tables /\ \E Y \in Nat : Growing(g, n, Steps(n) + 1, B, Y, end)
<1> DEFINE i == Steps(n)
           len == IF i = 0 THEN 0 ELSE VIRTIO * CAPACITIES[i]
           p == IF i = 0 THEN 0 ELSE len - 12
           s == MEMORY_MAP * CAPACITIES[1]
<1>1. i \in {0, 1, 2, 3, 4} /\ ~(i + 1 <= i) /\ i + 1 - i = 1
  BY DEF Steps
<1>2. /\ len \in Nat /\ p \in Nat /\ s = 20 /\ s \in Nat \ {0}
      /\ i <= 2 => p + len <= 36
      /\ i = 3 => p = 36 /\ len = 48
      /\ i = 4 => p = 84 /\ len = 96
  BY <1>1, Capacities DEF VIRTIO, MEMORY_MAP
<1>3. g = grow(h, "pci", s)
  BY <1>1, ServeGrow DEF DeviceRequest
<1>4. /\ B % PAGE_UNITS = 0 /\ Ladder(h, B, X, end, p)
      /\ h.vecs["virtio"].len = len /\ h.vecs["pci"].len = 0 /\ h.vecs["map"].len = 0
  BY <1>1 DEF Growing
<1> HIDE DEF p, len, s, i
<1>s. p \in Nat /\ s \in Nat \ {0} /\ end \in Nat
  BY <1>2, SoundFacts
<1>5. Area(h.holes, B, X, end) /\ VecsIn(h, B, end)
  BY <1>s, <1>4, LadderArea
<1>x. X = B + p + len
  BY <1>4 DEF Ladder
<1>6. "pci" \in Vecs
  BY DEF Vecs
<1>7. /\ g.tables = h.tables /\ VecsIn(g, B, end)
      /\ \A w \in Vecs : g.vecs[w].len = IF w = "pci" THEN s ELSE h.vecs[w].len
      /\ \E Y \in Nat : /\ Y <= X + s /\ Area(g.holes, B, Y, end)
                        /\ (\E k \in h.holes : Room(k, s) /\ k.at < X) => Y <= X
  BY <1>s, <1>3, <1>5, <1>6, GrowInArea
<1>8. PICK Y \in Nat : /\ Y <= X + s /\ Area(g.holes, B, Y, end)
                       /\ (\E k \in h.holes : Room(k, s) /\ k.at < X) => Y <= X
  BY <1>7
<1>9. g.vecs["pci"].len # 0
  BY <1>2, <1>6, <1>7
<1>10. i >= 3 => Y <= X
  <2>1. SUFFICES ASSUME i >= 3 PROVE Y <= X
    OBVIOUS
  <2>2. p \in {36, 84} /\ B < X
    BY <1>1, <1>2, <1>x, <2>1
  <2>3. Hole(B, p) \in h.holes
    BY <1>4, <2>2 DEF Ladder
  <2>4. Room(Hole(B, p), s) /\ Hole(B, p).at = B
    BY <1>2, <2>2 DEF Room, Hole, MIN_HOLE
  <2>5. QED
    BY <1>8, <2>2, <2>3, <2>4
<1>11. Y <= B + Reach(n, 1)
  BY <1>1, <1>2, <1>x, <1>8, <1>10 DEF Reach, i
<1>12. i = 4 => Hole(B + 20, 64) \in g.holes
  <2>1. SUFFICES ASSUME i = 4 PROVE Hole(B + 20, 64) \in g.holes
    OBVIOUS
  <2>2. s + MIN_HOLE <= p /\ p - s = 64
    BY <1>2, <2>1 DEF MIN_HOLE
  <2>3. Hole(B + s, p - s) \in g.holes
    BY <1>2, <1>3, <1>4, <2>2, FirstPci
  <2>4. QED
    BY <1>2, <2>2, <2>3
<1>13. Growing(g, n, i + 1, B, Y, end)
  BY <1>1, <1>4, <1>7, <1>8, <1>9, <1>11, <1>12 DEF Growing, i
<1>14. QED
  BY <1>7, <1>13 DEF i

\* The PCI list grows, for more than four ranges.
LEMMA GrowingPciAgain ==
    ASSUME NEW h, NEW own, NEW end, Sound(h, own, end), NEW n \in 0..22,
           NEW B \in Nat, NEW X \in Nat, Growing(h, n, Steps(n) + 1, B, X, end),
           NEW g, g = Serve(h, DeviceRequest(n, Steps(n) + 2)), g.ok
    PROVE  g.tables = h.tables /\ \E Y \in Nat : Growing(g, n, Steps(n) + 2, B, Y, end)
<1> DEFINE i == Steps(n)
           s == MEMORY_MAP * CAPACITIES[2]
<1>1. /\ i \in {0, 1, 2, 3, 4} /\ ~(i + 1 <= i) /\ ~(i + 2 <= i) /\ i + 1 - i = 1 /\ i + 2 - i = 2
      /\ i = 4 => i + 2 # 5
  BY DEF Steps
<1>2. s = 40 /\ s \in Nat \ {0}
  BY Capacities DEF MEMORY_MAP
<1>3. g = grow(h, "pci", s)
  BY <1>1, ServeGrow DEF DeviceRequest
<1>4. /\ B % PAGE_UNITS = 0 /\ Area(h.holes, B, X, end) /\ VecsIn(h, B, end)
      /\ X <= B + Reach(n, 1)
      /\ i = 4 => Hole(B + 20, 64) \in h.holes
  BY <1>1 DEF Growing
<1>5. end \in Nat /\ "pci" \in Vecs
  BY SoundFacts DEF Vecs
<1> HIDE DEF i, s
<1>6. /\ g.tables = h.tables /\ VecsIn(g, B, end)
      /\ \A w \in Vecs : g.vecs[w].len = IF w = "pci" THEN s ELSE h.vecs[w].len
      /\ \E Y \in Nat : /\ Y <= X + s /\ Area(g.holes, B, Y, end)
                        /\ (\E k \in h.holes : Room(k, s) /\ k.at < X) => Y <= X
  BY <1>2, <1>3, <1>4, <1>5, GrowInArea
<1>7. PICK Y \in Nat : /\ Y <= X + s /\ Area(g.holes, B, Y, end)
                       /\ (\E k \in h.holes : Room(k, s) /\ k.at < X) => Y <= X
  BY <1>6
<1>8. g.vecs["pci"].len # 0
  BY <1>2, <1>5, <1>6
<1>9. i = 4 => Y <= B + 180
  <2>1. SUFFICES ASSUME i = 4 PROVE Y <= B + 180
    OBVIOUS
  <2>2. X <= B + 180
    BY <1>4, <2>1 DEF Reach, i
  <2>3. CASE X <= B + 20
    BY <1>2, <1>7, <2>3
  <2>4. CASE ~(X <= B + 20)
    <3>1. Room(Hole(B + 20, 64), s) /\ Hole(B + 20, 64).at = B + 20
      BY <1>2 DEF Room, Hole, MIN_HOLE
    <3>2. Y <= X
      BY <1>4, <1>7, <2>1, <2>4, <3>1
    <3>3. QED
      BY <2>2, <3>2
  <2>5. QED
    BY <2>3, <2>4
<1>10. Y <= B + Reach(n, 2)
  BY <1>1, <1>2, <1>4, <1>7, <1>9 DEF Reach, i
<1>11. Growing(g, n, i + 2, B, Y, end)
  BY <1>1, <1>4, <1>6, <1>7, <1>8, <1>10 DEF Growing, i
<1>12. QED
  BY <1>6, <1>11 DEF i

\* The lists are complete; the rest of the heap follows the area.
Open(h, B, X, end) ==
    /\ B % PAGE_UNITS = 0
    /\ Area(h.holes, B, X, end) /\ VecsIn(h, B, end)
    /\ h.vecs["virtio"].len # 0 \/ h.vecs["pci"].len # 0

LEMMA GrowingDone ==
    ASSUME NEW h, NEW own, NEW end, Sound(h, own, end), NEW n \in 0..22, NEW r \in 0..6, n + r > 0,
           NEW B \in Nat, NEW X \in Nat, Growing(h, n, Steps(n) + Steps(r), B, X, end)
    PROVE  Open(h, B, X, end) /\ X <= B + Reach(n, 2)
<1>1. Steps(n) \in {0, 1, 2, 3, 4} /\ Steps(r) \in {0, 1, 2} /\ (r = 0 => Steps(n) # 0 /\ Steps(r) = 0)
      /\ (r # 0 => Steps(r) # 0)
  BY DEF Steps
<1>2. CASE r # 0
  <2> DEFINE i == Steps(n) + Steps(r)
  <2>0. Growing(h, n, i, B, X, end)
    OBVIOUS
  <2>1. ~(i <= Steps(n)) /\ i - Steps(n) \in {1, 2}
    BY <1>1, <1>2
  <2> HIDE DEF i
  <2>2. /\ B % PAGE_UNITS = 0 /\ h.vecs["pci"].len # 0 /\ Area(h.holes, B, X, end) /\ VecsIn(h, B, end)
        /\ X <= B + Reach(n, i - Steps(n))
    BY <2>0, <2>1 DEF Growing
  <2>3. X <= B + Reach(n, 2)
    BY <1>1, <2>1, <2>2 DEF Reach
  <2>4. QED
    BY <2>2, <2>3 DEF Open
<1>3. CASE r = 0
  <2> DEFINE i == Steps(n)
             len == VIRTIO * CAPACITIES[i]
  <2>1. i \in {1, 2, 3, 4} /\ Steps(n) + Steps(r) = i
    BY <1>1, <1>3
  <2>2. /\ B % PAGE_UNITS = 0 /\ Ladder(h, B, X, end, len - 12)
        /\ h.vecs["virtio"].len = len /\ h.vecs["pci"].len = 0 /\ h.vecs["map"].len = 0
    BY <2>1 DEF Growing
  <2>3. len \in Nat \ {0} /\ len - 12 \in Nat /\ (i = 4 => len = 96) /\ (i = 3 => len = 48) /\ (i <= 2 => len <= 24)
    BY <2>1, Capacities DEF VIRTIO
  <2> HIDE DEF len
  <2>4. Area(h.holes, B, X, end) /\ VecsIn(h, B, end)
    <3> DEFINE p == len - 12
    <3>1. p \in Nat /\ Ladder(h, B, X, end, p)
      BY <2>2, <2>3
    <3> HIDE DEF p
    <3>2. QED
      BY <2>2, <3>1, LadderArea
  <2>5. X = B + (len - 12) + len
    BY <2>2 DEF Ladder
  <2>6. X <= B + Reach(n, 2)
    BY <2>1, <2>3, <2>5 DEF Reach
  <2>7. QED
    BY <2>2, <2>3, <2>4, <2>6 DEF Open
<1>4. QED
  BY <1>2, <1>3

----------------------------------------------------------------------------
(* The list of device regions                                              *)

\* Requests that grow the list at most three times, by less than room altogether.
Need(rs, k) == IF k <= Len(rs) /\ rs[k].op = "grow" THEN rs[k].len ELSE 0
MapRequests(rs, room) ==
    /\ \A k \in 1..Len(rs) :
          \/ rs[k] = Table
          \/ rs[k] = Drop("map")
          \/ k <= 3 /\ \E n \in Nat \ {0} : rs[k] = Grow("map", n)
    /\ Need(rs, 1) + Need(rs, 2) + Need(rs, 3) <= room

LEMMA NeedNat ==
    ASSUME NEW rs \in Seq(Requests), NEW k \in Nat \ {0}
    PROVE  Need(rs, k) \in Nat
<1>1. k <= Len(rs) => rs[k] \in Requests
  OBVIOUS
<1>2. \A r \in Requests : r.op = "grow" => r.len \in Nat
  BY DEF Requests, Table, Page, Grow, Drop
<1>3. QED
  BY <1>1, <1>2 DEF Need

LEMMA MapRequestsTail ==
    ASSUME NEW rs \in Seq(Requests), rs # <<>>, NEW room \in Nat, MapRequests(rs, room)
    PROVE  /\ Need(rs, 1) \in Nat /\ Need(rs, 1) <= room
           /\ MapRequests(Tail(rs), room - Need(rs, 1))
<1> DEFINE t == Tail(rs)
<1>1. t \in Seq(Requests) /\ Len(t) = Len(rs) - 1 /\ Len(rs) \in Nat /\ \A k \in 1..Len(t) : t[k] = rs[k + 1]
  OBVIOUS
<1> HIDE DEF t
<1>2. /\ Need(rs, 1) \in Nat /\ Need(rs, 2) \in Nat /\ Need(rs, 3) \in Nat
      /\ Need(t, 1) \in Nat /\ Need(t, 2) \in Nat /\ Need(t, 3) \in Nat
  BY <1>1, NeedNat
<1>3. Need(t, 1) = Need(rs, 2) /\ Need(t, 2) = Need(rs, 3)
  BY <1>1 DEF Need
<1>4. Need(t, 3) = 0
  <2>1. 3 <= Len(t) => t[3] = Table \/ t[3] = Drop("map")
    BY <1>1 DEF MapRequests
  <2>2. QED
    BY <2>1 DEF Need, Table, Drop
<1>5. ASSUME NEW k \in 1..Len(t)
      PROVE  t[k] = Table \/ t[k] = Drop("map") \/ (k <= 3 /\ \E n \in Nat \ {0} : t[k] = Grow("map", n))
  <2>1. k + 1 \in 1..Len(rs) /\ t[k] = rs[k + 1] /\ (k + 1 <= 3 => k <= 3)
    BY <1>1
  <2>2. QED
    BY <2>1 DEF MapRequests
<1>6. Need(rs, 1) + Need(rs, 2) + Need(rs, 3) <= room
  BY DEF MapRequests
<1>7. QED
  BY <1>2, <1>3, <1>4, <1>5, <1>6 DEF MapRequests, t

LEMMA ExtendedForm ==
    ASSUME NEW cap \in Nat, NEW len \in Nat, NEW more \in Nat
    PROVE  Extended(cap, len, more) =
             IF len + more <= cap THEN cap ELSE IF 2 * cap >= len + more THEN 2 * cap ELSE len + more
<1> DEFINE S == {2 * cap, len + more}
<1>1. S \subseteq Nat /\ \E n \in S : \A k \in S : n >= k
  OBVIOUS
<1>2. Max(S) \in S /\ \A k \in S : Max(S) >= k
  BY <1>1 DEF Max
<1>3. Max(S) = IF 2 * cap >= len + more THEN 2 * cap ELSE len + more
  BY <1>1, <1>2
<1>4. QED
  BY <1>3 DEF Extended

\* The capacities of the list fit in what the device lists leave of a page.
RegionsFit(n, six, all) ==
    /\ six \in Nat /\ all \in Nat /\ n < six /\ six <= all
    /\ 5 * n + 5 * six + (IF all = six THEN 0 ELSE 5 * all) <= 510 - Reach(n, 2)

LEMMA CapacitiesFit ==
    ASSUME NEW n \in 0..22, NEW r \in 0..6, NEW six, six = Extended(n, n, 6),
           NEW all, all = Extended(six, n + 6, r)
    PROVE  RegionsFit(n, six, all)
<1>0. n \in Nat /\ r \in Nat /\ 6 \in Nat /\ n + 6 \in Nat
  OBVIOUS
<1>1. six = IF n + 6 <= n THEN n ELSE IF 2 * n >= n + 6 THEN 2 * n ELSE n + 6
  BY <1>0, ExtendedForm, Zenon
<1>2. six \in Nat
  BY <1>0, <1>1
<1>3. all = IF n + 6 + r <= six THEN six ELSE IF 2 * six >= n + 6 + r THEN 2 * six ELSE n + 6 + r
  BY <1>0, <1>2, ExtendedForm, Zenon
<1>4. Reach(n, 2) = IF n > 16 THEN 180 ELSE IF n > 8 THEN 124 ELSE 96
  BY DEF Reach, Steps
<1>5. QED
  BY <1>1, <1>2, <1>3, <1>4 DEF RegionsFit

\* A list of k elements followed by one of l.
Joined(s, t, k, l) ==
    /\ Len(s \o t) = k + l
    /\ \A i \in 1..k + l : (s \o t)[i] = IF i <= k THEN s[i] ELSE t[i - k]

LEMMA ConcatForm ==
    ASSUME NEW S, NEW s \in Seq(S), NEW t \in Seq(S), NEW k, NEW l, Len(s) = k, Len(t) = l
    PROVE  s \o t \in Seq(S) /\ Joined(s, t, k, l)
BY ConcatProperties, Zenon DEF Joined

LEMMA RegrowForm ==
    ASSUME NEW old \in Nat, NEW new \in Nat, old <= new
    PROVE  /\ Regrow("map", MEMORY_MAP, old, new) \in Seq(Requests)
           /\ Len(Regrow("map", MEMORY_MAP, old, new)) = IF new = old THEN 0 ELSE 1
           /\ new # old => Regrow("map", MEMORY_MAP, old, new)[1] = Grow("map", 5 * new)
<1>1. Regrow("map", MEMORY_MAP, old, new) \in Seq(Requests)
  <2>1. "map" \in Vecs /\ MEMORY_MAP \in Nat \ {0}
    BY DEF Vecs, MEMORY_MAP
  <2>2. QED
    BY <2>1, RegrowTyped, Zenon
<1>2. QED
  BY <1>1 DEF Regrow, MEMORY_MAP

LEMMA DeviceMapRequests ==
    ASSUME NEW n \in 0..22, NEW ranges, Len(ranges) \in 0..6
    PROVE  MapRequests(device_mapping_g_stage(n, ranges), 510 - Reach(n, 2))
<1> DEFINE r == Len(ranges)
           six == Extended(n, n, 6)
           all == Extended(six, n + 6, r)
           a == Regrow("map", MEMORY_MAP, 0, n)
           b == Regrow("map", MEMORY_MAP, n, six)
           c == Regrow("map", MEMORY_MAP, six, all)
           T == [i \in 1..DeviceTables |-> Table]
           D == <<Drop("map")>>
           F == a \o b \o c
           rs == F \o T \o D
           la == IF n = 0 THEN 0 ELSE 1
           lc == IF all = six THEN 0 ELSE 1
           lf == la + 1 + lc
<1>1. rs = device_mapping_g_stage(n, ranges)
  BY Zenon DEF device_mapping_g_stage, create_device_map
<1>2. /\ six \in Nat /\ all \in Nat /\ n \in Nat /\ n < six /\ six <= all
      /\ 5 * n + 5 * six + (IF all = six THEN 0 ELSE 5 * all) <= 510 - Reach(n, 2)
  <2>1. r \in 0..6 /\ n \in Nat
    OBVIOUS
  <2>2. six = Extended(n, n, 6) /\ all = Extended(six, n + 6, r)
    OBVIOUS
  <2> HIDE DEF r, six, all
  <2>3. RegionsFit(n, six, all)
    BY <2>1, <2>2, CapacitiesFit
  <2>4. QED
    BY <2>1, <2>3, Zenon DEF RegionsFit
<1> HIDE DEF six, all
<1>o. 0 \in Nat /\ 0 <= n /\ n <= six /\ six # n
  BY <1>2
<1>3. a \in Seq(Requests) /\ Len(a) = la /\ (n # 0 => a[1] = Grow("map", 5 * n))
  BY <1>2, <1>o, RegrowForm, Zenon
<1>4. b \in Seq(Requests) /\ Len(b) = 1 /\ b[1] = Grow("map", 5 * six)
  <2>1. b \in Seq(Requests) /\ Len(b) = (IF six = n THEN 0 ELSE 1) /\ (six # n => b[1] = Grow("map", 5 * six))
    BY <1>2, <1>o, RegrowForm, Zenon
  <2>2. QED
    BY <1>o, <2>1
<1>5. c \in Seq(Requests) /\ Len(c) = lc /\ (all # six => c[1] = Grow("map", 5 * all))
  BY <1>2, RegrowForm, Zenon
<1>6. T \in Seq(Requests) /\ Len(T) = DeviceTables /\ DeviceTables \in Nat /\ \A i \in 1..DeviceTables : T[i] = Table
  <2>1. DeviceTables \in Nat /\ T \in [1..DeviceTables -> Requests]
    BY BootAssumption, RequestTypes
  <2>2. T \in Seq(Requests)
    BY <2>1, ListOf
  <2>3. QED
    BY <2>1, <2>2
<1>7. D \in Seq(Requests) /\ Len(D) = 1 /\ D[1] = Drop("map")
  BY RequestTypes DEF Vecs
<1>10. /\ la \in {0, 1} /\ (la = 1 <=> n # 0)
       /\ lc \in {0, 1} /\ (lc = 1 <=> all # six)
       /\ lf = la + 1 + lc /\ lf \in {1, 2, 3}
  OBVIOUS
<1> HIDE DEF a, b, c, T, D, la, lc, lf
<1>8. a \o b \in Seq(Requests) /\ Joined(a, b, la, 1)
  BY <1>3, <1>4, ConcatForm, Zenon
<1>9. F \in Seq(Requests) /\ Joined(a \o b, c, la + 1, lc) /\ Len(F) = lf
  <2>1. Len(a \o b) = la + 1
    BY <1>8 DEF Joined
  <2>2. F \in Seq(Requests) /\ Joined(a \o b, c, la + 1, lc)
    BY <1>5, <1>8, <2>1, ConcatForm, Zenon
  <2>3. QED
    BY <1>10, <2>2 DEF Joined
<1>11. ASSUME NEW k \in 1..lf PROVE F[k] = IF k <= la THEN Grow("map", 5 * n)
                                    ELSE IF k = la + 1 THEN Grow("map", 5 * six)
                                    ELSE Grow("map", 5 * all)
  <2>1. CASE k <= la
    <3>1. k = 1 /\ n # 0
      BY <1>10, <2>1
    <3>2. F[k] = a[1]
      BY <1>8, <1>9, <1>10, <2>1, <3>1 DEF Joined
    <3>3. QED
      BY <1>3, <2>1, <3>1, <3>2
  <2>2. CASE k = la + 1
    <3>1. F[k] = b[1]
      BY <1>8, <1>9, <1>10, <2>2 DEF Joined
    <3>2. QED
      BY <1>4, <1>10, <2>2, <3>1
  <2>3. CASE k > la + 1
    <3>1. k = la + 2 /\ lc = 1 /\ all # six
      BY <1>10, <2>3
    <3>2. F[k] = c[1]
      BY <1>9, <1>10, <3>1 DEF Joined
    <3>3. QED
      BY <1>5, <1>10, <3>1, <3>2
  <2>4. k <= la \/ k = la + 1 \/ k > la + 1
    BY <1>10
  <2>5. ~(la + 1 <= la) /\ (k > la + 1 => ~(k <= la) /\ k # la + 1)
    BY <1>10
  <2> HIDE DEF F
  <2>6. QED
    BY <2>1, <2>2, <2>3, <2>4, <2>5
<1> HIDE DEF F
<1>12. F \o T \in Seq(Requests) /\ Joined(F, T, lf, DeviceTables)
  BY <1>6, <1>9, ConcatForm, Zenon
<1>13. rs \in Seq(Requests) /\ Joined(F \o T, D, lf + DeviceTables, 1)
  <2>1. Len(F \o T) = lf + DeviceTables
    BY <1>12 DEF Joined
  <2>2. QED
    BY <1>7, <1>12, <2>1, ConcatForm, Zenon
<1>l. Len(rs) = lf + DeviceTables + 1
  BY <1>13 DEF Joined
<1>i. /\ \A i \in 1..lf + DeviceTables : (F \o T)[i] = IF i <= lf THEN F[i] ELSE T[i - lf]
      /\ \A i \in 1..lf + DeviceTables + 1 :
              rs[i] = IF i <= lf + DeviceTables THEN (F \o T)[i] ELSE D[i - (lf + DeviceTables)]
  BY <1>12, <1>13 DEF Joined
<1> HIDE DEF rs
<1>14. ASSUME NEW k \in 1..Len(rs)
       PROVE  rs[k] = IF k <= lf THEN F[k] ELSE IF k <= lf + DeviceTables THEN Table ELSE Drop("map")
  <2>0. k \in 1..lf + DeviceTables + 1 /\ k \in Nat /\ lf \in Nat
    BY <1>10, <1>l, <1>6
  <2>1. CASE k <= lf
    <3>1. k \in 1..lf + DeviceTables /\ k <= lf + DeviceTables
      BY <1>6, <2>0, <2>1
    <3>2. QED
      BY <1>i, <2>0, <2>1, <3>1
  <2>2. CASE k > lf /\ k <= lf + DeviceTables
    <3>1. k \in 1..lf + DeviceTables /\ k - lf \in 1..DeviceTables /\ ~(k <= lf)
      BY <1>6, <2>0, <2>2
    <3>2. QED
      BY <1>6, <1>i, <2>0, <2>2, <3>1
  <2>3. CASE k > lf + DeviceTables
    <3>1. k - (lf + DeviceTables) = 1 /\ ~(k <= lf) /\ ~(k <= lf + DeviceTables)
      BY <1>6, <2>0, <2>3
    <3>2. QED
      BY <1>7, <1>i, <2>0, <3>1
  <2>4. QED
    BY <1>6, <2>0, <2>1, <2>2, <2>3
<1>15. \A k \in 1..Len(rs) : rs[k] = Table \/ rs[k] = Drop("map")
                              \/ (k <= 3 /\ \E s \in Nat \ {0} : rs[k] = Grow("map", s))
  <2>1. SUFFICES ASSUME NEW k \in 1..Len(rs), k <= lf
                 PROVE  k <= 3 /\ \E s \in Nat \ {0} : rs[k] = Grow("map", s)
    BY <1>14
  <2>2. k \in 1..lf /\ k <= 3 /\ rs[k] = F[k]
    BY <1>10, <1>14, <2>1
  <2>3. k <= la => 5 * n \in Nat \ {0}
    BY <1>10, <2>2
  <2>4. 5 * six \in Nat \ {0} /\ 5 * all \in Nat \ {0}
    BY <1>2
  <2>5. QED
    BY <1>11, <2>2, <2>3, <2>4
<1>16. \A k \in 1..3 : Need(rs, k) = IF k <= la THEN 5 * n ELSE IF k = la + 1 THEN 5 * six
                                     ELSE IF k <= lf THEN 5 * all ELSE 0
  <2>1. SUFFICES ASSUME NEW k \in 1..3
                 PROVE  Need(rs, k) = IF k <= la THEN 5 * n ELSE IF k = la + 1 THEN 5 * six
                                      ELSE IF k <= lf THEN 5 * all ELSE 0
    OBVIOUS
  <2>2. \A s : Grow("map", s).op = "grow" /\ Grow("map", s).len = s
    BY DEF Grow
  <2>3. CASE k <= lf
    <3>1. k \in 1..lf /\ k \in 1..Len(rs) /\ rs[k] = F[k]
      BY <1>6, <1>10, <1>l, <1>14, <2>3
    <3>2. k <= Len(rs)
      BY <3>1
    <3>3. QED
      BY <1>11, <2>2, <2>3, <3>1, <3>2 DEF Need
  <2>4. CASE k > lf
    <3>1. k <= Len(rs) => rs[k] = Table \/ rs[k] = Drop("map")
      BY <1>10, <1>6, <1>l, <1>14, <2>4
    <3>2. Need(rs, k) = 0
      BY <3>1 DEF Need, Table, Drop
    <3>3. ~(k <= la) /\ k # la + 1 /\ ~(k <= lf)
      BY <1>10, <2>4
    <3>4. QED
      BY <3>2, <3>3
  <2>5. QED
    BY <1>10, <2>3, <2>4
<1>17. Need(rs, 1) + Need(rs, 2) + Need(rs, 3) <= 510 - Reach(n, 2)
  <2> DEFINE room == 510 - Reach(n, 2)
  <2>1. room \in Int /\ 5 * n + 5 * six + (IF all = six THEN 0 ELSE 5 * all) <= room
    BY <1>2 DEF Reach
  <2> HIDE DEF room
  <2>2. Need(rs, 1) + Need(rs, 2) + Need(rs, 3) <= room
    BY <1>2, <1>10, <1>16, <2>1
  <2>3. QED
    BY <2>2 DEF room
<1>18. QED
  BY <1>1, <1>15, <1>17 DEF MapRequests

----------------------------------------------------------------------------
(* One request of each kind                                                *)

AllAligned(tables) == \A t \in tables : t % PAGE_UNITS = 0

\* A page or a table: the heap b from which it was taken, whose holes and vectors
\* are those of the result.
BigServed(h, g, b) ==
    /\ b.ok /\ g.holes = b.holes /\ g.vecs = b.vecs
    /\ g.tables = h.tables \/ g.tables = h.tables \cup {b.last}

LEMMA ServePage ==
    ASSUME NEW h, NEW own, NEW end, Sound(h, own, end), NEW r, r.op = "page",
           NEW g, g = Serve(h, r), g.ok
    PROVE  BigServed(h, g, take(h, PAGE_UNITS, PAGE_UNITS))
<1> DEFINE b == take(h, PAGE_UNITS, PAGE_UNITS)
<1>0. b \in MemType
  <2>1. PAGE_UNITS \in Nat \ {0}
    BY DEF PAGE_UNITS
  <2>2. Sound(b, own, end)
    BY <2>1, TakeSound
  <2>3. QED
    BY <2>2 DEF Sound
<1>1. g = IF b.ok THEN [b EXCEPT !.ram = @ \cup {b.last}] ELSE b
  BY DEF Serve, guest_page, alloc
<1>2. b.ok => b.tables = h.tables
  BY TakeForm DEF Sound
<1> HIDE DEF b
<1>3. b.ok /\ g.holes = b.holes /\ g.vecs = b.vecs /\ g.tables = b.tables
  BY <1>0, <1>1 DEF MemType
<1>4. QED
  BY <1>2, <1>3 DEF BigServed, b

LEMMA ServeTable ==
    ASSUME NEW h, NEW own, NEW end, Sound(h, own, end), NEW r, r.op = "table",
           NEW g, g = Serve(h, r), g.ok
    PROVE  BigServed(h, g, take(h, PAGE_UNITS, 1))
<1> DEFINE b == take(h, PAGE_UNITS, 1)
<1>0. b \in MemType
  <2>1. PAGE_UNITS \in Nat \ {0} /\ 1 \in Nat \ {0}
    BY DEF PAGE_UNITS
  <2>2. Sound(b, own, end)
    BY <2>1, TakeSound
  <2>3. QED
    BY <2>2 DEF Sound
<1>1. g = IF b.ok THEN [b EXCEPT !.tables = @ \cup {b.last}] ELSE b
  BY DEF Serve, new_table
<1>2. b.ok => b.tables = h.tables
  BY TakeForm DEF Sound
<1> HIDE DEF b
<1>3. b.ok /\ g.holes = b.holes /\ g.vecs = b.vecs /\ g.tables = b.tables \cup {b.last}
  BY <1>0, <1>1 DEF MemType
<1>4. QED
  BY <1>2, <1>3 DEF BigServed, b

\* Pages and tables of an untouched heap.
LEMMA FreshServed ==
    ASSUME NEW h, NEW own, NEW end, Sound(h, own, end), NEW B \in Nat, Fresh(h, B, end),
           NEW r, r.op \in {"page", "table"}, NEW g, g = Serve(h, r), g.ok, AllAligned(h.tables)
    PROVE  AllAligned(g.tables) /\ \E Y \in Nat : Fresh(g, Y, end)
<1>1. PICK align \in {1, PAGE_UNITS} : BigServed(h, g, take(h, PAGE_UNITS, align))
  BY ServePage, ServeTable
<1> DEFINE b == take(h, PAGE_UNITS, align)
<1>2. b.ok /\ g.holes = b.holes /\ g.vecs = b.vecs
      /\ (g.tables = h.tables \/ g.tables = h.tables \cup {b.last})
  BY <1>1 DEF BigServed
<1>3. b.last % PAGE_UNITS = 0 /\ Fresh(b, B + PAGE_UNITS, end)
  BY <1>2, FreshTaken
<1> HIDE DEF b
<1>4. Fresh(g, B + PAGE_UNITS, end) /\ B + PAGE_UNITS \in Nat
  BY <1>2, <1>3 DEF Fresh, PAGE_UNITS
<1>5. QED
  BY <1>2, <1>3, <1>4 DEF AllAligned

\* Pages and tables behind the area.
LEMMA ClosedServed ==
    ASSUME NEW h, NEW own, NEW end, Sound(h, own, end), NEW B \in Nat, NEW X \in Nat, Closed(h, B, X),
           NEW r, r.op \in {"page", "table"}, NEW g, g = Serve(h, r), g.ok, AllAligned(h.tables)
    PROVE  AllAligned(g.tables) /\ Closed(g, B, X)
<1>1. PICK align \in {1, PAGE_UNITS} : BigServed(h, g, take(h, PAGE_UNITS, align))
  BY ServePage, ServeTable
<1> DEFINE b == take(h, PAGE_UNITS, align)
<1>2. b.ok /\ g.holes = b.holes /\ g.vecs = b.vecs
      /\ (g.tables = h.tables \/ g.tables = h.tables \cup {b.last})
  BY <1>1 DEF BigServed
<1>3. b.last % PAGE_UNITS = 0 /\ Closed(b, B, X)
  BY <1>2, ClosedTaken
<1> HIDE DEF b
<1>4. Closed(g, B, X)
  BY <1>2, <1>3 DEF Closed, VecsIn
<1>5. QED
  BY <1>2, <1>3, <1>4 DEF AllAligned

LEMMA ReachBound == ASSUME NEW n, NEW j PROVE Reach(n, j) \in 0..180
BY DEF Reach

\* The first page after the device lists.
LEMMA OpenServed ==
    ASSUME NEW h, NEW own, NEW end, Sound(h, own, end), NEW B \in Nat, NEW X \in Nat,
           Open(h, B, X, end), X <= B + 180,
           NEW r, r.op = "page", NEW g, g = Serve(h, r), g.ok, AllAligned(h.tables)
    PROVE  AllAligned(g.tables) /\ Closed(g, B, X)
<1>1. BigServed(h, g, take(h, PAGE_UNITS, PAGE_UNITS))
  BY ServePage
<1> DEFINE b == take(h, PAGE_UNITS, PAGE_UNITS)
<1>2. b.ok /\ g.holes = b.holes /\ g.vecs = b.vecs
      /\ (g.tables = h.tables \/ g.tables = h.tables \cup {b.last})
  BY <1>1 DEF BigServed
<1>3. B % PAGE_UNITS = 0 /\ X + MIN_HOLE <= B + PAGE_UNITS
  BY DEF Open, PAGE_UNITS, MIN_HOLE
<1>4. b.last % PAGE_UNITS = 0 /\ Closed(b, B, X)
  BY <1>2, <1>3, PageCloses DEF Open
<1> HIDE DEF b
<1>5. Closed(g, B, X)
  BY <1>2, <1>4 DEF Closed, VecsIn
<1>6. QED
  BY <1>2, <1>4, <1>5 DEF AllAligned

\* The list of regions grows in the area.
LEMMA ClosedGrow ==
    ASSUME NEW h, NEW own, NEW end, Sound(h, own, end), NEW B \in Nat, NEW X \in Nat, Closed(h, B, X),
           NEW n \in Nat \ {0}, X + n + MIN_HOLE <= B + PAGE_UNITS,
           NEW g, g = grow(h, "map", n), g.ok
    PROVE  g.tables = h.tables /\ \E Y \in Nat : Y <= X + n /\ Closed(g, B, Y)
<1> DEFINE E == B + PAGE_UNITS
<1>1. E \in Nat /\ "map" \in Vecs
  BY DEF PAGE_UNITS, Vecs
<1>2. /\ Area(h.holes, B, X, E) /\ VecsIn(h, B, E) /\ B % PAGE_UNITS = 0
      /\ h.vecs["virtio"].len # 0 \/ h.vecs["pci"].len # 0
      /\ \A k \in h.holes : E <= k.at => k.at % PAGE_UNITS = 0
      /\ X + n + MIN_HOLE <= E
  BY DEF Closed
<1> HIDE DEF E
<1>3. /\ g.tables = h.tables /\ SameTail(h.holes, g.holes, E) /\ VecsIn(g, B, E)
      /\ \A w \in Vecs : g.vecs[w].len = IF w = "map" THEN n ELSE h.vecs[w].len
      /\ \E Y \in Nat : Y <= X + n /\ Area(g.holes, B, Y, E)
  BY <1>1, <1>2, GrowInArea
<1>4. PICK Y \in Nat : Y <= X + n /\ Area(g.holes, B, Y, E)
  BY <1>3
<1>5. g.vecs["virtio"].len # 0 \/ g.vecs["pci"].len # 0
  BY <1>2, <1>3 DEF Vecs
<1>6. \A k \in g.holes : E <= k.at => k.at % PAGE_UNITS = 0
  BY <1>2, <1>3 DEF SameTail
<1>7. Y + MIN_HOLE <= E
  BY <1>1, <1>2, <1>4 DEF MIN_HOLE
<1>8. Closed(g, B, Y)
  BY <1>2, <1>3, <1>4, <1>5, <1>6, <1>7 DEF Closed, E
<1>9. QED
  BY <1>3, <1>4, <1>8

\* The list of regions is freed.
LEMMA ServeDrop ==
    ASSUME NEW h \in MemType, NEW v \in Vecs, NEW g, g = Serve(h, Drop(v))
    PROVE  /\ g.tables = h.tables /\ g.vecs = [h.vecs EXCEPT ![v] = None]
           /\ g.holes = IF h.vecs[v].len = 0 THEN h.holes
                        ELSE deallocate(h.holes, h.vecs[v].at, h.vecs[v].len)
<1>1. g = [release(h, h.vecs[v]) EXCEPT !.vecs[v] = None]
  BY DEF Serve, Drop
<1>2. CASE h.vecs[v].len = 0
  <2>1. release(h, h.vecs[v]) = h
    BY <1>2, Zenon DEF release
  <2>2. QED
    BY <1>1, <1>2, <2>1 DEF MemType
<1>3. CASE h.vecs[v].len # 0
  <2> DEFINE free == deallocate(h.holes, h.vecs[v].at, h.vecs[v].len)
             rel == release(h, h.vecs[v])
  <2>1. rel = [h EXCEPT !.holes = free]
    BY <1>3, Zenon DEF release
  <2> HIDE DEF free
  <2>2. rel = [holes |-> free, last |-> h.last, tables |-> h.tables, ram |-> h.ram, ok |-> h.ok,
               vecs |-> h.vecs]
    BY <2>1 DEF MemType
  <2>3. g = [rel EXCEPT !.vecs[v] = None]
    BY <1>1
  <2> HIDE DEF rel
  <2>4. g.holes = free /\ g.tables = h.tables /\ g.vecs = [h.vecs EXCEPT ![v] = None]
    BY <2>2, <2>3
  <2>5. QED
    BY <1>3, <2>4 DEF free
<1>4. QED
  BY <1>2, <1>3

LEMMA ClosedDrop ==
    ASSUME NEW h, NEW own, NEW end, Sound(h, own, end), NEW B \in Nat, NEW X \in Nat, Closed(h, B, X),
           NEW g, g = Serve(h, Drop("map"))
    PROVE  g.tables = h.tables /\ \E Y \in Nat : Y <= X /\ Closed(g, B, Y)
<1> DEFINE E == B + PAGE_UNITS
           old == h.vecs["map"]
<1>0. h \in MemType /\ "map" \in Vecs
  BY DEF Sound, Vecs
<1>1. /\ g.tables = h.tables /\ g.vecs = [h.vecs EXCEPT !["map"] = None]
      /\ g.holes = IF old.len = 0 THEN h.holes ELSE deallocate(h.holes, old.at, old.len)
  BY <1>0, ServeDrop, Zenon
<1>2. \A w \in Vecs : g.vecs[w] = IF w = "map" THEN None ELSE h.vecs[w]
  BY <1>0, <1>1 DEF MemType
<1>3. /\ Area(h.holes, B, X, E) /\ VecsIn(h, B, E) /\ B % PAGE_UNITS = 0 /\ E \in Nat
      /\ h.vecs["virtio"].len # 0 \/ h.vecs["pci"].len # 0
      /\ \A k \in h.holes : E <= k.at => k.at % PAGE_UNITS = 0
      /\ X + MIN_HOLE <= E
  BY DEF Closed, PAGE_UNITS
<1> HIDE DEF E
<1>4. VecsIn(g, B, E)
  BY <1>2, <1>3 DEF VecsIn, None
<1>5. g.vecs["virtio"].len # 0 \/ g.vecs["pci"].len # 0
  BY <1>2, <1>3 DEF Vecs
<1>6. CASE old.len = 0
  <2>1. g.holes = h.holes
    BY <1>1, <1>6
  <2>2. Closed(g, B, X)
    BY <1>3, <1>4, <1>5, <2>1 DEF Closed, E
  <2>3. QED
    BY <1>1, <2>2
<1>7. CASE old.len # 0
  <2>1. old.at \in Nat /\ old.len \in Nat \ {0} /\ B <= old.at /\ old.at + old.len <= X
    BY <1>0, <1>3, <1>7, SoundFacts, VecBelow
  <2>2. ApartFromAll(Hole(old.at, old.len), h.holes)
    BY <1>0, <1>7, VecApart
  <2>3. HolesOK(h.holes, HeapStart, end) /\ HeapStart \in Nat /\ end \in Nat
    BY SoundFacts
  <2>4. X < E
    BY <1>3 DEF MIN_HOLE
  <2> DEFINE free == deallocate(h.holes, old.at, old.len)
  <2>5. PICK Z \in Nat : Z <= X /\ Area(free, B, Z, E) /\ SameTail(h.holes, free, E)
    <3> HIDE DEF old
    <3>1. Area(h.holes, B, X, E) /\ E \in Nat
      BY <1>3
    <3>2. QED
      BY <2>1, <2>2, <2>3, <2>4, <3>1, AreaFree
  <2>5a. PICK Y \in Nat : Y = Z
    BY <2>5
  <2>6. Y <= X /\ Area(g.holes, B, Y, E) /\ SameTail(h.holes, g.holes, E)
    BY <1>1, <1>7, <2>5, <2>5a, Zenon
  <2>7. \A k \in g.holes : E <= k.at => k.at % PAGE_UNITS = 0
    BY <1>3, <2>6 DEF SameTail
  <2>8. Y + MIN_HOLE <= E
    BY <1>3, <2>6 DEF MIN_HOLE
  <2>9. Closed(g, B, Y)
    BY <1>3, <1>4, <1>5, <2>6, <2>7, <2>8 DEF Closed, E
  <2>10. QED
    BY <1>1, <2>6, <2>9, <2>5a
<1>8. QED
  BY <1>6, <1>7

\* A request that fails makes no table.
LEMMA ServeFailed ==
    ASSUME NEW h, NEW own, NEW end, Sound(h, own, end), NEW r \in Requests,
           NEW g, g = Serve(h, r), ~g.ok
    PROVE  g.tables = h.tables
<1>0. h \in MemType /\ end \in Nat /\ OwnersOK(own, h.holes, end) /\ PAGE_UNITS \in Nat \ {0}
      /\ 1 \in Nat \ {0}
  BY DEF Sound, PAGE_UNITS
<1>1. ASSUME NEW size \in Nat \ {0}, NEW align \in Nat \ {0}
      PROVE  take(h, size, align) \in MemType /\ take(h, size, align).tables = h.tables
  <2>1. TakenOK(h, take(h, size, align), own, end, "new", size, align)
    BY <1>0, TakeOK DEF PageKinds, Queues
  <2>2. QED
    BY <2>1, Zenon DEF TakenOK
<1>2. CASE r.op = "page"
  <2> DEFINE b == take(h, PAGE_UNITS, PAGE_UNITS)
  <2>1. b \in MemType /\ b.tables = h.tables
    BY <1>0, <1>1
  <2>2. g = IF b.ok THEN [b EXCEPT !.ram = @ \cup {b.last}] ELSE b
    BY <1>2 DEF Serve, guest_page, alloc
  <2> HIDE DEF b
  <2>3. QED
    BY <2>1, <2>2 DEF MemType
<1>3. CASE r.op = "table"
  <2> DEFINE b == take(h, PAGE_UNITS, 1)
  <2>1. b \in MemType /\ b.tables = h.tables
    BY <1>0, <1>1
  <2>2. g = IF b.ok THEN [b EXCEPT !.tables = @ \cup {b.last}] ELSE b
    BY <1>3 DEF Serve, new_table
  <2> HIDE DEF b
  <2>3. ~b.ok
    <3>1. SUFFICES ASSUME b.ok PROVE FALSE
      OBVIOUS
    <3>2. g = [b EXCEPT !.tables = @ \cup {b.last}]
      BY <2>2, <3>1
    <3>3. g.ok = b.ok
      BY <2>1, <3>2 DEF MemType
    <3>4. QED
      BY <3>1, <3>3
  <2>4. QED
    BY <2>1, <2>2, <2>3
<1>4. ASSUME NEW v \in Vecs, NEW n \in Nat \ {0}, r = Grow(v, n) PROVE g.tables = h.tables
  <2> DEFINE b == take(h, n, 1)
             new == [at |-> b.last, len |-> n]
  <2>1. b \in MemType /\ b.tables = h.tables
    BY <1>0, <1>1
  <2>2. g = IF b.ok THEN [release(b, b.vecs[v]) EXCEPT !.vecs[v] = new] ELSE b
    BY <1>4, ServeGrow DEF grow
  <2> HIDE DEF b, new
  <2>3. CASE ~b.ok
    BY <2>1, <2>2, <2>3
  <2>4. CASE b.ok
    <3> DEFINE rel == release(b, b.vecs[v])
               free == deallocate(b.holes, b.vecs[v].at, b.vecs[v].len)
    <3>1. rel = b \/ rel = [b EXCEPT !.holes = free]
      BY DEF release
    <3>2. g = [rel EXCEPT !.vecs[v] = new]
      BY <2>2, <2>4
    <3> HIDE DEF rel, free
    <3>3. rel = b \/ rel = [holes |-> free, last |-> b.last, tables |-> b.tables, ram |-> b.ram,
                            ok |-> b.ok, vecs |-> b.vecs]
      BY <2>1, <3>1 DEF MemType
    <3>4. QED
      BY <2>1, <3>2, <3>3 DEF MemType
  <2>5. QED
    BY <2>3, <2>4
<1>5. ASSUME NEW v \in Vecs, r = Drop(v) PROVE g.tables = h.tables
  BY <1>0, <1>5, ServeDrop
<1>6. \/ r.op = "page" \/ r.op = "table"
      \/ \E v \in Vecs, n \in Nat \ {0} : r = Grow(v, n)
      \/ \E v \in Vecs : r = Drop(v)
  BY DEF Requests, Table, Page
<1>7. QED
  BY <1>2, <1>3, <1>4, <1>5, <1>6

----------------------------------------------------------------------------
(* The stages of the boot: what the heap looks like while the requests rs   *)
(* of one function are served, on a machine with n virtio nodes and r PCI   *)
(* ranges.                                                                  *)

OnlyPages(rs) == \A k \in 1..Len(rs) : rs[k].op \in {"page", "table"}

FreshStage(rs, h, end) == OnlyPages(rs) /\ \E B \in Nat : Fresh(h, B, end)

ListStage(rs, h, n, r, end) ==
    \E i \in Nat, B \in Nat, X \in Nat :
        /\ Len(rs) + i = Steps(n) + Steps(r)
        /\ \A k \in 1..Len(rs) : rs[k] = DeviceRequest(n, i + k)
        /\ Growing(h, n, i, B, X, end)

PageStage(rs, h, n) ==
    OnlyPages(rs) /\ \E B \in Nat, X \in Nat : X <= B + Reach(n, 2) /\ Closed(h, B, X)

\* The first page of the guest's memory is still to come: it is asked for, or the
\* image had none.
OpenHeap(h, n, end) ==
    \E B \in Nat, X \in Nat : X <= B + Reach(n, 2) /\ Open(h, B, X, end)
OpenStage(rs, h, n, end) ==
    OnlyPages(rs) /\ rs # <<>> /\ Head(rs).op = "page" /\ OpenHeap(h, n, end)
NoImage(rs, h, n, end) == rs = <<>> /\ ElfPages = 0 /\ OpenHeap(h, n, end)

MapStage(rs, h) ==
    \E B \in Nat, X \in Nat : Closed(h, B, X) /\ MapRequests(rs, B + 510 - X)

\* What is asked for next, after the first of rs.
NextOf(rs) == FollowedBy(Head(rs)) \o Tail(rs)

LEMMA NextRequests ==
    ASSUME NEW rs \in Seq(Requests), rs # <<>>
    PROVE  /\ Head(rs) = rs[1] /\ Head(rs) \in Requests /\ 1 \in 1..Len(rs) /\ Len(rs) \in Nat
           /\ Tail(rs) \in Seq(Requests) /\ Len(Tail(rs)) = Len(rs) - 1
           /\ \A k \in 1..Len(rs) - 1 : Tail(rs)[k] = rs[k + 1]
           /\ Head(rs).op # "page" => NextOf(rs) = Tail(rs)
           /\ OnlyPages(rs) => OnlyPages(NextOf(rs))
<1>1. /\ Head(rs) = rs[1] /\ Head(rs) \in Requests /\ 1 \in 1..Len(rs) /\ Len(rs) \in Nat
      /\ Tail(rs) \in Seq(Requests) /\ Len(Tail(rs)) = Len(rs) - 1
      /\ \A k \in 1..Len(rs) - 1 : Tail(rs)[k] = rs[k + 1]
  OBVIOUS
<1> DEFINE hd == Head(rs)
           tl == Tail(rs)
<1> HIDE DEF hd, tl
<1>2. NextOf(rs) = FollowedBy(hd) \o tl
  BY DEF NextOf, hd, tl
<1>3. hd.op # "page" => NextOf(rs) = tl
  <2>1. SUFFICES ASSUME hd.op # "page" PROVE NextOf(rs) = tl
    OBVIOUS
  <2>2. FollowedBy(hd) = <<>>
    BY <2>1 DEF FollowedBy
  <2>3. QED
    BY <1>1, <1>2, <2>2 DEF tl
<1>4. ASSUME OnlyPages(rs) PROVE OnlyPages(NextOf(rs))
  <2>1. OnlyPages(tl)
    BY <1>1, <1>4 DEF OnlyPages, tl
  <2>2. CASE hd.op = "page"
    <3>1. PICK n \in 0..2 : hd = Page(n)
      BY <1>1, <2>2 DEF Requests, Table, Grow, Drop, hd
    <3> DEFINE new == [i \in 1..n |-> Table]
    <3>2. FollowedBy(hd) = new
      BY <3>1 DEF FollowedBy, Page
    <3>3. new \in [1..n -> Requests] /\ n \in Nat
      BY RequestTypes
    <3>4. Len(new) = n /\ \A k \in 1..n : new[k] = Table
      OBVIOUS
    <3>5. new \in Seq(Requests)
      BY <3>3, ListOf
    <3> HIDE DEF new
    <3>6. tl \in Seq(Requests) /\ Len(tl) \in Nat
      BY <1>1 DEF tl
    <3>7. Joined(new, tl, n, Len(tl))
      BY <3>4, <3>5, <3>6, ConcatForm
    <3>8. NextOf(rs) = new \o tl
      BY <1>2, <3>2
    <3>9. ASSUME NEW k \in 1..n + Len(tl) PROVE (new \o tl)[k].op \in {"page", "table"}
      <4>1. (new \o tl)[k] = IF k <= n THEN new[k] ELSE tl[k - n]
        BY <3>7 DEF Joined
      <4>2. CASE k <= n
        BY <3>4, <4>1, <4>2 DEF Table
      <4>3. CASE ~(k <= n)
        <5>1. k - n \in 1..Len(tl)
          BY <3>6, <4>3
        <5>2. QED
          BY <2>1, <4>1, <4>3, <5>1 DEF OnlyPages
      <4>4. QED
        BY <4>2, <4>3
    <3>10. QED
      BY <3>7, <3>8, <3>9 DEF OnlyPages, Joined
  <2>3. CASE hd.op # "page"
    BY <1>3, <2>1, <2>3
  <2>4. QED
    BY <2>2, <2>3
<1>5. QED
  BY <1>1, <1>3, <1>4 DEF hd, tl

LEMMA FreshStep ==
    ASSUME NEW h, NEW own, NEW end, Sound(h, own, end), NEW rs \in Seq(Requests), rs # <<>>,
           FreshStage(rs, h, end), AllAligned(h.tables), NEW g, g = Serve(h, Head(rs)), g.ok
    PROVE  AllAligned(g.tables) /\ FreshStage(NextOf(rs), g, end)
<1>1. PICK B \in Nat : Fresh(h, B, end)
  BY DEF FreshStage
<1>2. OnlyPages(rs) /\ OnlyPages(NextOf(rs))
  BY NextRequests DEF FreshStage
<1>3. Head(rs).op \in {"page", "table"}
  BY <1>2, NextRequests DEF OnlyPages
<1>4. AllAligned(g.tables) /\ \E Y \in Nat : Fresh(g, Y, end)
  BY <1>1, <1>3, FreshServed
<1>5. QED
  BY <1>2, <1>4 DEF FreshStage

LEMMA PageStep ==
    ASSUME NEW h, NEW own, NEW end, Sound(h, own, end), NEW rs \in Seq(Requests), rs # <<>>, NEW n,
           PageStage(rs, h, n), AllAligned(h.tables), NEW g, g = Serve(h, Head(rs)), g.ok
    PROVE  AllAligned(g.tables) /\ PageStage(NextOf(rs), g, n)
<1>1. PICK B \in Nat, X \in Nat : X <= B + Reach(n, 2) /\ Closed(h, B, X)
  BY DEF PageStage
<1>2. OnlyPages(rs) /\ OnlyPages(NextOf(rs))
  BY NextRequests DEF PageStage
<1>3. Head(rs).op \in {"page", "table"}
  BY <1>2, NextRequests DEF OnlyPages
<1>4. Closed(h, B, X)
  BY <1>1
<1>5. AllAligned(g.tables) /\ Closed(g, B, X)
  BY <1>3, <1>4, ClosedServed
<1>6. QED
  BY <1>1, <1>2, <1>5 DEF PageStage

LEMMA ReachMost ==
    ASSUME NEW n, NEW B \in Nat, NEW X \in Nat, X <= B + Reach(n, 2)
    PROVE  X <= B + 180
<1>1. PICK reach \in 0..180 : reach = Reach(n, 2)
  BY ReachBound
<1>2. QED
  BY <1>1

LEMMA OpenStep ==
    ASSUME NEW h, NEW own, NEW end, Sound(h, own, end), NEW rs \in Seq(Requests), rs # <<>>, NEW n,
           OpenStage(rs, h, n, end), AllAligned(h.tables), NEW g, g = Serve(h, Head(rs)), g.ok
    PROVE  AllAligned(g.tables) /\ PageStage(NextOf(rs), g, n)
<1>1. PICK B \in Nat, X \in Nat : X <= B + Reach(n, 2) /\ Open(h, B, X, end)
  BY DEF OpenStage, OpenHeap
<1>2. OnlyPages(NextOf(rs)) /\ Head(rs).op = "page"
  BY NextRequests DEF OpenStage
<1>3. X <= B + 180
  BY <1>1, ReachMost
<1>4. Open(h, B, X, end)
  BY <1>1
<1>5. AllAligned(g.tables) /\ Closed(g, B, X)
  BY <1>2, <1>3, <1>4, OpenServed
<1>6. QED
  BY <1>1, <1>2, <1>5 DEF PageStage

LEMMA ListStep ==
    ASSUME NEW h, NEW own, NEW end, Sound(h, own, end), NEW rs \in Seq(Requests), rs # <<>>,
           NEW n \in 0..22, NEW r \in 0..6, ListStage(rs, h, n, r, end),
           NEW g, g = Serve(h, Head(rs)), g.ok
    PROVE  g.tables = h.tables /\ ListStage(NextOf(rs), g, n, r, end)
<1>1. PICK i \in Nat, B \in Nat, X \in Nat :
         /\ Len(rs) + i = Steps(n) + Steps(r)
         /\ \A k \in 1..Len(rs) : rs[k] = DeviceRequest(n, i + k)
         /\ Growing(h, n, i, B, X, end)
  BY DEF ListStage
<1>2. Steps(n) \in 0..4 /\ Steps(r) \in 0..2
  BY DEF Steps
<1>3. /\ Head(rs) = DeviceRequest(n, i + 1) /\ Len(rs) \in Nat /\ Len(rs) >= 1
      /\ Len(Tail(rs)) = Len(rs) - 1
      /\ \A k \in 1..Len(rs) - 1 : Tail(rs)[k] = rs[k + 1]
  BY <1>1, NextRequests
<1>4. NextOf(rs) = Tail(rs)
  <2>1. Head(rs).op # "page"
    BY <1>3 DEF DeviceRequest, Grow
  <2>2. QED
    BY <2>1, NextRequests
<1>5. i < Steps(n) \/ i = Steps(n) \/ i = Steps(n) + 1
  BY <1>1, <1>2, <1>3
<1>6. g = Serve(h, DeviceRequest(n, i + 1))
  BY <1>3
<1>7. g.tables = h.tables /\ \E Y \in Nat : Growing(g, n, i + 1, B, Y, end)
  <2>1. CASE i < Steps(n)
    BY <1>1, <1>6, <2>1, GrowingVirtio
  <2>2. CASE i = Steps(n)
    <3>1. Growing(h, n, Steps(n), B, X, end) /\ g = Serve(h, DeviceRequest(n, Steps(n) + 1))
      BY <1>1, <1>6, <2>2
    <3>2. g.tables = h.tables /\ \E Y \in Nat : Growing(g, n, Steps(n) + 1, B, Y, end)
      BY <3>1, GrowingPci
    <3>3. QED
      BY <2>2, <3>2
  <2>3. CASE i = Steps(n) + 1
    <3>1. i + 1 = Steps(n) + 2
      BY <1>2, <2>3
    <3>2. Growing(h, n, Steps(n) + 1, B, X, end) /\ g = Serve(h, DeviceRequest(n, Steps(n) + 2))
      BY <1>1, <1>6, <2>3, <3>1
    <3>3. g.tables = h.tables /\ \E Y \in Nat : Growing(g, n, Steps(n) + 2, B, Y, end)
      BY <3>2, GrowingPciAgain
    <3>4. QED
      BY <3>1, <3>3
  <2>4. QED
    BY <1>5, <2>1, <2>2, <2>3
<1>8. PICK j \in Nat : j = i + 1
  OBVIOUS
<1>9. PICK Y \in Nat : Growing(g, n, j, B, Y, end)
  BY <1>7, <1>8
<1>10. Len(Tail(rs)) + j = Steps(n) + Steps(r)
  BY <1>1, <1>2, <1>3, <1>8
<1>11. ASSUME NEW k \in 1..Len(Tail(rs)) PROVE Tail(rs)[k] = DeviceRequest(n, j + k)
  <2>1. k \in 1..Len(rs) - 1 /\ k + 1 \in 1..Len(rs) /\ i + (k + 1) = j + k
    BY <1>3, <1>8
  <2>2. QED
    BY <1>1, <1>3, <2>1
<1>12. ListStage(Tail(rs), g, n, r, end)
  BY <1>9, <1>10, <1>11 DEF ListStage
<1>13. QED
  BY <1>4, <1>7, <1>12

LEMMA MapStep ==
    ASSUME NEW h, NEW own, NEW end, Sound(h, own, end), NEW rs \in Seq(Requests), rs # <<>>,
           MapStage(rs, h), AllAligned(h.tables), NEW g, g = Serve(h, Head(rs)), g.ok
    PROVE  AllAligned(g.tables) /\ MapStage(NextOf(rs), g)
<1>1. PICK B \in Nat, X \in Nat : Closed(h, B, X) /\ MapRequests(rs, B + 510 - X)
  BY DEF MapStage
<1> DEFINE room == B + 510 - X
           need == Need(rs, 1)
<1>2. room \in Nat
  BY <1>1 DEF Closed, MIN_HOLE, PAGE_UNITS
<1> HIDE DEF room
<1>3. need \in Nat /\ need <= room /\ MapRequests(Tail(rs), room - need)
  BY <1>1, <1>2, MapRequestsTail DEF room
<1>4. /\ Head(rs) = rs[1] /\ 1 \in 1..Len(rs) /\ Len(rs) \in Nat
      /\ Head(rs).op # "page" => NextOf(rs) = Tail(rs)
  BY NextRequests
<1>5. Head(rs) = Table \/ Head(rs) = Drop("map") \/ \E n \in Nat \ {0} : Head(rs) = Grow("map", n)
  BY <1>1, <1>4 DEF MapRequests
<1>6. NextOf(rs) = Tail(rs)
  BY <1>4, <1>5 DEF Table, Drop, Grow
<1>7. ASSUME NEW Y \in Nat, Y <= X + need, Closed(g, B, Y) PROVE MapStage(NextOf(rs), g)
  <2>1. PICK more \in Nat : more = B + 510 - Y
    BY <1>7 DEF Closed, MIN_HOLE, PAGE_UNITS
  <2>2. room - need <= more /\ room - need \in Int
    BY <1>2, <1>3, <1>7, <2>1 DEF room
  <2>3. Tail(rs) \in Seq(Requests)
    BY NextRequests
  <2>4. \A k \in Nat \ {0} : Need(Tail(rs), k) \in Nat
    BY <2>3, NeedNat
  <2>5. MapRequests(Tail(rs), more)
    BY <1>3, <2>2, <2>4 DEF MapRequests
  <2>6. QED
    BY <1>6, <1>7, <2>1, <2>5 DEF MapStage
<1>8. CASE Head(rs) = Table
  <2>1. AllAligned(g.tables) /\ Closed(g, B, X)
    BY <1>1, <1>8, ClosedServed DEF Table
  <2>2. X <= X + need
    BY <1>3
  <2>3. QED
    BY <1>7, <2>1, <2>2
<1>9. CASE Head(rs) = Drop("map")
  <2>1. g.tables = h.tables /\ \E Y \in Nat : Y <= X /\ Closed(g, B, Y)
    BY <1>1, <1>9, ClosedDrop
  <2>2. PICK Y \in Nat : Y <= X /\ Closed(g, B, Y)
    BY <2>1
  <2>3. Y <= X + need
    BY <1>3, <2>2
  <2>4. QED
    BY <1>7, <2>1, <2>2, <2>3
<1>10. ASSUME NEW n \in Nat \ {0}, Head(rs) = Grow("map", n)
       PROVE  AllAligned(g.tables) /\ MapStage(NextOf(rs), g)
  <2>1. need = n
    BY <1>4, <1>10 DEF Need, Grow
  <2>2. X + n + MIN_HOLE <= B + PAGE_UNITS
    BY <1>3, <2>1 DEF room, MIN_HOLE, PAGE_UNITS
  <2>3. g = grow(h, "map", n)
    BY <1>10, ServeGrow
  <2>4. g.tables = h.tables /\ \E Y \in Nat : Y <= X + n /\ Closed(g, B, Y)
    BY <1>1, <2>2, <2>3, ClosedGrow
  <2>5. QED
    BY <1>7, <2>1, <2>4
<1>11. QED
  BY <1>5, <1>8, <1>9, <1>10

----------------------------------------------------------------------------
(* The invariant                                                           *)

USE DEF At, Interrupted, interrupts, stack, translation

\* Where requests are outstanding, and what comes before interrupts are enabled.
Working == {"Devices::new", "load_guest_elf", "filling_memory_region", "device_mapping", "hgatp"}
BeforeLists == {"mstart", "enter_hypervisor_mode", "hstart", "Guest::new", "Devices::new"}
Masked == {"_start"} \cup BeforeLists \cup Working

StageOK(p, rs, h, n, r, end) ==
    /\ p \in BeforeLists => FreshStage(rs, h, end)
    /\ p = "load_guest_elf" => ListStage(rs, h, n, r, end)
    /\ p = "filling_memory_region" =>
           PageStage(rs, h, n) \/ OpenStage(rs, h, n, end) \/ NoImage(rs, h, n, end)
    /\ p = "device_mapping" => PageStage(rs, h, n) \/ OpenStage(rs, h, n, end)
    /\ p = "hgatp" => MapStage(rs, h)

\* The tables made are aligned, and the stage is such that the next ones will be.
Layout ==
    AllAligned(mem.tables) /\ StageOK(pc, reqs, mem, m.virtio, Len(m.ranges), HeapEnd)
Quiet ==
    /\ pc \notin Working \cup {"panic"} => reqs = <<>>
    /\ pc \in Masked => ~sstatus_sie
LayoutInv == Quiet /\ (HoleForDeviceMap => Layout)

LEMMA StageStep ==
    ASSUME NEW h, NEW own, NEW end, Sound(h, own, end), NEW rs \in Seq(Requests), rs # <<>>,
           NEW n \in 0..22, NEW r \in 0..6, NEW p \in Working, StageOK(p, rs, h, n, r, end),
           AllAligned(h.tables), NEW g, g = Serve(h, Head(rs)), g.ok
    PROVE  AllAligned(g.tables) /\ StageOK(p, NextOf(rs), g, n, r, end)
<1>1. CASE p = "Devices::new"
  <2>1. FreshStage(rs, h, end)
    BY <1>1 DEF StageOK, BeforeLists
  <2>2. AllAligned(g.tables) /\ FreshStage(NextOf(rs), g, end)
    BY <2>1, FreshStep
  <2>3. QED
    BY <1>1, <2>2 DEF StageOK, BeforeLists
<1>2. CASE p = "load_guest_elf"
  <2>1. ListStage(rs, h, n, r, end)
    BY <1>2 DEF StageOK
  <2>2. g.tables = h.tables /\ ListStage(NextOf(rs), g, n, r, end)
    BY <2>1, ListStep
  <2>3. QED
    BY <1>2, <2>2 DEF StageOK, BeforeLists
<1>3. CASE p \in {"filling_memory_region", "device_mapping"}
  <2>1. PageStage(rs, h, n) \/ OpenStage(rs, h, n, end)
    BY <1>3 DEF StageOK, NoImage
  <2>2. AllAligned(g.tables) /\ PageStage(NextOf(rs), g, n)
    BY <2>1, PageStep, OpenStep
  <2>3. QED
    BY <1>3, <2>2 DEF StageOK, BeforeLists
<1>4. CASE p = "hgatp"
  <2>1. MapStage(rs, h)
    BY <1>4 DEF StageOK
  <2>2. AllAligned(g.tables) /\ MapStage(NextOf(rs), g)
    BY <2>1, MapStep
  <2>3. QED
    BY <1>4, <2>2 DEF StageOK, BeforeLists
<1>5. QED
  BY <1>1, <1>2, <1>3, <1>4 DEF Working

\* A step of the boot that leaves the heap and its requests alone.
StillSafe(p, q) == q = p \/ (p \in BeforeLists /\ q \in BeforeLists)
                   \/ q \notin BeforeLists \cup Working

LEMMA StageKept ==
    ASSUME NEW p, NEW q, NEW rs, NEW h, NEW n, NEW r, NEW end, StageOK(p, rs, h, n, r, end),
           StillSafe(p, q)
    PROVE  StageOK(q, rs, h, n, r, end)
BY Zenon DEF StageOK, StillSafe, BeforeLists, Working

LEMMA LayoutFacts ==
    ASSUME IInv
    PROVE  /\ Sound(mem, Owners, HeapEnd) /\ reqs \in Seq(Requests)
           /\ HoleForDeviceMap => m.virtio \in 0..22 /\ Len(m.ranges) \in 0..6
                                  /\ m.virtio + Len(m.ranges) > 0
<1>1. HeapEnd \in Nat /\ m.virtio \in Nat /\ m.ranges \in Seq({"low", "high"})
  BY MachineFacts DEF IInv
<1>2. Sound(mem, Owners, HeapEnd) /\ reqs \in Seq(Requests)
  BY <1>1 DEF IInv, MemoryInv, Sound, Owners
<1>3. Len(m.ranges) \in Nat
  BY <1>1
<1>4. ASSUME HoleForDeviceMap
      PROVE  m.virtio \in 0..22 /\ Len(m.ranges) \in 0..6 /\ m.virtio + Len(m.ranges) > 0
  <2>1. m.virtio + Len(m.ranges) > 0 /\ m.virtio <= 22 /\ Len(m.ranges) <= 6
    BY <1>4 DEF HoleForDeviceMap
  <2>2. PICK n \in Nat, r \in Nat : n = m.virtio /\ r = Len(m.ranges)
    BY <1>1, <1>3
  <2>3. n + r > 0 /\ n <= 22 /\ r <= 6
    BY <2>1, <2>2, Zenon
  <2>4. n \in 0..22 /\ r \in 0..6
    BY <2>3
  <2>5. QED
    BY <2>2, <2>3, <2>4, Zenon
<1>5. QED
  BY <1>2, <1>4

\* The heap is as _start made it.
LEMMA StartFresh ==
    ASSUME IInv, pc = "_start", mem' = [mem EXCEPT !.holes = {Hole(HeapStart, m.heap)}]
    PROVE  Fresh(mem', HeapStart, HeapEnd) /\ mem'.tables = mem.tables
<1>1. mem \in MemType /\ Owners = {} /\ m.heap \in Nat \ {0} /\ HeapStart \in Nat
      /\ HeapStart % PAGE_UNITS = 0
  BY BootAssumption, MachineFacts DEF IInv, MemoryInv
<1>2. mem'.holes = {Hole(HeapStart, m.heap)} /\ mem'.vecs = mem.vecs /\ mem'.tables = mem.tables
  BY <1>1 DEF MemType
<1>3. \A v \in Vecs : mem.vecs[v].len = 0
  <2>1. SUFFICES ASSUME NEW v \in Vecs, mem.vecs[v].len # 0 PROVE FALSE
    OBVIOUS
  <2>2. Owner(v, mem.vecs[v].at, mem.vecs[v].len) \in Owners
    BY <2>1 DEF Owners, HeapOwners
  <2>3. QED
    BY <1>1, <2>2
<1>4. HeapStart <= HeapEnd /\ HeapStart < HeapEnd /\ HeapEnd - HeapStart = m.heap
  BY <1>1 DEF HeapEnd
<1>5. QED
  BY <1>1, <1>2, <1>3, <1>4 DEF Fresh

\* The lists of the functions that are called.
LEMMA OnlyPagesLists ==
    ASSUME ScalarsOK
    PROVE  /\ OnlyPages(map_guest_dtb(m.dtb)) /\ OnlyPages(load_guest_elf)
           /\ OnlyPages(filling_memory_region)
           /\ IF ElfPages = 0 THEN load_guest_elf = <<>>
              ELSE load_guest_elf # <<>> /\ Head(load_guest_elf).op = "page"
           /\ ElfPages = 0 => filling_memory_region # <<>> /\ Head(filling_memory_region).op = "page"
<1>1. m.dtb \in Nat /\ ElfPages \in Nat /\ FillPages \in Nat /\ (ElfPages = 0 => FillPages # 0)
  BY BootAssumption, MachineFacts
<1>2. OnlyPages(map_guest_dtb(m.dtb))
  BY <1>1 DEF OnlyPages, map_guest_dtb, Page
<1>3. ASSUME NEW first, NEW pages \in Nat
      PROVE  /\ OnlyPages(MapPages(first, pages)) /\ Len(MapPages(first, pages)) = pages
             /\ pages # 0 => MapPages(first, pages)[1].op = "page"
  BY DEF OnlyPages, MapPages, Page
<1>4. /\ OnlyPages(load_guest_elf) /\ Len(load_guest_elf) = ElfPages
      /\ ElfPages # 0 => load_guest_elf[1].op = "page"
  <2> DEFINE first == 0
  <2>1. load_guest_elf = MapPages(first, ElfPages)
    BY DEF load_guest_elf
  <2> HIDE DEF first
  <2>2. QED
    BY <1>1, <1>3, <2>1
<1>5. /\ OnlyPages(filling_memory_region) /\ Len(filling_memory_region) = FillPages
      /\ FillPages # 0 => filling_memory_region[1].op = "page"
  BY <1>1, <1>3 DEF filling_memory_region
<1>6. load_guest_elf \in Seq(Requests) /\ filling_memory_region \in Seq(Requests)
  BY ListsTyped
<1>7. IF ElfPages = 0 THEN load_guest_elf = <<>>
      ELSE load_guest_elf # <<>> /\ Head(load_guest_elf).op = "page"
  BY <1>1, <1>4, <1>6
<1>8. ElfPages = 0 => filling_memory_region # <<>> /\ Head(filling_memory_region).op = "page"
  BY <1>1, <1>5, <1>6
<1>9. QED
  BY <1>2, <1>4, <1>5, <1>7, <1>8

\* Devices::new begins on an untouched heap.
LEMMA EnterLists ==
    ASSUME NEW h, NEW own, NEW end, Sound(h, own, end), NEW rs, FreshStage(rs, h, end),
           NEW n \in 0..22, NEW ranges \in Seq({"low", "high"}), Len(ranges) \in 0..6
    PROVE  ListStage(VirtIoList_new(n) \o Pci_new(ranges), h, n, Len(ranges), end)
<1>1. PICK B \in Nat : Fresh(h, B, end)
  BY DEF FreshStage
<1> DEFINE list == VirtIoList_new(n) \o Pci_new(ranges)
           i == 0
<1>2. /\ Len(list) = Steps(n) + Steps(Len(ranges))
      /\ \A k \in 1..Steps(n) + Steps(Len(ranges)) : list[k] = DeviceRequest(n, k)
  <2>1. n \in 0..32 /\ Len(ranges) \in 0..32
    OBVIOUS
  <2>2. QED
    BY <2>1, DeviceRequests
<1> HIDE DEF list
<1>3. Steps(n) \in Nat /\ Steps(Len(ranges)) \in Nat
  BY DEF Steps
<1>4. Ladder(h, B, B, end, 0)
  <2>1. end \in Nat /\ h.vecs["virtio"].len = 0
    BY <1>1 DEF Sound, Fresh, Vecs
  <2>2. QED
    BY <1>1, <2>1 DEF Ladder, Fresh
<1>5. Growing(h, n, i, B, B, end)
  BY <1>1, <1>3, <1>4 DEF Growing, Fresh, Vecs
<1>6. /\ i \in Nat /\ Len(list) + i = Steps(n) + Steps(Len(ranges))
      /\ \A k \in 1..Len(list) : list[k] = DeviceRequest(n, i + k)
  <2>1. \A k \in 1..Len(list) : i + k = k
    BY <1>2, <1>3
  <2>2. QED
    BY <1>2, <1>3, <2>1
<1> HIDE DEF i
<1>7. ListStage(list, h, n, Len(ranges), end)
  BY <1>5, <1>6 DEF ListStage
<1>8. QED
  BY <1>7 DEF list

\* The image follows when the lists are complete.
LEMMA EnterImage ==
    ASSUME NEW h, NEW own, NEW end, Sound(h, own, end), NEW rs, rs = <<>>,
           NEW n \in 0..22, NEW r \in 0..6, n + r > 0, ListStage(rs, h, n, r, end)
    PROVE  OpenHeap(h, n, end)
<1>1. PICK i \in Nat, B \in Nat, X \in Nat :
         Len(rs) + i = Steps(n) + Steps(r) /\ Growing(h, n, i, B, X, end)
  BY DEF ListStage
<1>2. i = Steps(n) + Steps(r)
  BY <1>1
<1>3. Open(h, B, X, end) /\ X <= B + Reach(n, 2)
  BY <1>1, <1>2, GrowingDone
<1>4. QED
  BY <1>3 DEF OpenHeap

\* The list of regions fits in the area.
LEMMA EnterMap ==
    ASSUME NEW h, NEW rs, NEW n \in 0..22, NEW ranges, Len(ranges) \in 0..6, PageStage(rs, h, n),
           NEW list, list = device_mapping_g_stage(n, ranges), list \in Seq(Requests)
    PROVE  MapStage(list, h)
<1>1. PICK B \in Nat, X \in Nat : X <= B + Reach(n, 2) /\ Closed(h, B, X)
  BY DEF PageStage
<1>2. MapRequests(list, 510 - Reach(n, 2))
  BY DeviceMapRequests
<1>3. PICK reach \in Nat : reach = Reach(n, 2)
  BY ReachBound
<1>4. Need(list, 1) \in Nat /\ Need(list, 2) \in Nat /\ Need(list, 3) \in Nat
  BY NeedNat
<1>5. 510 - reach <= B + 510 - X
  BY <1>1, <1>3
<1>6. MapRequests(list, B + 510 - X)
  BY <1>2, <1>3, <1>4, <1>5 DEF MapRequests
<1>7. QED
  BY <1>1, <1>6 DEF MapStage

----------------------------------------------------------------------------
(* The steps                                                               *)

\* A step that changes neither the heap nor its requests.
LEMMA LayoutKept ==
    ASSUME LayoutInv, UNCHANGED <<m, reqs, mem>>, StillSafe(pc, pc'),
           pc' # pc => reqs = <<>>, pc' \in Masked => ~sstatus_sie'
    PROVE  LayoutInv'
<1>1. Quiet'
  BY DEF LayoutInv, Quiet
<1>2. ASSUME HoleForDeviceMap' PROVE Layout'
  <2>1. Layout
    BY <1>2 DEF LayoutInv, HoleForDeviceMap
  <2>2. StageOK(pc', reqs, mem, m.virtio, Len(m.ranges), HeapEnd)
    BY <2>1, StageKept DEF Layout
  <2>3. HeapEnd' = HeapEnd
    BY DEF HeapEnd
  <2>4. QED
    BY <2>1, <2>2, <2>3 DEF Layout
<1>3. QED
  BY <1>1, <1>2 DEF LayoutInv

\* A function that is called when nothing is outstanding.
LEMMA LayoutCalled ==
    ASSUME LayoutInv, NEW rs, NEW step \in Working, Allocating(rs, step), pc \in Masked,
           HoleForDeviceMap /\ Layout => StageOK(step, rs, mem, m.virtio, Len(m.ranges), HeapEnd)
    PROVE  LayoutInv'
<1>1. pc' = step /\ reqs' = rs /\ UNCHANGED <<m, mem, sstatus_sie>>
  BY DEF Allocating
<1>2. Quiet'
  BY <1>1, Zenon DEF LayoutInv, Quiet
<1>3. ASSUME HoleForDeviceMap' PROVE Layout'
  <2>1. HoleForDeviceMap /\ Layout
    BY <1>1, <1>3 DEF LayoutInv, HoleForDeviceMap
  <2>2. HeapEnd' = HeapEnd
    BY <1>1 DEF HeapEnd
  <2>3. QED
    BY <1>1, <2>1, <2>2 DEF Layout
<1>4. QED
  BY <1>2, <1>3 DEF LayoutInv

\* A step that leaves the stages, and makes no table.
LEMMA LayoutLeft ==
    ASSUME LayoutInv, UNCHANGED m, mem'.tables = mem.tables, pc' \notin Masked,
           reqs' = <<>> \/ pc' = "panic"
    PROVE  LayoutInv'
<1>1. Quiet'
  BY DEF LayoutInv, Quiet
<1>2. ASSUME HoleForDeviceMap' PROVE Layout'
  <2>1. AllAligned(mem.tables)
    BY <1>2 DEF LayoutInv, Layout, HoleForDeviceMap
  <2>2. pc' \notin BeforeLists \cup Working
    BY DEF Masked
  <2>3. QED
    BY <2>1, <2>2 DEF Layout, StageOK, Working
<1>3. QED
  BY <1>1, <1>2 DEF LayoutInv

LEMMA LayoutRequest ==
    ASSUME IInv, LayoutInv, Request
    PROVE  LayoutInv'
<1>1. /\ reqs # <<>> /\ pc # "panic" /\ mem' = Serve(mem, Head(reqs)) /\ reqs' = NextOf(reqs)
      /\ pc' = (IF mem'.ok THEN pc ELSE "panic") /\ UNCHANGED <<m, sstatus_sie>>
  BY DEF Request, NextOf
<1>2. pc \in Working /\ pc \in Masked
  BY <1>1 DEF LayoutInv, Quiet, Masked
<1>3. Sound(mem, Owners, HeapEnd) /\ reqs \in Seq(Requests)
  BY LayoutFacts
<1>4. CASE mem'.ok
  <2>1. pc' = pc
    BY <1>1, <1>4
  <2>2. Quiet'
    BY <1>1, <1>2, <2>1, Zenon DEF LayoutInv, Quiet
  <2>3. ASSUME HoleForDeviceMap' PROVE Layout'
    <3>1. /\ m.virtio \in 0..22 /\ Len(m.ranges) \in 0..6
          /\ AllAligned(mem.tables) /\ StageOK(pc, reqs, mem, m.virtio, Len(m.ranges), HeapEnd)
      BY <1>1, <2>3, LayoutFacts DEF LayoutInv, Layout, HoleForDeviceMap
    <3>2. PICK h, n, r, end, p, rs, g, own :
             /\ h = mem /\ n = m.virtio /\ r = Len(m.ranges) /\ end = HeapEnd /\ p = pc
             /\ rs = reqs /\ g = mem' /\ own = Owners
      OBVIOUS
    <3>3. /\ Sound(h, own, end) /\ rs \in Seq(Requests) /\ rs # <<>> /\ n \in 0..22 /\ r \in 0..6
          /\ p \in Working /\ StageOK(p, rs, h, n, r, end) /\ AllAligned(h.tables)
          /\ g = Serve(h, Head(rs)) /\ g.ok
      BY <1>1, <1>2, <1>3, <1>4, <3>1, <3>2, Zenon
    <3>4. AllAligned(g.tables) /\ StageOK(p, NextOf(rs), g, n, r, end)
      BY <3>3, StageStep
    <3>5. HeapEnd' = HeapEnd /\ m' = m
      BY <1>1 DEF HeapEnd
    <3>6. QED
      BY <1>1, <2>1, <3>2, <3>4, <3>5, Zenon DEF Layout
  <2>4. QED
    BY <2>2, <2>3 DEF LayoutInv
<1>5. CASE ~mem'.ok
  <2>1. pc' = "panic"
    BY <1>1, <1>5
  <2>2. Head(reqs) \in Requests
    BY <1>1, <1>3
  <2>3. mem'.tables = mem.tables
    BY <1>1, <1>3, <1>5, <2>2, ServeFailed
  <2>4. pc' \notin Masked
    BY <2>1 DEF Masked, BeforeLists, Working
  <2>5. QED
    BY <1>1, <2>1, <2>3, <2>4, LayoutLeft
<1>6. QED
  BY <1>4, <1>5

LEMMA LayoutInit == ASSUME Init PROVE LayoutInv
<1>1. pc = "_start" /\ reqs = <<>> /\ ~sstatus_sie /\ mem.tables = {}
  BY DEF Init
<1>2. Quiet
  BY <1>1, Zenon DEF Quiet
<1>3. Layout
  BY <1>1 DEF Layout, AllAligned, StageOK, BeforeLists
<1>4. QED
  BY <1>2, <1>3 DEF LayoutInv

LEMMA LayoutStart == ASSUME IInv, LayoutInv, _start PROVE LayoutInv'
<1>1. /\ pc = "_start" /\ reqs = <<>> /\ pc' = "mstart" /\ UNCHANGED <<m, reqs, sstatus_sie>>
      /\ mem' = [mem EXCEPT !.holes = {Hole(HeapStart, m.heap)}]
  BY DEF _start
<1>2. Quiet'
  <2>1. ~sstatus_sie
    BY <1>1 DEF LayoutInv, Quiet, Masked
  <2>2. QED
    BY <1>1, <2>1, Zenon DEF Quiet
<1>3. ASSUME HoleForDeviceMap' PROVE Layout'
  <2>1. AllAligned(mem.tables)
    BY <1>1, <1>3 DEF LayoutInv, Layout, HoleForDeviceMap
  <2>2. Fresh(mem', HeapStart, HeapEnd) /\ mem'.tables = mem.tables
    BY <1>1, StartFresh
  <2>3. HeapEnd' = HeapEnd /\ HeapStart \in Nat
    BY <1>1, BootAssumption DEF HeapEnd
  <2>4. OnlyPages(reqs')
    BY <1>1 DEF OnlyPages
  <2>5. FreshStage(reqs', mem', HeapEnd')
    BY <2>2, <2>3, <2>4 DEF FreshStage
  <2>6. QED
    BY <1>1, <2>1, <2>2, <2>5 DEF Layout, StageOK
<1>4. QED
  BY <1>2, <1>3 DEF LayoutInv

\* The calls of the functions that allocate.
LEMMA LayoutCalls ==
    ASSUME IInv, LayoutInv,
           Guest_new \/ Devices_new \/ LoadGuestElf \/ FillMemoryRegion \/ DeviceMapping
    PROVE  LayoutInv'
<1>1. /\ Sound(mem, Owners, HeapEnd) /\ ScalarsOK /\ m.ranges \in Seq({"low", "high"})
      /\ HoleForDeviceMap => m.virtio \in 0..22 /\ Len(m.ranges) \in 0..6
                             /\ m.virtio + Len(m.ranges) > 0
  BY LayoutFacts, MachineFacts DEF IInv
<1> DEFINE OK(step, rs) == StageOK(step, rs, mem, m.virtio, Len(m.ranges), HeapEnd)
<1>2. CASE Guest_new
  <2>1. pc = "Guest::new" /\ Allocating(map_guest_dtb(m.dtb), "Devices::new")
    BY <1>2 DEF Guest_new
  <2>2. ASSUME Layout PROVE OK("Devices::new", map_guest_dtb(m.dtb))
    <3>1. FreshStage(reqs, mem, HeapEnd)
      BY <2>1, <2>2 DEF Layout, StageOK, BeforeLists
    <3>2. FreshStage(map_guest_dtb(m.dtb), mem, HeapEnd)
      BY <1>1, <3>1, OnlyPagesLists DEF FreshStage
    <3>3. QED
      BY <3>2 DEF StageOK
  <2>3. pc \in Masked /\ "Devices::new" \in Working
    BY <2>1 DEF Masked, BeforeLists, Working
  <2>4. QED
    BY <2>1, <2>2, <2>3, LayoutCalled
<1>3. CASE Devices_new
  <2> DEFINE list == VirtIoList_new(m.virtio) \o Pci_new(m.ranges)
  <2>1. pc = "Devices::new" /\ Allocating(list, "load_guest_elf")
    BY <1>3 DEF Devices_new
  <2>2. ASSUME HoleForDeviceMap, Layout PROVE OK("load_guest_elf", list)
    <3>1. FreshStage(reqs, mem, HeapEnd)
      BY <2>1, <2>2 DEF Layout, StageOK, BeforeLists
    <3>2. ListStage(list, mem, m.virtio, Len(m.ranges), HeapEnd)
      BY <1>1, <2>2, <3>1, EnterLists
    <3>3. QED
      BY <3>2 DEF StageOK, BeforeLists
  <2>3. pc \in Masked /\ "load_guest_elf" \in Working
    BY <2>1 DEF Masked, BeforeLists, Working
  <2> HIDE DEF list
  <2>4. QED
    BY <2>1, <2>2, <2>3, LayoutCalled
<1>4. CASE LoadGuestElf
  <2>1. pc = "load_guest_elf" /\ reqs = <<>> /\ Allocating(load_guest_elf, "filling_memory_region")
    BY <1>4 DEF LoadGuestElf
  <2>2. ASSUME HoleForDeviceMap, Layout PROVE OK("filling_memory_region", load_guest_elf)
    <3>1. ListStage(reqs, mem, m.virtio, Len(m.ranges), HeapEnd)
      BY <2>1, <2>2 DEF Layout, StageOK
    <3>2. OpenHeap(mem, m.virtio, HeapEnd)
      BY <1>1, <2>1, <2>2, <3>1, EnterImage
    <3>3. \/ OpenStage(load_guest_elf, mem, m.virtio, HeapEnd)
          \/ NoImage(load_guest_elf, mem, m.virtio, HeapEnd)
      BY <1>1, <3>2, OnlyPagesLists DEF OpenStage, NoImage
    <3>4. QED
      BY <3>3 DEF StageOK, BeforeLists
  <2>3. pc \in Masked /\ "filling_memory_region" \in Working
    BY <2>1 DEF Masked, BeforeLists, Working
  <2>4. QED
    BY <2>1, <2>2, <2>3, LayoutCalled
<1>5. CASE FillMemoryRegion
  <2>1. /\ pc = "filling_memory_region" /\ reqs = <<>>
        /\ Allocating(filling_memory_region, "device_mapping")
    BY <1>5 DEF FillMemoryRegion
  <2>2. ASSUME Layout PROVE OK("device_mapping", filling_memory_region)
    <3>1. PageStage(reqs, mem, m.virtio) \/ NoImage(reqs, mem, m.virtio, HeapEnd)
      BY <2>1, <2>2 DEF Layout, StageOK, OpenStage
    <3>2. CASE PageStage(reqs, mem, m.virtio)
      <4>1. PageStage(filling_memory_region, mem, m.virtio)
        BY <1>1, <3>2, OnlyPagesLists DEF PageStage
      <4>2. QED
        BY <4>1 DEF StageOK, BeforeLists
    <3>3. CASE NoImage(reqs, mem, m.virtio, HeapEnd)
      <4>1. OpenStage(filling_memory_region, mem, m.virtio, HeapEnd)
        BY <1>1, <3>3, OnlyPagesLists DEF OpenStage, NoImage
      <4>2. QED
        BY <4>1 DEF StageOK, BeforeLists
    <3>4. QED
      BY <3>1, <3>2, <3>3
  <2>3. pc \in Masked /\ "device_mapping" \in Working
    BY <2>1 DEF Masked, BeforeLists, Working
  <2>4. QED
    BY <2>1, <2>2, <2>3, LayoutCalled
<1>6. CASE DeviceMapping
  <2> DEFINE list == device_mapping_g_stage(m.virtio, m.ranges)
  <2>1. pc = "device_mapping" /\ reqs = <<>> /\ Allocating(list, "hgatp")
    BY <1>6 DEF DeviceMapping
  <2>2. ASSUME HoleForDeviceMap, Layout PROVE OK("hgatp", list)
    <3>1. PageStage(reqs, mem, m.virtio)
      BY <2>1, <2>2 DEF Layout, StageOK, OpenStage
    <3>2. list \in Seq(Requests)
      BY <1>1, ListsTyped
    <3>3. MapStage(list, mem)
      BY <1>1, <2>2, <3>1, <3>2, EnterMap
    <3>4. QED
      BY <3>3 DEF StageOK, BeforeLists
  <2>3. pc \in Masked /\ "hgatp" \in Working
    BY <2>1 DEF Masked, BeforeLists, Working
  <2> HIDE DEF list
  <2>4. QED
    BY <2>1, <2>2, <2>3, LayoutCalled
<1>7. QED
  BY <1>2, <1>3, <1>4, <1>5, <1>6

LEMMA LayoutStep == ASSUME IInv, LayoutInv, [Next]_vars PROVE LayoutInv'
<1>1. ASSUME UNCHANGED <<m, reqs, mem, pc, sstatus_sie>> PROVE LayoutInv'
  <2>1. StillSafe(pc, pc')
    BY <1>1 DEF StillSafe
  <2>2. pc' \in Masked => ~sstatus_sie'
    BY <1>1, Zenon DEF LayoutInv, Quiet
  <2>3. QED
    BY <1>1, <2>1, <2>2, LayoutKept
<1>2. ASSUME UNCHANGED <<m, reqs, mem, sstatus_sie>>, reqs = <<>>,
             pc \in BeforeLists, pc' \in BeforeLists
      PROVE  LayoutInv'
  <2>1. StillSafe(pc, pc')
    BY <1>2 DEF StillSafe
  <2>2. pc' \in Masked => ~sstatus_sie'
    BY <1>2, Zenon DEF LayoutInv, Quiet, Masked
  <2>3. QED
    BY <1>2, <2>1, <2>2, LayoutKept
<1>3. ASSUME UNCHANGED <<m, reqs>>, mem'.tables = mem.tables, reqs = <<>>, pc' \notin Masked
      PROVE  LayoutInv'
  BY <1>3, LayoutLeft
<1>4. ASSUME mem' = alloc(mem) PROVE mem'.tables = mem.tables
  <2>1. ScalarsOK /\ MemoryInv
    BY DEF IInv
  <2>2. PICK kind : kind = "page"
    OBVIOUS
  <2>3. TakenOK(mem, mem', Owners, HeapEnd, kind, PAGE_UNITS, PAGE_UNITS)
    BY <1>4, <2>1, PageTaken
  <2>4. QED
    BY <2>3 DEF TakenOK
<1>5. CASE UNCHANGED vars
  BY <1>1, <1>5 DEF vars
<1>6. CASE Request
  BY <1>6, LayoutRequest
<1>7. CASE _start
  BY <1>7, LayoutStart
<1>8. CASE mstart \/ enter_hypervisor_mode \/ hstart
  BY <1>2, <1>8 DEF mstart, enter_hypervisor_mode, hstart, BeforeLists
<1>9. CASE Guest_new \/ Devices_new \/ LoadGuestElf \/ FillMemoryRegion \/ DeviceMapping
  BY <1>9, LayoutCalls
<1>10. CASE SetHgatp \/ init_iommu \/ SetSstatus \/ SetStvec \/ hart_entry
  <2>1. UNCHANGED <<m, reqs, mem>> /\ reqs = <<>>
    BY <1>10 DEF SetHgatp, init_iommu, SetSstatus, SetStvec, hart_entry
  <2>2. pc' \in {"init_iommu", "sstatus", "panic", "cq", "stvec", "hart_entry", "guest"}
    BY <1>10 DEF SetHgatp, init_iommu, SetSstatus, SetStvec, hart_entry
  <2>3. pc' \notin Masked
    BY <2>2 DEF Masked, BeforeLists, Working
  <2>4. QED
    BY <1>3, <2>1, <2>3
<1>11. ASSUME NEW q \in Queues, set_queue(q) \/ poll_queue(q) PROVE LayoutInv'
  <2>1. UNCHANGED <<m, reqs>> /\ reqs = <<>> /\ (mem' = mem \/ mem' = alloc(mem))
    BY <1>11 DEF set_queue, poll_queue
  <2>2. pc' \in {"panic", "spin", PollOf[q], AfterQueue[q]}
    BY <1>11 DEF set_queue, poll_queue
  <2>3. pc' \notin Masked
    BY <2>2, QueueOrder DEF Masked, BeforeLists, Working, Queues
  <2>4. QED
    BY <1>3, <1>4, <2>1, <2>3
<1>12. CASE set_ddtp
  <2>1. UNCHANGED <<m, reqs>> /\ reqs = <<>> /\ mem' = alloc(mem) /\ pc' \in {"sstatus", "panic"}
    BY <1>12 DEF set_ddtp
  <2>2. pc' \notin Masked
    BY <2>1 DEF Masked, BeforeLists, Working
  <2>3. QED
    BY <1>3, <1>4, <2>1, <2>2
<1>13. CASE StrayTrap
  <2>1. /\ UNCHANGED <<m, reqs, mem>> /\ sstatus_sie /\ pc # "panic"
        /\ pc' \in {"_start in HS-mode", "hstrap_vector without a stack"}
    BY <1>13 DEF StrayTrap, STimerPending, Stopped
  <2>2. reqs = <<>>
    BY <2>1, Zenon DEF LayoutInv, Quiet, Masked
  <2>3. pc' \notin Masked
    BY <2>1 DEF Masked, BeforeLists, Working
  <2>4. QED
    BY <1>3, <2>1, <2>2, <2>3
<1>14. CASE mtrap_vector \/ GuestSetTimer \/ TimerExpires \/ DmaFaults \/ \E q \in Queues : QueueOn(q)
  BY <1>1, <1>14 DEF mtrap_vector, GuestSetTimer, TimerExpires, DmaFaults, QueueOn
<1>15. QED
  BY <1>5, <1>6, <1>7, <1>8, <1>9, <1>10, <1>11, <1>12, <1>13, <1>14 DEF Next, BootStep, Queues

\* The page tables are page aligned for every size of heap, image, guest memory and
\* device tree, and every machine with a device list, at most 22 virtio nodes and at
\* most 6 PCI ranges (sv39x4.rs, generate_page_table;
\* device.rs, create_device_map).
THEOREM BootTablesStayAligned == Spec => []TablesAligned
<1>1. Init => LayoutInv
  BY LayoutInit
<1>2. IInv /\ LayoutInv /\ [Next]_vars => LayoutInv'
  BY LayoutStep
<1>3. LayoutInv => TablesAligned
  BY DEF LayoutInv, Layout, AllAligned, TablesAligned
<1>4. QED
  BY <1>1, <1>2, <1>3, BootIInvariant, PTL DEF Spec
=============================================================================
