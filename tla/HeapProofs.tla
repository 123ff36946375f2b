----------------------------- MODULE HeapProofs -----------------------------
(***************************************************************************)
(* What the heap promises to the boot, for every list of holes: memory it  *)
(* hands out is free and aligned, and stays apart from all other memory    *)
(* through every later allocation and release.                             *)
(***************************************************************************)
EXTENDS Heap, TLAPS, WellFoundedInduction

\* Two pieces of memory do not overlap.
Apart(a, b) == a.at + a.len <= b.at \/ b.at + b.len <= a.at

Piece == [at : Nat, len : Nat \ {0}]

\* The holes are disjoint pieces of the heap from lo to hi.
HolesOK(holes, lo, hi) ==
    /\ holes \subseteq Piece
    /\ \A h \in holes : lo <= h.at /\ h.at + h.len <= hi
    /\ \A g, h \in holes : g = h \/ Apart(g, h)

ApartFromAll(x, holes) == \A h \in holes : Apart(x, h)

\* A nonempty set of natural numbers has a least element.
LEMMA LeastElement ==
    ASSUME NEW S \in SUBSET Nat, S # {}
    PROVE  \E n \in S : \A k \in S : n <= k
<1> DEFINE R == {p \in Nat \X Nat : p[1] < p[2]}
<1>1. IsWellFoundedOn(R, Nat)
  BY NatLessThanWellFounded, Zenon DEF OpToRel
<1> HIDE DEF R
<1>2. PICK n \in S : \A k \in S : ~(<<k, n>> \in R)
  BY <1>1, WFMin
<1>3. ASSUME NEW k \in S PROVE n <= k
  <2>1. n \in Nat /\ k \in Nat /\ <<k, n>> \in Nat \X Nat
    OBVIOUS
  <2>2. k < n => <<k, n>> \in R
    BY <2>1, Zenon DEF R
  <2>3. QED
    BY <1>2, <2>1, <2>2
<1>4. QED
  BY <1>3

\* Rounding up reaches a multiple that is not smaller.
LEMMA AlignUpFacts ==
    ASSUME NEW n \in Nat, NEW a \in Nat \ {0}
    PROVE  AlignUp(n, a) \in Nat /\ AlignUp(n, a) >= n /\ AlignUp(n, a) % a = 0
<1> DEFINE q == (n + a - 1) \div a
<1>1. q \in Nat
  OBVIOUS
<1>2. n + a - 1 < a * (q + 1)
  OBVIOUS
<1> HIDE DEF q
<1>3. q * a \in Nat /\ a * (q + 1) = q * a + a /\ (q * a) % a = 0
  BY <1>1
<1>4. QED
  BY <1>1, <1>2, <1>3 DEF AlignUp, q

\* Where an allocation that fits lies.
LEMMA FitsInside ==
    ASSUME NEW h \in Piece, NEW size \in Nat \ {0}, NEW align \in Nat \ {0},
           Fits(h, size, align)
    PROVE  /\ StartIn(h, align) \in Nat
           /\ h.at <= StartIn(h, align)
           /\ StartIn(h, align) + size <= h.at + h.len
           /\ StartIn(h, align) % align = 0
<1>1. h.at \in Nat /\ h.len \in Nat /\ h.at + MIN_HOLE \in Nat
  BY DEF Piece, MIN_HOLE
<1> DEFINE up == AlignUp(h.at + MIN_HOLE, align)
<1>u. up \in Nat /\ up >= h.at + MIN_HOLE /\ up % align = 0
  BY <1>1, AlignUpFacts
<1> HIDE DEF up
<1>s. StartIn(h, align) = IF h.at % align = 0 THEN h.at ELSE up
  BY DEF StartIn, up
<1>2. StartIn(h, align) \in Nat /\ h.at <= StartIn(h, align) /\ StartIn(h, align) % align = 0
  BY <1>1, <1>u, <1>s DEF MIN_HOLE
<1>3. QED
  BY <1>1, <1>2 DEF Fits, MIN_HOLE

\* The hole taken is the first one in which the piece fits.
LEMMA FirstFitLeast ==
    ASSUME NEW holes, holes \subseteq Piece, NEW size, NEW align,
           Candidates(holes, size, align) # {}
    PROVE  /\ FirstFit(holes, size, align) \in Candidates(holes, size, align)
           /\ \A g \in Candidates(holes, size, align) : FirstFit(holes, size, align).at <= g.at
<1> DEFINE C == Candidates(holes, size, align)
<1>1. C \subseteq Piece
  BY DEF Candidates
<1>2. {h.at : h \in C} \in SUBSET Nat /\ {h.at : h \in C} # {}
  BY <1>1 DEF Piece
<1>3. PICK n \in {h.at : h \in C} : \A k \in {h.at : h \in C} : n <= k
  BY <1>2, LeastElement
<1>4. \E h \in C : \A g \in C : h.at <= g.at
  BY <1>3
<1>5. QED
  BY <1>4 DEF FirstFit

\* The piece is taken from hole h, the first in which it fits.
TakenFrom(holes, h, size, align) ==
    /\ Fits(h, size, align)
    /\ \A g \in holes : Fits(g, size, align) => h.at <= g.at
    /\ LET at == StartIn(h, align)
           rest == {Hole(h.at, at - h.at), Hole(at + size, h.at + h.len - at - size)}
       IN allocate(holes, size, align)
            = [at |-> at, holes |-> (holes \ {h}) \cup {r \in rest : r.len > 0}]

LEMMA AllocateForm ==
    ASSUME NEW holes, holes \subseteq Piece, NEW size, NEW align,
           Candidates(holes, size, align) # {}
    PROVE  \E h \in holes : TakenFrom(holes, h, size, align)
<1> DEFINE h == FirstFit(holes, size, align)
<1>1. h \in Candidates(holes, size, align) /\ \A g \in Candidates(holes, size, align) : h.at <= g.at
  BY FirstFitLeast
<1>2. allocate(holes, size, align)
        = LET at == StartIn(h, align)
              rest == {Hole(h.at, at - h.at), Hole(at + size, h.at + h.len - at - size)}
          IN [at |-> at, holes |-> (holes \ {h}) \cup {r \in rest : r.len > 0}]
  BY Zenon DEF allocate
<1> HIDE DEF h
<1>3. QED
  BY <1>1, <1>2, Zenon DEF Candidates, TakenFrom

\* A hole that is taken from its beginning: whether the piece has room in it, and
\* the holes afterwards.
Room(h, size) == h.len = size \/ size + MIN_HOLE <= h.len
Cut(holes, h, size) == (holes \ {h}) \cup {r \in {Hole(h.at + size, h.len - size)} : r.len > 0}

LEMMA AlignedStart ==
    ASSUME NEW h \in Piece, NEW size \in Nat, NEW align, h.at % align = 0
    PROVE  StartIn(h, align) = h.at /\ (Fits(h, size, align) <=> Room(h, size))
<1>1. StartIn(h, align) = h.at
  BY DEF StartIn
<1>2. h.at \in Nat /\ h.len \in Nat
  BY DEF Piece
<1>3. QED
  BY <1>1, <1>2 DEF Fits, Room, MIN_HOLE

\* The piece is cut off the beginning of h, the first aligned hole with room.
CutFrom(holes, h, size, align) ==
    /\ h.at % align = 0 /\ Room(h, size)
    /\ \A g \in holes : g.at % align = 0 /\ Room(g, size) => h.at <= g.at
    /\ allocate(holes, size, align) = [at |-> h.at, holes |-> Cut(holes, h, size)]

\* So it is if only holes that begin aligned have room.
LEMMA AllocateAligned ==
    ASSUME NEW holes, holes \subseteq Piece, NEW size \in Nat \ {0}, NEW align,
           Candidates(holes, size, align) # {},
           \A h \in holes : Fits(h, size, align) => h.at % align = 0
    PROVE  \E h \in holes : CutFrom(holes, h, size, align)
<1>0. PICK h \in holes : TakenFrom(holes, h, size, align)
  BY AllocateForm
<1>1. /\ Fits(h, size, align)
      /\ \A g \in holes : Fits(g, size, align) => h.at <= g.at
      /\ LET at == StartIn(h, align)
             rest == {Hole(h.at, at - h.at), Hole(at + size, h.at + h.len - at - size)}
         IN allocate(holes, size, align)
              = [at |-> at, holes |-> (holes \ {h}) \cup {r \in rest : r.len > 0}]
  BY <1>0, Zenon DEF TakenFrom
<1>2. h.at % align = 0 /\ h \in Piece
  BY <1>1
<1>3. h.at \in Nat /\ h.len \in Nat /\ StartIn(h, align) = h.at /\ Room(h, size)
  BY <1>1, <1>2, AlignedStart DEF Piece
<1>4. \A g \in holes : g.at % align = 0 /\ Room(g, size) => h.at <= g.at
  BY <1>1, AlignedStart
<1>5. {r \in {Hole(h.at, h.at - h.at), Hole(h.at + size, h.at + h.len - h.at - size)} : r.len > 0}
        = {r \in {Hole(h.at + size, h.len - size)} : r.len > 0}
  BY <1>3 DEF Hole
<1>6. allocate(holes, size, align) = [at |-> h.at, holes |-> Cut(holes, h, size)]
  BY <1>1, <1>3, <1>5, Zenon DEF Cut
<1>7. QED
  BY <1>2, <1>3, <1>4, <1>6 DEF CutFrom

\* A new piece lies in one hole, aligned; what is left of the hole stays free.
LEMMA AllocateFacts ==
    ASSUME NEW holes, NEW lo \in Nat, NEW hi \in Nat, HolesOK(holes, lo, hi),
           NEW size \in Nat \ {0}, NEW align \in Nat \ {0},
           Candidates(holes, size, align) # {}
    PROVE  LET a == allocate(holes, size, align)
               new == Hole(a.at, size)
           IN /\ a.at \in Nat /\ lo <= a.at /\ a.at + size <= hi
              /\ a.at % align = 0
              /\ HolesOK(a.holes, lo, hi)
              /\ ApartFromAll(new, a.holes)
              /\ \A x \in Piece : ApartFromAll(x, holes)
                     => Apart(x, new) /\ ApartFromAll(x, a.holes)
<1> DEFINE h == FirstFit(holes, size, align)
           at == StartIn(h, align)
           front == Hole(h.at, at - h.at)
           back == Hole(at + size, h.at + h.len - at - size)
           left == {r \in {front, back} : r.len > 0}
           rest == (holes \ {h}) \cup left
<1>1. h \in Candidates(holes, size, align)
  BY FirstFitLeast DEF HolesOK
<1>2. h \in holes /\ Fits(h, size, align) /\ h \in Piece /\ lo <= h.at /\ h.at + h.len <= hi
  BY <1>1 DEF Candidates, HolesOK
<1>3. at \in Nat /\ h.at <= at /\ at + size <= h.at + h.len /\ at % align = 0
  BY <1>2, FitsInside
<1>4. allocate(holes, size, align) = [at |-> at, holes |-> rest]
  BY DEF allocate
<1>h. h.at \in Nat /\ h.len \in Nat
  BY <1>2 DEF Piece
<1> HIDE DEF h, at
<1>5. \A r \in left : r \in Piece /\ h.at <= r.at /\ r.at + r.len <= h.at + h.len
                       /\ Apart(Hole(at, size), r)
  BY <1>3, <1>h DEF Hole, Piece, Apart
<1>6. \A r, s \in left : r = s \/ Apart(r, s)
  BY <1>3, <1>h DEF Hole, Apart
<1>7. \A g \in holes \ {h} : g \in Piece /\ Apart(g, h) /\ lo <= g.at /\ g.at + g.len <= hi
  BY <1>2 DEF HolesOK
<1>8. ASSUME NEW x \in Piece, Apart(x, h)
      PROVE  Apart(x, Hole(at, size)) /\ \A r \in left : Apart(x, r) /\ Apart(r, x)
  <2>1. x.at \in Nat /\ x.len \in Nat
    BY DEF Piece
  <2>2. Apart(x, Hole(at, size))
    BY <1>3, <1>h, <1>8, <2>1 DEF Apart, Hole
  <2>3. ASSUME NEW r \in left PROVE Apart(x, r) /\ Apart(r, x)
    <3>1. r.at \in Nat /\ r.len \in Nat /\ h.at <= r.at /\ r.at + r.len <= h.at + h.len
      BY <1>5 DEF Piece
    <3>2. QED
      BY <1>8, <1>h, <2>1, <3>1 DEF Apart
  <2>4. QED
    BY <2>2, <2>3
<1>9. HolesOK(rest, lo, hi)
  <2>1. rest \subseteq Piece
    BY <1>5, <1>7
  <2>2. \A g \in rest : lo <= g.at /\ g.at + g.len <= hi
    <3>1. ASSUME NEW r \in left PROVE lo <= r.at /\ r.at + r.len <= hi
      <4>1. r.at \in Nat /\ r.len \in Nat /\ h.at <= r.at /\ r.at + r.len <= h.at + h.len
        BY <1>5 DEF Piece
      <4>2. QED
        BY <1>2, <1>h, <4>1
    <3>2. QED
      BY <1>7, <3>1
  <2>3. \A g, k \in rest : g = k \/ Apart(g, k)
    BY <1>6, <1>7, <1>8 DEF HolesOK
  <2>4. QED
    BY <2>1, <2>2, <2>3 DEF HolesOK
<1>10. ApartFromAll(Hole(at, size), rest)
  <2>1. ASSUME NEW g \in holes \ {h} PROVE Apart(Hole(at, size), g)
    BY <1>7, <1>8 DEF Apart
  <2>2. QED
    BY <1>5, <2>1 DEF ApartFromAll
<1>11. ASSUME NEW x \in Piece, ApartFromAll(x, holes)
       PROVE  Apart(x, Hole(at, size)) /\ ApartFromAll(x, rest)
  BY <1>2, <1>8, <1>11 DEF ApartFromAll
<1>12. lo <= at /\ at + size <= hi
  BY <1>2, <1>3, <1>h
<1> HIDE DEF rest
<1>13. QED
  BY <1>3, <1>4, <1>9, <1>10, <1>11, <1>12

\* The hole a freed piece becomes part of begins and ends with the piece, or with
\* the holes next to it.
JoinsNeighbours(holes, at, size) ==
    \E from, to \in Nat :
       /\ deallocate(holes, at, size)
             = (holes \ {h \in holes : h.at + h.len = at \/ h.at = at + size})
                  \cup {Hole(from, to - from)}
       /\ from = at \/ \E h \in holes : from = h.at /\ h.at + h.len = at
       /\ \A h \in holes : h.at + h.len = at => from = h.at
       /\ to = at + size \/ \E h \in holes : to = h.at + h.len /\ h.at = at + size
       /\ \A h \in holes : h.at = at + size => to = h.at + h.len

LEMMA DeallocateForm ==
    ASSUME NEW holes, NEW lo \in Nat, NEW hi \in Nat, HolesOK(holes, lo, hi),
           NEW at \in Nat, NEW size \in Nat \ {0}
    PROVE  JoinsNeighbours(holes, at, size)
<1> DEFINE near == {h \in holes : h.at + h.len = at \/ h.at = at + size}
           S == {at} \cup {h.at : h \in near}
           T == {at + size} \cup {h.at + h.len : h \in near}
           from == Min(S)
           to == Max(T)
<1>0. \A h \in holes : h.at \in Nat /\ h.len \in Nat /\ h.len > 0
                        /\ lo <= h.at /\ h.at + h.len <= hi
  BY DEF HolesOK, Piece
<1>1. \A g, h \in holes : g.at + g.len = h.at + h.len \/ g.at = h.at => g = h
  <2>1. SUFFICES ASSUME NEW g \in holes, NEW h \in holes, g # h,
                        g.at + g.len = h.at + h.len \/ g.at = h.at
                 PROVE  FALSE
    OBVIOUS
  <2>2. Apart(g, h)
    BY <2>1 DEF HolesOK
  <2>3. QED
    BY <1>0, <2>1, <2>2 DEF Apart
\* The lower end: the piece's own, or that of the hole in front of it.
<1>2. /\ from \in Nat
      /\ from = at \/ \E h \in holes : from = h.at /\ h.at + h.len = at
      /\ \A h \in holes : h.at + h.len = at => from = h.at
  <2>1. CASE \E l \in holes : l.at + l.len = at
    <3>1. PICK l \in holes : l.at + l.len = at
      BY <2>1
    <3>2. \A n \in S : l.at <= n
      BY <1>0, <1>1, <3>1
    <3>3. l.at \in S /\ S \subseteq Nat
      BY <1>0, <3>1
    <3>4. from \in S /\ \A n \in S : from <= n
      BY <3>2, <3>3 DEF Min
    <3>5. from = l.at
      <4>1. from \in Nat /\ l.at \in Nat /\ from <= l.at /\ l.at <= from
        BY <3>2, <3>3, <3>4
      <4>2. QED
        BY <4>1
    <3>6. \A h \in holes : h.at + h.len = at => h = l
      BY <1>1, <3>1
    <3>7. from \in Nat /\ l.at \in Nat
      BY <1>0, <3>5
    <3>8. QED
      BY <3>1, <3>5, <3>6, <3>7
  <2>2. CASE ~\E l \in holes : l.at + l.len = at
    <3>1. \A n \in S : at <= n
      BY <1>0, <2>2
    <3>2. at \in S /\ S \subseteq Nat
      BY <1>0
    <3>3. from \in S /\ \A n \in S : from <= n
      BY <3>1, <3>2 DEF Min
    <3>4. QED
      BY <2>2, <3>1, <3>2, <3>3
  <2>3. QED
    BY <2>1, <2>2
<1>3. /\ to \in Nat
      /\ to = at + size \/ \E h \in holes : to = h.at + h.len /\ h.at = at + size
      /\ \A h \in holes : h.at = at + size => to = h.at + h.len
  <2>1. CASE \E r \in holes : r.at = at + size
    <3>1. PICK r \in holes : r.at = at + size
      BY <2>1
    <3>2. \A n \in T : n <= r.at + r.len
      BY <1>0, <1>1, <3>1
    <3>3. r.at + r.len \in T /\ T \subseteq Nat
      BY <1>0, <3>1
    <3>4. to \in T /\ \A n \in T : to >= n
      BY <3>2, <3>3 DEF Max
    <3>5. to = r.at + r.len
      BY <3>2, <3>3, <3>4
    <3>6. \A h \in holes : h.at = at + size => h = r
      BY <1>1, <3>1
    <3>7. to \in Nat
      BY <1>0, <3>5
    <3> HIDE DEF to
    <3>8. QED
      BY <3>1, <3>5, <3>6, <3>7
  <2>2. CASE ~\E r \in holes : r.at = at + size
    <3>1. \A n \in T : n <= at + size
      BY <1>0, <2>2
    <3>2. at + size \in T /\ T \subseteq Nat
      BY <1>0
    <3>3. to \in T /\ \A n \in T : to >= n
      BY <3>1, <3>2 DEF Max
    <3>4. QED
      BY <2>2, <3>1, <3>2, <3>3
  <2>3. QED
    BY <2>1, <2>2
<1>4. deallocate(holes, at, size) = (holes \ near) \cup {Hole(from, to - from)}
  BY DEF deallocate
<1> HIDE DEF from, to
<1>5. QED
  BY <1>2, <1>3, <1>4, Zenon DEF JoinsNeighbours

\* A piece that is freed becomes part of one hole, with its neighbours.
LEMMA DeallocateFacts ==
    ASSUME NEW holes, NEW lo \in Nat, NEW hi \in Nat, HolesOK(holes, lo, hi),
           NEW at \in Nat, NEW size \in Nat \ {0}, lo <= at, at + size <= hi,
           ApartFromAll(Hole(at, size), holes)
    PROVE  /\ HolesOK(deallocate(holes, at, size), lo, hi)
           /\ \A x \in Piece :
                 Apart(x, Hole(at, size)) /\ ApartFromAll(x, holes)
                    => ApartFromAll(x, deallocate(holes, at, size))
<1> DEFINE near == {h \in holes : h.at + h.len = at \/ h.at = at + size}
<1>0. \A h \in holes : h.at \in Nat /\ h.len \in Nat /\ h.len > 0
                        /\ lo <= h.at /\ h.at + h.len <= hi
  BY DEF HolesOK, Piece
<1>1. PICK from \in Nat, to \in Nat :
            /\ deallocate(holes, at, size) = (holes \ near) \cup {Hole(from, to - from)}
            /\ from = at \/ \E h \in holes : from = h.at /\ h.at + h.len = at
            /\ to = at + size \/ \E h \in holes : to = h.at + h.len /\ h.at = at + size
  BY DeallocateForm DEF JoinsNeighbours
<1>2. from = at \/ \E h \in near : from = h.at /\ h.at + h.len = at
  BY <1>1
<1>3. to = at + size \/ \E h \in near : to = h.at + h.len /\ h.at = at + size
  BY <1>1
<1>4. deallocate(holes, at, size) = (holes \ near) \cup {Hole(from, to - from)}
  BY <1>1
<1>5. from \in Nat /\ to \in Nat /\ from <= at /\ at + size <= to /\ lo <= from /\ to <= hi
  BY <1>0, <1>2, <1>3
<1>6. ASSUME NEW x \in Piece, Apart(x, Hole(at, size)), ApartFromAll(x, near)
      PROVE  Apart(x, Hole(from, to - from)) /\ Apart(Hole(from, to - from), x)
  <2>1. x.at \in Nat /\ x.len \in Nat /\ x.len > 0
    BY DEF Piece
  <2>2. CASE x.at + x.len <= at
    <3>1. x.at + x.len <= from
      BY <1>0, <1>2, <1>6, <2>1, <2>2 DEF ApartFromAll, Apart
    <3>2. QED
      BY <1>5, <2>1, <3>1 DEF Apart, Hole
  <2>3. CASE at + size <= x.at
    <3>1. to <= x.at
      BY <1>0, <1>3, <1>6, <2>1, <2>3 DEF ApartFromAll, Apart
    <3>2. QED
      BY <1>5, <2>1, <3>1 DEF Apart, Hole
  <2>4. QED
    BY <1>6, <2>2, <2>3 DEF Apart, Hole
<1>7. ASSUME NEW g \in holes \ near
      PROVE  Apart(g, Hole(from, to - from)) /\ Apart(Hole(from, to - from), g)
  <2>1. g \in Piece /\ ApartFromAll(g, near) /\ Apart(g, Hole(at, size))
    BY DEF HolesOK, ApartFromAll, Apart
  <2>2. QED
    BY <1>6, <2>1
<1>8. Hole(from, to - from) \in Piece
  BY <1>5 DEF Hole, Piece
<1>9. HolesOK((holes \ near) \cup {Hole(from, to - from)}, lo, hi)
  BY <1>5, <1>7, <1>8 DEF HolesOK, Hole
<1>10. ASSUME NEW x \in Piece, Apart(x, Hole(at, size)), ApartFromAll(x, holes)
       PROVE  ApartFromAll(x, (holes \ near) \cup {Hole(from, to - from)})
  BY <1>6, <1>10 DEF ApartFromAll
<1>11. QED
  BY <1>4, <1>9, <1>10
=============================================================================
