--------------------------- MODULE ZicfissProofs ---------------------------
(***************************************************************************)
(* The walks that the emulation makes find a page of a shadow stack exactly *)
(* where the kernel keeps it; from that, when the kernel keeps in memory    *)
(* what a push may need, the emulation gives each thread a stack of its     *)
(* own, for every page size, number of threads and set of page tables.      *)
(***************************************************************************)
EXTENDS ZicfissGuest, TLAPS

H == INSTANCE HeapProofs

----------------------------------------------------------------------------
(* Words and pages                                                         *)

LEMMA DivMod ==
    ASSUME NEW a \in Nat, NEW b \in Nat \ {0}
    PROVE  /\ a \div b \in Nat /\ a % b \in 0..(b - 1)
           /\ a = b * (a \div b) + (a % b)
OBVIOUS

LEMMA Sizes ==
    /\ PAGE_TABLE_LEN \in Nat \ {0} /\ PAGE_WORDS \in Nat \ {0}
    /\ Span(0) = 1 /\ \A l \in 0..5 : Span(l) \in Nat \ {0}
    /\ WORDS \in Nat \ {0}
<1> DEFINE L == PAGE_TABLE_LEN
<1>1. L \in Nat \ {0} /\ PAGE_WORDS \in Nat \ {0}
  BY ZicfissAssumption
<1>2. /\ Span(0) = 1 /\ Span(1) = L /\ Span(2) = L * L /\ Span(3) = L * L * L
      /\ Span(4) = L * L * L * L /\ Span(5) = L * L * L * L * L
  BY DEF Span
<1> HIDE DEF L
<1>3. \A a, b \in Nat \ {0} : a * b \in Nat \ {0}
  OBVIOUS
<1>4. L * L \in Nat \ {0} /\ L * L * L \in Nat \ {0} /\ L * L * L * L \in Nat \ {0}
      /\ L * L * L * L * L \in Nat \ {0}
  BY <1>1, <1>3, Zenon
<1>5. \A l \in 0..5 : Span(l) \in Nat \ {0}
  <2>1. \A l \in 0..5 : l = 0 \/ l = 1 \/ l = 2 \/ l = 3 \/ l = 4 \/ l = 5
    OBVIOUS
  <2>2. 1 \in Nat \ {0}
    OBVIOUS
  <2>3. QED
    BY <1>1, <1>2, <1>4, <2>1, <2>2, Zenon
<1>6. Span(5) \in Nat \ {0}
  BY <1>2, <1>4
<1>7. WORDS \in Nat \ {0}
  BY <1>1, <1>3, <1>6, Zenon DEF WORDS
<1>8. QED
  BY <1>1, <1>2, <1>5, <1>7 DEF L

LEMMA VpnRange ==
    ASSUME NEW page \in Nat, NEW l \in 0..4
    PROVE  vpn(page, l) \in 0..(PAGE_TABLE_LEN - 1)
<1>1. Span(l) \in Nat \ {0} /\ PAGE_TABLE_LEN \in Nat \ {0}
  BY Sizes
<1>2. page \div Span(l) \in Nat
  BY <1>1, DivMod, Zenon
<1>3. QED
  BY <1>1, <1>2, DivMod, Zenon DEF vpn

\* A word is given by its page and its offset.
LEMMA WordFacts ==
    ASSUME NEW s \in Nat
    PROVE  /\ PageOf(s) \in Nat /\ Offset(s) \in 0..(PAGE_WORDS - 1)
           /\ s = PAGE_WORDS * PageOf(s) + Offset(s)
BY Sizes, DivMod, Zenon DEF PageOf, Offset

LEMMA SameWord ==
    ASSUME NEW s \in Nat, NEW x \in Nat, PageOf(s) = PageOf(x), Offset(s) = Offset(x)
    PROVE  s = x
BY WordFacts, Zenon

\* The page of a word starts there or below, and no other page starts there.
LEMMA PageStarts ==
    ASSUME NEW s \in Nat
    PROVE  /\ PageOf(s) * PAGE_WORDS \in Int /\ PageOf(s) * PAGE_WORDS <= s
           /\ \A p \in Nat : p * PAGE_WORDS < s + 1 => p * PAGE_WORDS < s \/ p = PageOf(s)
<1> DEFINE a == PageOf(s)  o == Offset(s)  w == PAGE_WORDS
<1>1. a \in Nat /\ o \in 0..(w - 1) /\ s = w * a + o /\ w \in Nat \ {0} /\ a = s \div w
  BY WordFacts, Sizes DEF PageOf
<1> HIDE DEF a, o, w
<1>2. w * a = a * w /\ a * w \in Nat
  BY <1>1
<1>3. a * w <= s /\ a * w \in Int
  BY <1>1, <1>2
<1>4. ASSUME NEW p \in Nat, p * w < s + 1, ~(p * w < s) PROVE p = a
  <2>1. p * w \in Nat /\ p * w = s
    BY <1>1, <1>4
  <2>2. (p * w) \div w = p
    BY <1>1
  <2>3. QED
    BY <1>1, <2>1, <2>2
<1>5. QED
  BY <1>3, <1>4 DEF a, w

LEMMA Moves ==
    ASSUME NEW s \in Nat, s < WORDS
    PROVE  /\ Down(s) \in 0..(WORDS - 1) /\ Up(s) \in 0..(WORDS - 1)
           /\ s > 0 => Down(s) = s - 1
           /\ s + 1 < WORDS => Up(s) = s + 1
<1> DEFINE W == WORDS
<1>1. W \in Nat \ {0} /\ Down(s) = (s + W - 1) % W /\ Up(s) = (s + 1) % W /\ s < W
  BY Sizes DEF Down, Up
<1> HIDE DEF W
<1>2. \A a \in Nat : a % W \in 0..(W - 1)
  BY <1>1
<1>3. s + W - 1 \in Nat /\ s + 1 \in Nat
  BY <1>1
<1>4. s > 0 => (s + W - 1) % W = s - 1
  <2>1. ASSUME NEW a \in 0..(W - 1) PROVE (a + W) % W = a
    BY <1>1, <2>1
  <2>2. ASSUME s > 0 PROVE (s + W - 1) % W = s - 1
    <3>1. s - 1 \in 0..(W - 1) /\ s + W - 1 = (s - 1) + W
      BY <1>1, <2>2
    <3>2. QED
      BY <2>1, <3>1
  <2>3. QED
    BY <2>2
<1>5. s + 1 < W => (s + 1) % W = s + 1
  BY <1>1
<1>6. QED
  BY <1>1, <1>2, <1>3, <1>4, <1>5 DEF W

----------------------------------------------------------------------------
(* Walks                                                                   *)

LEMMA LevelsFacts ==
    ASSUME NEW mode
    PROVE  /\ Levels(mode) \in 3..5 /\ Levels("Sv39") = 3 /\ Levels("Sv48") = 4
           /\ Levels("Sv57") = 5
BY DEF Levels

\* What a walk reads at each level, and where it goes from there.
LEMMA WalkSteps ==
    ASSUME NEW p, NEW mode, NEW page
    PROVE  LET w == Walk(p, mode, page) IN
           /\ w[4].table = ROOT
           /\ \A l \in 0..3 :
                 w[l].table = IF l + 1 < Levels(mode) THEN w[l + 1].entry.ppn ELSE ROOT
           /\ \A l \in 0..4 : w[l].entry = p[w[l].table][vpn(page, l)]
<1> DEFINE w == Walk(p, mode, page)
           below(t, level) == IF level < Levels(mode) THEN p[t][vpn(page, level)].ppn ELSE ROOT
           t3 == below(ROOT, 4)
           t2 == below(t3, 3)
           t1 == below(t2, 2)
           t0 == below(t1, 1)
           table(l) == CASE l = 4 -> ROOT [] l = 3 -> t3 [] l = 2 -> t2 [] l = 1 -> t1 [] l = 0 -> t0
<1>a. w = [l \in 0..4 |-> [table |-> table(l), entry |-> p[table(l)][vpn(page, l)]]]
  BY DEF Walk
<1>b. /\ table(4) = ROOT /\ table(3) = below(table(4), 4) /\ table(2) = below(table(3), 3)
      /\ table(1) = below(table(2), 2) /\ table(0) = below(table(1), 1)
  <2> HIDE DEF below
  <2>1. table(4) = ROOT /\ table(3) = t3 /\ table(2) = t2 /\ table(1) = t1 /\ table(0) = t0
    <3> HIDE DEF t3, t2, t1, t0
    <3> QED OBVIOUS
  <2>2. QED
    BY <2>1, Zenon
<1> HIDE DEF table
<1>2. \A l \in 0..4 : w[l].table = table(l) /\ w[l].entry = p[w[l].table][vpn(page, l)]
  BY <1>a
<1> HIDE DEF w
<1>1. /\ w[4].table = ROOT
      /\ w[3].table = IF 4 < Levels(mode) THEN w[4].entry.ppn ELSE ROOT
      /\ w[2].table = IF 3 < Levels(mode) THEN w[3].entry.ppn ELSE ROOT
      /\ w[1].table = IF 2 < Levels(mode) THEN w[2].entry.ppn ELSE ROOT
      /\ w[0].table = IF 1 < Levels(mode) THEN w[1].entry.ppn ELSE ROOT
  BY <1>2, <1>b
<1>3. \A l \in 0..3 : w[l].table = IF l + 1 < Levels(mode) THEN w[l + 1].entry.ppn ELSE ROOT
  <2>1. \A l \in 0..3 : l = 0 \/ l = 1 \/ l = 2 \/ l = 3
    OBVIOUS
  <2>2. QED
    BY <1>1, <2>1
<1>4. QED
  BY <1>1, <1>2, <1>3 DEF w

\* Page tables in which every entry leads into the guest's memory.
TypedTables ==
    [Memory -> [0..(PAGE_TABLE_LEN - 1) -> [ppn : Memory, flags : SUBSET Flags]]]

LEMMA WalkInMemory ==
    ASSUME NEW p \in TypedTables, NEW mode, NEW page \in Nat
    PROVE  \A l \in 0..4 : Walk(p, mode, page)[l].table \in Memory
<1> DEFINE w == Walk(p, mode, page)
<1>1. \A l \in 0..3 : w[l].table = IF l + 1 < Levels(mode) THEN w[l + 1].entry.ppn ELSE ROOT
  BY WalkSteps
<1>2. w[4].table = ROOT /\ \A l \in 0..4 : w[l].entry = p[w[l].table][vpn(page, l)]
  BY WalkSteps
<1>3. ROOT \in Memory
  BY ZicfissAssumption DEF Memory
<1> HIDE DEF w
<1>4. ASSUME NEW l \in 0..3, w[l + 1].table \in Memory PROVE w[l].table \in Memory
  <2>1. vpn(page, l + 1) \in 0..(PAGE_TABLE_LEN - 1) /\ l + 1 \in 0..4
    <3>1. l + 1 \in 0..4
      OBVIOUS
    <3>2. QED
      BY <3>1, VpnRange
  <2>2. w[l + 1].entry.ppn \in Memory
    <3> DEFINE t == w[l + 1].table  i == vpn(page, l + 1)
    <3>1. t \in Memory /\ i \in 0..(PAGE_TABLE_LEN - 1) /\ w[l + 1].entry = p[t][i]
      BY <1>2, <1>4, <2>1
    <3> HIDE DEF t, i
    <3>2. p[t][i] \in [ppn : Memory, flags : SUBSET Flags]
      BY <3>1 DEF TypedTables
    <3>3. QED
      BY <3>1, <3>2
  <2>3. QED
    BY <1>1, <1>3, <2>2
<1>5. w[3].table \in Memory
  BY <1>2, <1>3, <1>4
<1>6. w[2].table \in Memory
  BY <1>4, <1>5
<1>7. w[1].table \in Memory
  BY <1>4, <1>6
<1>8. w[0].table \in Memory
  BY <1>4, <1>7
<1>9. QED
  <2>1. \A l \in 0..4 : l = 0 \/ l = 1 \/ l = 2 \/ l = 3 \/ l = 4
    OBVIOUS
  <2>2. QED
    BY <1>2, <1>3, <1>5, <1>6, <1>7, <1>8, <2>1 DEF w

\* Tables q that agree with p but for table x, which a walk meets only last.
Agree(p, q, mode, page, x) ==
    LET v == Walk(p, mode, page) IN
    /\ \A l \in 1..4 : v[l].table # x
    /\ \A l \in 0..4 : v[l].table # x => q[v[l].table] = p[v[l].table]
SameAbove(p, q, mode, page, x) ==
    LET v == Walk(p, mode, page)
        w == Walk(q, mode, page) IN
    /\ \A l \in 0..4 : w[l].table = v[l].table
    /\ \A l \in 1..4 : w[l].entry = v[l].entry
    /\ v[0].table # x => w[0].entry = v[0].entry
    /\ w[0].entry = q[v[0].table][vpn(page, 0)]

LEMMA WalkUnchanged ==
    ASSUME NEW p, NEW q, NEW mode, NEW page, NEW x, Agree(p, q, mode, page, x)
    PROVE  SameAbove(p, q, mode, page, x)
<1> DEFINE v == Walk(p, mode, page)
           w == Walk(q, mode, page)
<1>1. /\ \A l \in 0..3 : v[l].table = IF l + 1 < Levels(mode) THEN v[l + 1].entry.ppn ELSE ROOT
      /\ v[4].table = ROOT /\ \A l \in 0..4 : v[l].entry = p[v[l].table][vpn(page, l)]
  BY WalkSteps
<1>2. /\ \A l \in 0..3 : w[l].table = IF l + 1 < Levels(mode) THEN w[l + 1].entry.ppn ELSE ROOT
      /\ w[4].table = ROOT /\ \A l \in 0..4 : w[l].entry = q[w[l].table][vpn(page, l)]
  BY WalkSteps
<1>a. \A l \in 0..4 : v[l].table # x => q[v[l].table] = p[v[l].table]
  BY Zenon DEF Agree
<1>b. \A l \in 1..4 : v[l].table # x
  BY Zenon DEF Agree
<1>3. \A l \in 1..4 : v[l].table # x /\ q[v[l].table] = p[v[l].table]
  BY <1>a, <1>b
<1>4. v[0].table # x => q[v[0].table] = p[v[0].table]
  BY <1>a
<1> HIDE DEF v, w
<1>5. ASSUME NEW l \in 1..4, w[l].table = v[l].table PROVE w[l].entry = v[l].entry
  <2>1. l \in 0..4
    OBVIOUS
  <2>2. w[l].entry = q[v[l].table][vpn(page, l)] /\ v[l].entry = p[v[l].table][vpn(page, l)]
    BY <1>1, <1>2, <1>5, <2>1
  <2>3. QED
    BY <1>3, <2>2
<1>6. ASSUME NEW l \in 0..3, w[l + 1].table = v[l + 1].table PROVE w[l].table = v[l].table
  <2>1. w[l + 1].entry = v[l + 1].entry
    BY <1>5, <1>6
  <2>2. QED
    BY <1>1, <1>2, <2>1
<1>7. w[4].table = v[4].table /\ w[3].table = v[3].table
  BY <1>1, <1>2, <1>6
<1>8. w[2].table = v[2].table
  BY <1>6, <1>7
<1>9. w[1].table = v[1].table
  BY <1>6, <1>8
<1>10. w[0].table = v[0].table
  BY <1>6, <1>9
<1>11. \A l \in 0..4 : w[l].table = v[l].table
  <2>1. \A l \in 0..4 : l = 0 \/ l = 1 \/ l = 2 \/ l = 3 \/ l = 4
    OBVIOUS
  <2>2. QED
    BY <1>7, <1>8, <1>9, <1>10, <2>1
<1>12. w[0].entry = q[v[0].table][vpn(page, 0)] /\ v[0].entry = p[v[0].table][vpn(page, 0)]
  BY <1>1, <1>2, <1>10
<1>13. v[0].table # x => w[0].entry = v[0].entry
  BY <1>4, <1>12
<1>14. QED
  BY <1>5, <1>11, <1>12, <1>13 DEF SameAbove, v, w

\* The walk of a page that is there, in a page or superpage of the level given.
Found(mode, page, walk, level, f) ==
    /\ level \in 0..(Levels(mode) - 1)
    /\ \A k \in (level + 1)..(Levels(mode) - 1) : IsPointer(walk[k].entry)
    /\ IsStackPage(walk[level].entry) /\ walk[level].entry.ppn % Span(level) = 0
    /\ f = walk[level].entry.ppn + (page % Span(level))

\* The walk of a page that is not.
Lost(mode, walk) ==
    /\ \A l \in 0..(Levels(mode) - 1) : ~is_leaf(walk[l].entry)
    /\ \E l \in 0..(Levels(mode) - 1) : ~already_created(walk[l].entry)

LEMMA EntryKinds ==
    ASSUME NEW e
    PROVE  /\ IsPointer(e) => already_created(e) /\ ~is_leaf(e)
           /\ IsStackPage(e) => is_leaf(e) /\ e.flags \cap {"R", "W", "X"} # {}
           /\ ~is_leaf(e) => e.flags \cap {"R", "W", "X"} = {}
BY DEF IsPointer, IsStackPage, is_leaf, already_created

LEMMA MaxIs ==
    ASSUME NEW S, NEW n \in S, S \subseteq Int, \A x \in S : x <= n
    PROVE  Max(S) = n
<1>1. \E x \in S : \A y \in S : x >= y
  OBVIOUS
<1>2. Max(S) \in S /\ \A y \in S : Max(S) >= y
  BY <1>1 DEF Max
<1>3. Max(S) <= n /\ Max(S) >= n /\ Max(S) \in Int /\ n \in Int
  BY <1>2
<1>4. QED
  BY <1>3

\* Both walks end where the kernel put the page ...
LEMMA WalksFind ==
    ASSUME NEW mode \in {"Sv39", "Sv48", "Sv57"}, NEW page, NEW walk, NEW level, NEW f,
           Found(mode, page, walk, level, f)
    PROVE  /\ hw_walk(mode, page, walk) = f
           /\ mode # "Sv48" => vs_stage_trans_addr(mode, page, walk) = f
<1> DEFINE ends == {l \in 0..(Levels(mode) - 1) :
                       \/ ~already_created(walk[l].entry)
                       \/ walk[l].entry.flags \cap {"R", "W", "X"} # {}}
           leaves == Leaves(mode, walk)
<1>0. Levels(mode) \in Nat /\ level \in 0..(Levels(mode) - 1) /\ level \in Int
  BY LevelsFacts DEF Found
<1>1. level \in ends /\ level \in leaves
  BY <1>0, EntryKinds DEF Found, Leaves
<1>2. \A l \in ends \cup leaves : l <= level
  <2>1. ASSUME NEW l \in ends \cup leaves, ~(l <= level) PROVE FALSE
    <3>1. l \in (level + 1)..(Levels(mode) - 1)
      BY <1>0, <2>1 DEF Leaves
    <3>2. IsPointer(walk[l].entry)
      BY <3>1 DEF Found
    <3>3. QED
      BY <2>1, <3>2, EntryKinds DEF IsPointer, Leaves
  <2>2. QED
    BY <2>1
<1>3. ends \subseteq Int /\ leaves \subseteq Int
  BY <1>0 DEF Leaves
<1>4. Max(ends) = level /\ Max(leaves) = level
  BY <1>1, <1>2, <1>3, MaxIs
<1>5. IsStackPage(walk[level].entry) /\ walk[level].entry.ppn % Span(level) = 0
      /\ f = walk[level].entry.ppn + (page % Span(level))
  BY DEF Found
<1>6. hw_walk(mode, page, walk) = f
  <2>1. hw_walk(mode, page, walk) =
          LET e == walk[Max(ends)].entry IN
          IF /\ mode # "Bare" /\ ends # {}
             /\ {"V", "W", "U"} \subseteq e.flags /\ e.flags \cap {"R", "X"} = {}
             /\ e.ppn % Span(Max(ends)) = 0
          THEN e.ppn + (page % Span(Max(ends))) ELSE Fault
    BY DEF hw_walk
  <2> HIDE DEF ends
  <2>2. ends # {} /\ mode # "Bare"
    BY <1>1
  <2>3. QED
    BY <1>4, <1>5, <2>1, <2>2 DEF IsStackPage
<1>7. ASSUME mode # "Sv48" PROVE vs_stage_trans_addr(mode, page, walk) = f
  <2> HIDE DEF ends
  <2>1. leaf_addr(page, level, walk[level].entry.ppn) = f
    BY <1>5 DEF leaf_addr
  <2>2. leaves # {}
    BY <1>1
  <2>3. CASE mode = "Sv39"
    BY <1>4, <2>1, <2>2, <2>3 DEF vs_stage_trans_addr, sv39_trans_addr
  <2>4. CASE mode = "Sv57"
    BY <1>4, <2>1, <2>2, <2>4 DEF vs_stage_trans_addr, sv57_trans_addr
  <2>5. QED
    BY <1>7, <2>3, <2>4
<1>8. QED
  BY <1>6, <1>7

\* ... and find nothing where it put none.
LEMMA WalksMiss ==
    ASSUME NEW mode \in {"Sv39", "Sv48", "Sv57"}, NEW page, NEW walk, Lost(mode, walk)
    PROVE  /\ hw_walk(mode, page, walk) = Fault
           /\ vs_stage_trans_addr(mode, page, walk) =
                 IF mode = "Sv57" /\ \A l \in 0..4 : walk[l].table \in Tables THEN Fault ELSE Stop
<1> DEFINE ends == {l \in 0..(Levels(mode) - 1) :
                       \/ ~already_created(walk[l].entry)
                       \/ walk[l].entry.flags \cap {"R", "W", "X"} # {}}
<1>1. Leaves(mode, walk) = {}
  BY DEF Lost, Leaves
<1>2. \A l \in ends : ~already_created(walk[l].entry)
  BY EntryKinds DEF Lost
<1>3. hw_walk(mode, page, walk) = Fault
  <2>1. hw_walk(mode, page, walk) =
          LET e == walk[Max(ends)].entry IN
          IF /\ mode # "Bare" /\ ends # {}
             /\ {"V", "W", "U"} \subseteq e.flags /\ e.flags \cap {"R", "X"} = {}
             /\ e.ppn % Span(Max(ends)) = 0
          THEN e.ppn + (page % Span(Max(ends))) ELSE Fault
    BY DEF hw_walk
  <2>2. ends \in SUBSET (0..(Levels(mode) - 1)) /\ Levels(mode) \in 3..5
    BY LevelsFacts
  <2>3. ends # {} => Max(ends) \in ends
    <3>1. SUFFICES ASSUME ends # {} PROVE \E x \in ends : \A y \in ends : x >= y
      BY DEF Max
    <3>2. \A l \in ends : l \in 0..4
      BY <2>2
    <3> HIDE DEF ends
    <3>3. CASE 4 \in ends
      BY <3>2, <3>3
    <3>4. CASE 4 \notin ends /\ 3 \in ends
      BY <3>2, <3>4
    <3>5. CASE 4 \notin ends /\ 3 \notin ends /\ 2 \in ends
      BY <3>2, <3>5
    <3>6. CASE 4 \notin ends /\ 3 \notin ends /\ 2 \notin ends /\ 1 \in ends
      BY <3>2, <3>6
    <3>7. CASE 4 \notin ends /\ 3 \notin ends /\ 2 \notin ends /\ 1 \notin ends
      BY <3>1, <3>2, <3>7
    <3>8. QED
      BY <3>3, <3>4, <3>5, <3>6, <3>7
  <2> HIDE DEF ends
  <2>4. QED
    BY <1>2, <2>1, <2>3 DEF already_created
<1>4. vs_stage_trans_addr(mode, page, walk) =
         IF mode = "Sv57" /\ \A l \in 0..4 : walk[l].table \in Tables THEN Fault ELSE Stop
  BY <1>1 DEF vs_stage_trans_addr, sv39_trans_addr, sv57_trans_addr
<1>5. QED
  BY <1>3, <1>4
----------------------------------------------------------------------------
(* Where the kernel keeps its pages                                        *)

\* A page of a shadow stack is under a table of its own level, which points
\* to its frame or holds a swap entry, or it is in a superpage, or missing.
Placed(a) ==
    LET w == WalkTo(a) IN
    /\ \A l \in 0..4 : w[l].table \in Memory
    /\ \/ /\ \A l \in 0..4 : w[l].table \in Tables
          /\ \A l \in 1..(Levels(vsatp) - 1) : IsPointer(w[l].entry)
          /\ IF Resident(a) THEN IsStackPage(w[0].entry) /\ w[0].entry.ppn = frame[a]
             ELSE w[0].entry = SwapEntry
       \/ /\ ~Movable(a) /\ Resident(a)
          /\ \E l \in 1..(Levels(vsatp) - 1) : Found(vsatp, a, w, l, frame[a])
       \/ ~Movable(a) /\ ~Resident(a) /\ Lost(vsatp, w)

\* The entry that maps page a is on nobody else's way.
OwnEntry(a, b) ==
    LET v == WalkTo(a)
        w == WalkTo(b)
    IN /\ a # b /\ v[0].table = w[0].table => vpn(a, 0) # vpn(b, 0)
       /\ Movable(a) => \A l \in 1..4 : w[l].table # v[0].table

PagesInv ==
    /\ \A a \in RegionPages : Placed(a)
    /\ \A a, b \in RegionPages : OwnEntry(a, b)
    /\ \A a, b \in RegionPages : a # b /\ Resident(a) => frame[a] # frame[b]

LEMMA RegionFacts ==
    /\ RegionPages \subseteq Nat
    /\ \A t \in Thread : \A n \in 1..Size[t] :
          /\ Base[t] - n \in 0..(WORDS - 1) /\ PageOf(Base[t] - n) \in Region(t)
    /\ \A t \in Thread : Region(t) \subseteq RegionPages
<1>1. ASSUME NEW t \in Thread
      PROVE  Size[t] \in Nat /\ Base[t] \in Nat /\ Size[t] <= Base[t] /\ Base[t] <= WORDS - 1
  BY GuestAssumption, Sizes
<1>2. ASSUME NEW t \in Thread, NEW s \in (Base[t] - Size[t])..(Base[t] - 1) PROVE s \in Nat
  BY <1>1
<1>3. ASSUME NEW t \in Thread PROVE Region(t) \subseteq Nat
  BY <1>2, WordFacts DEF Region
<1>4. \A t \in Thread : Region(t) \subseteq RegionPages
  BY DEF RegionPages
<1>5. RegionPages \subseteq Nat
  BY <1>3 DEF RegionPages
<1>6. ASSUME NEW t \in Thread, NEW n \in 1..Size[t]
      PROVE  Base[t] - n \in 0..(WORDS - 1) /\ PageOf(Base[t] - n) \in Region(t)
  <2>1. Base[t] - n \in (Base[t] - Size[t])..(Base[t] - 1) /\ Base[t] - n \in 0..(WORDS - 1)
    BY <1>1, Sizes
  <2>2. QED
    BY <2>1 DEF Region
<1>7. QED
  BY <1>4, <1>5, <1>6

LEMMA SpanZero == ASSUME NEW n \in Nat PROVE n % Span(0) = 0
BY Sizes

\* A page that is resident is found at its frame, and no other page is found.
LEMMA PlacedFacts ==
    ASSUME TypeOK, NEW a \in RegionPages, Placed(a)
    PROVE  LET w == WalkTo(a) IN
           /\ Resident(a) => \E l \in 0..4 : Found(vsatp, a, w, l, frame[a])
           /\ ~Resident(a) => Lost(vsatp, w)
           /\ Movable(a) <=> \A l \in 0..4 : w[l].table \in Tables
<1> DEFINE w == WalkTo(a)
<1>0. a \in Nat /\ frame[a] \in Frames \cup {0} /\ Frames \subseteq Nat \ {0} /\ frame[a] \in Nat
  BY RegionFacts, ZicfissAssumption DEF TypeOK
<1>1. Levels(vsatp) \in 3..5
  BY LevelsFacts
<1>2. Movable(a) <=> w[0].table \in Tables
  BY DEF Movable, LeafTable
<1> HIDE DEF w
<1>3. CASE /\ \A l \in 0..4 : w[l].table \in Tables
           /\ \A l \in 1..(Levels(vsatp) - 1) : IsPointer(w[l].entry)
           /\ IF Resident(a) THEN IsStackPage(w[0].entry) /\ w[0].entry.ppn = frame[a]
              ELSE w[0].entry = SwapEntry
  <2>1. Resident(a) => Found(vsatp, a, w, 0, frame[a])
    <3>1. SUFFICES ASSUME Resident(a) PROVE Found(vsatp, a, w, 0, frame[a])
      OBVIOUS
    <3>2. IsStackPage(w[0].entry) /\ w[0].entry.ppn = frame[a]
      BY <1>3, <3>1
    <3>3. frame[a] % Span(0) = 0 /\ a % Span(0) = 0
      BY <1>0, SpanZero
    <3>4. \A k \in (0 + 1)..(Levels(vsatp) - 1) : IsPointer(w[k].entry)
      BY <1>3
    <3>5. QED
      BY <1>0, <1>1, <3>2, <3>3, <3>4 DEF Found
  <2>2. ~Resident(a) => Lost(vsatp, w)
    <3>1. SUFFICES ASSUME ~Resident(a) PROVE Lost(vsatp, w)
      OBVIOUS
    <3>2. w[0].entry = SwapEntry /\ ~is_leaf(w[0].entry) /\ ~already_created(w[0].entry)
      BY <1>3, <3>1, GuestAssumption
    <3>3. \A l \in 1..(Levels(vsatp) - 1) : ~is_leaf(w[l].entry)
      BY <1>3, EntryKinds
    <3>4. QED
      BY <1>1, <3>2, <3>3 DEF Lost
  <2>3. QED
    BY <1>2, <1>3, <2>1, <2>2 DEF w
<1>4. CASE /\ ~Movable(a) /\ Resident(a)
           /\ \E l \in 1..(Levels(vsatp) - 1) : Found(vsatp, a, w, l, frame[a])
  <2>1. \E l \in 0..4 : Found(vsatp, a, w, l, frame[a])
    BY <1>1, <1>4
  <2>2. QED
    BY <1>2, <1>4, <2>1 DEF w
<1>5. CASE ~Movable(a) /\ ~Resident(a) /\ Lost(vsatp, w)
  BY <1>2, <1>5 DEF w
<1>6. QED
  BY <1>3, <1>4, <1>5 DEF Placed, w

\* What the emulation finds for a page of a shadow stack, and what the hart would.
LEMMA Translated ==
    ASSUME TypeOK, PagesInv, NEW a \in RegionPages
    PROVE  /\ hw_walk(vsatp, a, WalkTo(a)) = IF Resident(a) THEN frame[a] ELSE Fault
           /\ vs_stage_trans_addr(vsatp, a, WalkTo(a)) =
                 IF vsatp = "Sv48" THEN Stop
                 ELSE IF Resident(a) THEN frame[a]
                 ELSE IF vsatp = "Sv57" /\ Movable(a) THEN Fault ELSE Stop
<1> DEFINE w == WalkTo(a)
<1>1. vsatp \in {"Sv39", "Sv48", "Sv57"}
  BY GuestAssumption DEF TypeOK
<1>2. Placed(a)
  BY DEF PagesInv
<1>3. /\ Resident(a) => \E l \in 0..4 : Found(vsatp, a, w, l, frame[a])
      /\ ~Resident(a) => Lost(vsatp, w)
      /\ Movable(a) <=> \A l \in 0..4 : w[l].table \in Tables
  BY <1>2, PlacedFacts
<1> HIDE DEF w
<1>4. CASE Resident(a)
  <2>1. PICK l : Found(vsatp, a, w, l, frame[a])
    BY <1>3, <1>4
  <2>2. hw_walk(vsatp, a, w) = frame[a] /\ (vsatp # "Sv48" => vs_stage_trans_addr(vsatp, a, w) = frame[a])
    BY <1>1, <2>1, WalksFind, Zenon
  <2>3. vsatp = "Sv48" => vs_stage_trans_addr(vsatp, a, w) = Stop
    BY DEF vs_stage_trans_addr
  <2>4. QED
    BY <1>4, <2>2, <2>3 DEF w
<1>5. CASE ~Resident(a)
  <2>1. /\ hw_walk(vsatp, a, w) = Fault
        /\ vs_stage_trans_addr(vsatp, a, w) =
              IF vsatp = "Sv57" /\ \A l \in 0..4 : w[l].table \in Tables THEN Fault ELSE Stop
    BY <1>1, <1>3, <1>5, WalksMiss, Zenon
  <2>2. QED
    BY <1>3, <1>5, <2>1 DEF w
<1>6. QED
  BY <1>4, <1>5

\* The same for a word.
LEMMA WordFound ==
    ASSUME TypeOK, PagesInv, NEW s, PageOf(s) \in RegionPages
    PROVE  /\ ssp_hp_ptr(s) \in Frames =>
                 Resident(PageOf(s)) /\ ssp_hp_ptr(s) = frame[PageOf(s)]
           /\ ssp_hp_ptr(s) = Fault => Movable(PageOf(s)) /\ ~Resident(PageOf(s))
           /\ ssp_hp_ptr(s) = Stop =>
                 \/ vsatp \notin {"Sv39", "Sv57"}
                 \/ /\ hw_walk(vsatp, PageOf(s), WalkTo(PageOf(s))) = Fault
                    /\ vsatp = "Sv39" \/ LeafTable(PageOf(s)) \notin Tables
           /\ ssp_hp_ptr(s) \in Frames \cup {Fault, Stop}
<1> DEFINE a == PageOf(s)
           r == vs_stage_trans_addr(vsatp, a, WalkTo(a))
<1>1. /\ hw_walk(vsatp, a, WalkTo(a)) = IF Resident(a) THEN frame[a] ELSE Fault
      /\ r = IF vsatp = "Sv48" THEN Stop
             ELSE IF Resident(a) THEN frame[a]
             ELSE IF vsatp = "Sv57" /\ Movable(a) THEN Fault ELSE Stop
  BY Translated
<1>2. ssp_hp_ptr(s) = IF r \in Frames \cup {Fault} THEN r ELSE Stop
  BY DEF ssp_hp_ptr, WalkTo
<1>3. Resident(a) => frame[a] \in Frames
  BY DEF TypeOK, Resident
<1>4. /\ Fault \notin Frames /\ Stop \notin Frames /\ Fault # Stop
  BY ZicfissAssumption DEF Fault, Stop
<1>5. vsatp \in {"Sv39", "Sv48", "Sv57"}
  BY GuestAssumption DEF TypeOK
<1>6. Movable(a) <=> LeafTable(a) \in Tables
  BY DEF Movable
<1> HIDE DEF a, r
<1>7. QED
  BY <1>1, <1>2, <1>3, <1>4, <1>5, <1>6 DEF a

\* Setting a page's own entry changes that entry and no other walk.
LEMMA EntrySet ==
    ASSUME TypeOK, PagesInv, NEW page \in RegionPages, Movable(page), NEW e,
           ptab' = [ptab EXCEPT ![LeafTable(page)][vpn(page, 0)] = e], vsatp' = vsatp,
           NEW a \in RegionPages
    PROVE  LET v == WalkTo(a)
               w == WalkTo(a)' IN
           /\ \A l \in 0..4 : w[l].table = v[l].table
           /\ \A l \in 1..4 : w[l].entry = v[l].entry
           /\ w[0].entry = IF a = page THEN e ELSE v[0].entry
<1> DEFINE x == LeafTable(page)
           y == vpn(page, 0)
           v == Walk(ptab, vsatp, a)
           w == Walk(ptab', vsatp, a)
<1>1. page \in Nat /\ a \in Nat
  BY RegionFacts
<1>2. y \in 0..(PAGE_TABLE_LEN - 1)
  BY <1>1, VpnRange
<1>3. x \in Memory
  BY DEF Memory, Movable
<1>4. \A l \in 1..4 : v[l].table # x
  BY DEF PagesInv, OwnEntry, WalkTo, LeafTable
<1>5. \A l \in 0..4 : v[l].table \in Memory
  BY DEF PagesInv, Placed, WalkTo
<1>6. DOMAIN ptab = Memory /\ DOMAIN ptab[x] = 0..(PAGE_TABLE_LEN - 1)
  BY <1>3 DEF TypeOK
<1>7. \A t \in Memory : t # x => ptab'[t] = ptab[t]
  BY <1>6
<1>8. ptab'[x] = [ptab[x] EXCEPT ![y] = e]
  BY <1>3, <1>6
<1>9. ptab'[x][y] = e
  BY <1>2, <1>6, <1>8
<1>10. \A i \in 0..(PAGE_TABLE_LEN - 1) : i # y => ptab'[x][i] = ptab[x][i]
  BY <1>6, <1>8
<1>11. vpn(a, 0) \in 0..(PAGE_TABLE_LEN - 1)
  BY <1>1, VpnRange
<1>12. a # page /\ v[0].table = x => vpn(a, 0) # y
  BY DEF PagesInv, OwnEntry, WalkTo, LeafTable
<1>13. a = page => v[0].table = x /\ vpn(a, 0) = y
  BY DEF LeafTable, WalkTo
<1>14. \A l \in 0..4 : v[l].table # x => ptab'[v[l].table] = ptab[v[l].table]
  BY <1>5, <1>7
<1> HIDE DEF x, y
<1>15. /\ \A l \in 0..4 : w[l].table = v[l].table
       /\ \A l \in 1..4 : w[l].entry = v[l].entry
       /\ v[0].table # x => w[0].entry = v[0].entry
       /\ w[0].entry = ptab'[v[0].table][vpn(a, 0)]
  <2>1. Agree(ptab, ptab', vsatp, a, x)
    BY <1>4, <1>14 DEF Agree
  <2>2. SameAbove(ptab, ptab', vsatp, a, x)
    BY <2>1, WalkUnchanged, Zenon
  <2>3. QED
    BY <2>2 DEF SameAbove
<1>16. v[0].entry = ptab[v[0].table][vpn(a, 0)]
  BY WalkSteps
<1>17. WalkTo(a) = v /\ WalkTo(a)' = w
  BY DEF WalkTo
<1> HIDE DEF v, w
<1>18. CASE a = page
  BY <1>9, <1>13, <1>15, <1>17, <1>18
<1>19. CASE a # page
  <2>1. w[0].entry = v[0].entry
    BY <1>10, <1>11, <1>12, <1>15, <1>16, <1>19
  <2>2. QED
    BY <1>15, <1>17, <1>19, <2>1
<1>20. QED
  BY <1>18, <1>19

\* A page moves in, or out: f is 0.
LEMMA PageMoved ==
    ASSUME TypeOK, PagesInv, NEW page \in RegionPages, Movable(page), NEW e, NEW f,
           ptab' = [ptab EXCEPT ![LeafTable(page)][vpn(page, 0)] = e], vsatp' = vsatp,
           frame' = [frame EXCEPT ![page] = f],
           IF f = 0 THEN e = SwapEntry
           ELSE IsStackPage(e) /\ e.ppn = f /\ \A b \in RegionPages : frame[b] # f
    PROVE  PagesInv'
<1>0. /\ Levels(vsatp') = Levels(vsatp) /\ Levels(vsatp) \in 3..5
      /\ DOMAIN frame = RegionPages
  BY LevelsFacts DEF TypeOK
<1>1. ASSUME NEW a \in RegionPages
      PROVE  /\ \A l \in 0..4 : WalkTo(a)'[l].table = WalkTo(a)[l].table
             /\ \A l \in 1..4 : WalkTo(a)'[l].entry = WalkTo(a)[l].entry
             /\ WalkTo(a)'[0].entry = IF a = page THEN e ELSE WalkTo(a)[0].entry
             /\ frame'[a] = IF a = page THEN f ELSE frame[a]
             /\ Movable(a)' <=> Movable(a)
             /\ Resident(a) <=> frame[a] # 0
             /\ Resident(a)' <=> frame'[a] # 0
  <2>1. /\ \A l \in 0..4 : WalkTo(a)'[l].table = WalkTo(a)[l].table
        /\ \A l \in 1..4 : WalkTo(a)'[l].entry = WalkTo(a)[l].entry
        /\ WalkTo(a)'[0].entry = IF a = page THEN e ELSE WalkTo(a)[0].entry
    BY EntrySet, Zenon
  <2>2. frame'[a] = IF a = page THEN f ELSE frame[a]
    BY <1>0
  <2>3. Movable(a)' <=> Movable(a)
    BY <2>1 DEF Movable, LeafTable
  <2>4. QED
    BY <2>1, <2>2, <2>3 DEF Resident
<1>2. ASSUME NEW a \in RegionPages PROVE Placed(a)'
  <2> DEFINE v == WalkTo(a)
             w == WalkTo(a)'
             n == Levels(vsatp)
  <2>1. /\ \A l \in 0..4 : w[l].table = v[l].table
        /\ \A l \in 1..4 : w[l].entry = v[l].entry
        /\ w[0].entry = IF a = page THEN e ELSE v[0].entry
        /\ frame'[a] = IF a = page THEN f ELSE frame[a]
        /\ Movable(a)' <=> Movable(a)
        /\ Resident(a) <=> frame[a] # 0
        /\ Resident(a)' <=> frame'[a] # 0
    BY <1>1
  <2>2. Placed(a) /\ n \in 3..5 /\ Levels(vsatp') = n
    BY <1>0 DEF PagesInv
  <2>3. (Placed(a)') <=>
          /\ \A l \in 0..4 : w[l].table \in Memory
          /\ \/ /\ \A l \in 0..4 : w[l].table \in Tables
                /\ \A l \in 1..(n - 1) : IsPointer(w[l].entry)
                /\ IF Resident(a)' THEN IsStackPage(w[0].entry) /\ w[0].entry.ppn = frame'[a]
                   ELSE w[0].entry = SwapEntry
             \/ /\ ~Movable(a)' /\ Resident(a)'
                /\ \E l \in 1..(n - 1) : Found(vsatp, a, w, l, frame'[a])
             \/ ~Movable(a)' /\ ~Resident(a)' /\ Lost(vsatp, w)
    BY <2>2 DEF Placed
  <2>4. Placed(a) <=>
          /\ \A l \in 0..4 : v[l].table \in Memory
          /\ \/ /\ \A l \in 0..4 : v[l].table \in Tables
                /\ \A l \in 1..(n - 1) : IsPointer(v[l].entry)
                /\ IF Resident(a) THEN IsStackPage(v[0].entry) /\ v[0].entry.ppn = frame[a]
                   ELSE v[0].entry = SwapEntry
             \/ /\ ~Movable(a) /\ Resident(a)
                /\ \E l \in 1..(n - 1) : Found(vsatp, a, v, l, frame[a])
             \/ ~Movable(a) /\ ~Resident(a) /\ Lost(vsatp, v)
    BY DEF Placed
  <2>5. Movable(a) => \A l \in 0..4 : v[l].table \in Tables
    BY <2>2, <2>4
  <2>6. n = Levels(vsatp)
    OBVIOUS
  <2>7. Movable(a) <=> v[0].table \in Tables
    BY DEF Movable, LeafTable
  <2> HIDE DEF v, w, n
  <2>8. CASE a = page
    BY <2>1, <2>2, <2>3, <2>4, <2>5, <2>8
  <2>9. CASE a # page
    <3>1. \A l \in 0..4 : w[l].table = v[l].table /\ w[l].entry = v[l].entry
      BY <2>1, <2>9
    <3>2. frame'[a] = frame[a] /\ (Resident(a)' <=> Resident(a))
      BY <2>1, <2>9
    <3>3. \A l : Found(vsatp, a, v, l, frame[a]) => Found(vsatp, a, w, l, frame[a])
      BY <2>2, <2>6, <3>1 DEF Found
    <3>4. Lost(vsatp, v) => Lost(vsatp, w)
      BY <2>2, <2>6, <3>1 DEF Lost
    <3>5. CASE /\ \A l \in 0..4 : v[l].table \in Tables
               /\ \A l \in 1..(n - 1) : IsPointer(v[l].entry)
               /\ IF Resident(a) THEN IsStackPage(v[0].entry) /\ v[0].entry.ppn = frame[a]
                  ELSE v[0].entry = SwapEntry
      BY <2>2, <2>3, <2>4, <3>1, <3>2, <3>5
    <3>6. CASE ~Movable(a) /\ Resident(a)
               /\ \E l \in 1..(n - 1) : Found(vsatp, a, v, l, frame[a])
      BY <2>1, <2>2, <2>3, <2>4, <3>1, <3>2, <3>3, <3>6
    <3>7. CASE ~Movable(a) /\ ~Resident(a) /\ Lost(vsatp, v)
      BY <2>1, <2>2, <2>3, <2>4, <3>1, <3>2, <3>4, <3>7
    <3>8. QED
      BY <2>2, <2>4, <3>5, <3>6, <3>7
  <2>10. QED
    BY <2>8, <2>9
<1>3. ASSUME NEW a \in RegionPages, NEW b \in RegionPages PROVE OwnEntry(a, b)'
  <2>1. OwnEntry(a, b)
    BY DEF PagesInv
  <2>2. /\ \A l \in 0..4 : WalkTo(a)'[l].table = WalkTo(a)[l].table
        /\ \A l \in 0..4 : WalkTo(b)'[l].table = WalkTo(b)[l].table
        /\ Movable(a)' <=> Movable(a)
    BY <1>1
  <2>3. QED
    BY <2>1, <2>2 DEF OwnEntry
<1>4. ASSUME NEW a \in RegionPages, NEW b \in RegionPages, a # b, Resident(a)'
      PROVE  frame'[a] # frame'[b]
  <2>1. Resident(a) => frame[a] # frame[b]
    BY <1>4 DEF PagesInv
  <2>2. Resident(b) => frame[b] # frame[a]
    BY <1>4 DEF PagesInv
  <2>3. QED
    BY <1>1, <1>4, <2>1, <2>2
<1>5. QED
  <2>1. \A a \in RegionPages : Placed(a)'
    BY <1>2
  <2>2. \A a, b \in RegionPages : OwnEntry(a, b)'
    BY <1>3
  <2>3. \A a, b \in RegionPages : a # b /\ Resident(a)' => frame'[a] # frame'[b]
    BY <1>4
  <2>4. QED
    BY <2>1, <2>2, <2>3 DEF PagesInv

LEMMA PagesSame ==
    ASSUME PagesInv, UNCHANGED <<vsatp, ptab, frame>>
    PROVE  PagesInv'
BY DEF PagesInv, Placed, OwnEntry, WalkTo, Movable, LeafTable, Resident

\* Where the kernel finds the pages of its first page table.
LEMMA InitPlaced ==
    ASSUME GuestInit, NEW a \in RegionPages
    PROVE  /\ Placed(a) /\ frame[a] \in Frames \cup {0}
           /\ frame[a] = 0 \/ frame[a] = hw_walk(vsatp, a, WalkTo(a))
           /\ Movable(a) => Resident(a)
<1> DEFINE w == WalkTo(a)
<1>1. PICK layout \in Layouts : ptab = layout[vsatp]
  BY DEF GuestInit
<1>2. vsatp \in Modes /\ vsatp \in {"Sv39", "Sv48", "Sv57"}
  BY GuestAssumption DEF GuestInit
<1>3. ptab \in TypedTables
  BY <1>1, <1>2, LayoutAssumption DEF TypedTables
<1>4. a \in Nat
  BY RegionFacts
<1>5. \A l \in 0..4 : w[l].table \in Memory
  BY <1>3, <1>4, WalkInMemory DEF WalkTo
<1>6. InTable(vsatp, w) \/ InSuperpage(vsatp, a, w) \/ Missing(vsatp, w)
  BY <1>1, <1>2, LayoutAssumption, Zenon DEF WalkTo
<1>7. frame[a] = Max({0, hw_walk(vsatp, a, w)})
  BY DEF GuestInit
<1>8. Frames \subseteq Nat \ {0}
  BY ZicfissAssumption
<1>9. Movable(a) <=> w[0].table \in Tables
  BY DEF Movable, LeafTable
<1>10. Resident(a) <=> frame[a] # 0
  BY DEF Resident
<1>11. Levels(vsatp) \in 3..5
  BY LevelsFacts
<1>12. Placed(a) <=>
          /\ \A l \in 0..4 : w[l].table \in Memory
          /\ \/ /\ \A l \in 0..4 : w[l].table \in Tables
                /\ \A l \in 1..(Levels(vsatp) - 1) : IsPointer(w[l].entry)
                /\ IF Resident(a) THEN IsStackPage(w[0].entry) /\ w[0].entry.ppn = frame[a]
                   ELSE w[0].entry = SwapEntry
             \/ /\ ~Movable(a) /\ Resident(a)
                /\ \E l \in 1..(Levels(vsatp) - 1) : Found(vsatp, a, w, l, frame[a])
             \/ ~Movable(a) /\ ~Resident(a) /\ Lost(vsatp, w)
  BY DEF Placed
<1> HIDE DEF w
<1>13. ASSUME NEW f \in Frames, hw_walk(vsatp, a, w) = f PROVE frame[a] = f /\ Resident(a)
  <2>1. f \in Nat \ {0}
    BY <1>8
  <2>2. Max({0, f}) = f
    BY <2>1, MaxIs
  <2>3. QED
    BY <1>7, <1>10, <1>13, <2>1, <2>2
<1>14. CASE InTable(vsatp, w)
  <2>1. /\ \A l \in 0..4 : w[l].table \in Tables
        /\ \A l \in 1..(Levels(vsatp) - 1) : IsPointer(w[l].entry)
        /\ IsStackPage(w[0].entry) /\ w[0].entry.ppn \in Frames
    BY <1>14 DEF InTable
  <2> DEFINE f == w[0].entry.ppn
  <2>2. f \in Nat /\ f % Span(0) = 0 /\ a % Span(0) = 0
    BY <1>4, <1>8, <2>1, SpanZero
  <2>3. Found(vsatp, a, w, 0, f)
    BY <1>11, <2>1, <2>2 DEF Found
  <2>4. hw_walk(vsatp, a, w) = f
    BY <1>2, <2>3, WalksFind, Zenon
  <2>5. frame[a] = f /\ Resident(a)
    BY <1>13, <2>1, <2>4
  <2> HIDE DEF f
  <2>6. QED
    BY <1>5, <1>9, <1>12, <2>1, <2>4, <2>5 DEF f, w
<1>15. CASE InSuperpage(vsatp, a, w)
  <2>1. w[0].table \notin Tables
    BY <1>15 DEF InSuperpage
  <2>2. PICK l \in 1..(Levels(vsatp) - 1) :
          /\ \A k \in (l + 1)..(Levels(vsatp) - 1) : IsPointer(w[k].entry)
          /\ IsStackPage(w[l].entry) /\ w[l].entry.ppn % Span(l) = 0
          /\ w[l].entry.ppn + (a % Span(l)) \in Frames
    BY <1>15 DEF InSuperpage
  <2> DEFINE f == w[l].entry.ppn + (a % Span(l))
  <2>3. Found(vsatp, a, w, l, f)
    BY <1>11, <2>2 DEF Found
  <2>4. f \in Frames
    BY <2>2
  <2> HIDE DEF f
  <2>5. hw_walk(vsatp, a, w) = f
    BY <1>2, <2>3, WalksFind, Zenon
  <2>6. frame[a] = f /\ Resident(a)
    BY <1>13, <2>4, <2>5
  <2>7. QED
    BY <1>5, <1>9, <1>12, <2>1, <2>3, <2>4, <2>5, <2>6 DEF w
<1>16. CASE Missing(vsatp, w)
  <2>1. w[0].table \notin Tables /\ Lost(vsatp, w)
    BY <1>16 DEF Missing, Lost
  <2>2. hw_walk(vsatp, a, w) = -1
    BY <1>2, <2>1, WalksMiss, Zenon DEF Fault
  <2>3. Max({0, -1}) = 0
    BY MaxIs
  <2>4. frame[a] = 0 /\ ~Resident(a)
    BY <1>7, <1>10, <2>2, <2>3
  <2>5. QED
    BY <1>5, <1>9, <1>12, <2>1, <2>4
<1>17. QED
  BY <1>6, <1>14, <1>15, <1>16

LEMMA InitPages == ASSUME GuestInit PROVE PagesInv
<1>1. \A a \in RegionPages : Placed(a)
  BY InitPlaced
<1>2. PICK layout \in Layouts : ptab = layout[vsatp]
  BY DEF GuestInit
<1>3. vsatp \in Modes
  BY DEF GuestInit
<1>4. ASSUME NEW a \in RegionPages, NEW b \in RegionPages
      PROVE  /\ OwnEntry(a, b)
             /\ a # b /\ hw_walk(vsatp, a, WalkTo(a)) # Fault
                   => hw_walk(vsatp, a, WalkTo(a)) # hw_walk(vsatp, b, WalkTo(b))
  BY <1>2, <1>3, LayoutAssumption, Zenon DEF OwnEntry, WalkTo, Movable, LeafTable
<1>5. ASSUME NEW a \in RegionPages, NEW b \in RegionPages, a # b, Resident(a)
      PROVE  frame[a] # frame[b]
  <2>1. /\ frame[a] = 0 \/ frame[a] = hw_walk(vsatp, a, WalkTo(a))
        /\ frame[b] = 0 \/ frame[b] = hw_walk(vsatp, b, WalkTo(b))
        /\ frame[a] \in Frames \cup {0} /\ frame[a] # 0
    BY <1>5, InitPlaced DEF Resident
  <2>2. Fault \notin Frames
    BY ZicfissAssumption DEF Fault
  <2>3. QED
    BY <1>4, <1>5, <2>1, <2>2
<1>6. QED
  BY <1>1, <1>4, <1>5 DEF PagesInv

LEMMA InitTypes == ASSUME GuestInit PROVE TypeOK
<1>1. /\ ssp \in 0..(WORDS - 1) /\ senvcfg \subseteq {"CBZE"} /\ hart \in {"guest", "panic"}
      /\ vsatp \in Modes
  BY Sizes DEF GuestInit, ZicfissInit
<1>2. {henv_sse, senv_sse, kss} \subseteq BOOLEAN
  BY DEF GuestInit, ZicfissInit
<1>3. ptab \in [Memory -> [0..(PAGE_TABLE_LEN - 1) ->
                              [ppn : Memory \cup {SwapEntry.ppn}, flags : SUBSET Flags]]]
  <2>1. PICK layout \in Layouts : ptab = layout[vsatp]
    BY DEF GuestInit
  <2>2. ptab \in TypedTables
    BY <1>1, <2>1, LayoutAssumption DEF TypedTables
  <2>3. [ppn : Memory, flags : SUBSET Flags] \subseteq
           [ppn : Memory \cup {SwapEntry.ppn}, flags : SUBSET Flags]
    OBVIOUS
  <2>4. QED
    BY <2>2, <2>3 DEF TypedTables
<1>4. EmptyPage \in [0..(PAGE_WORDS - 1) -> Ra \cup {0}]
  BY DEF EmptyPage
<1>5. /\ mem \in [Frames -> [0..(PAGE_WORDS - 1) -> Ra \cup {0}]]
      /\ swap \in [RegionPages -> [0..(PAGE_WORDS - 1) -> Ra \cup {0}]]
  BY <1>4 DEF GuestInit
<1>6. frame \in [RegionPages -> Frames \cup {0}]
  <2>1. DOMAIN frame = RegionPages /\ frame = [p \in RegionPages |-> frame[p]]
    BY DEF GuestInit
  <2>2. QED
    BY <2>1, InitPlaced
<1>7. /\ cur \in Thread \cup {Idle} /\ uses \subseteq Thread
      /\ th \in [Thread -> {"run", "fault", "retry", "check"}]
      /\ astray \subseteq Thread /\ DOMAIN todo = Thread
      /\ calls \in [Thread -> Seq(Ra)]
  BY GuestAssumption DEF GuestInit
<1>8. saved \in [Thread -> 0..(WORDS - 1)]
  BY GuestAssumption, Sizes DEF GuestInit
<1>9. \A t \in Thread :
          todo[t] \in IF th[t] = "run" THEN {NoInstruction} ELSE {"SSPUSH", "SSPOPCHK"} \X Ra
  BY DEF GuestInit
<1>10. QED
  BY <1>1, <1>2, <1>3, <1>5, <1>6, <1>7, <1>8, <1>9 DEF TypeOK

LEMMA InstructionTypes ==
    ASSUME TypeOK, NEW op, NEW v \in Ra, NEW spp, instruction(op, v, spp)
    PROVE  /\ ssp' \in 0..(WORDS - 1) /\ hart' \in {"guest", "panic"}
           /\ mem' \in [Frames -> [0..(PAGE_WORDS - 1) -> Ra \cup {0}]]
           /\ UNCHANGED <<henv_sse, senv_sse, senvcfg, vsatp, ptab>>
<1>1. ssp \in Nat /\ ssp < WORDS /\ ssp \in 0..(WORDS - 1)
      /\ mem \in [Frames -> [0..(PAGE_WORDS - 1) -> Ra \cup {0}]]
  BY Sizes DEF TypeOK
<1>2. Down(ssp) \in 0..(WORDS - 1) /\ Up(ssp) \in 0..(WORDS - 1)
  BY <1>1, Moves
<1>3. hart' \in {"guest", "panic"} /\ UNCHANGED <<henv_sse, senv_sse, senvcfg, vsatp, ptab>>
  BY DEF instruction
<1>4. CASE UNCHANGED <<ssp, mem>>
  BY <1>1, <1>3, <1>4
<1>5. CASE ss_push(v)
  <2> DEFINE r == ssp_hp_ptr(Down(ssp))
             o == Offset(ssp')
  <2>1. ssp' = Down(ssp) /\ mem' = IF r \in Frames THEN [mem EXCEPT ![r][o] = v] ELSE mem
    BY <1>5 DEF ss_push
  <2>2. o \in 0..(PAGE_WORDS - 1)
    BY <1>2, <2>1, WordFacts, Sizes
  <2> HIDE DEF r, o
  <2>3. QED
    BY <1>1, <1>2, <1>3, <2>1, <2>2
<1>6. CASE ss_pop
  BY <1>1, <1>2, <1>3, <1>6 DEF ss_pop
<1>7. QED
  BY <1>4, <1>5, <1>6 DEF instruction

LEMMA ResultTypes ==
    ASSUME NEW op, NEW v, NEW spp PROVE Result(op, v, spp) \in {"ok", "panic", "fault", "check"}
BY DEF Result

LEMMA SubSeqTyped ==
    ASSUME NEW q \in Seq(Ra) PROVE SubSeq(q, 1, Len(q) - 1) \in Seq(Ra)
<1>1. Len(q) \in Nat /\ \A i \in 1..Len(q) : q[i] \in Ra
  OBVIOUS
<1>2. \A i \in 1..(Len(q) - 1) : q[i] \in Ra
  BY <1>1
<1>3. QED
  BY <1>1, <1>2

LEMMA ExecuteTypes ==
    ASSUME TypeOK, cur \in Thread, NEW op \in {"SSPUSH", "SSPOPCHK"}, NEW v \in Ra, Execute(op, v)
    PROVE  TypeOK'
<1> DEFINE r == Result(op, v, 0)
<1>1. /\ ssp' \in 0..(WORDS - 1) /\ hart' \in {"guest", "panic"}
      /\ mem' \in [Frames -> [0..(PAGE_WORDS - 1) -> Ra \cup {0}]]
      /\ UNCHANGED <<henv_sse, senv_sse, senvcfg, vsatp, ptab>>
  BY InstructionTypes DEF Execute
<1>2. UNCHANGED <<cur, uses, saved, frame, swap, kss>>
  BY DEF Execute, kernel
<1>3. r \in {"ok", "panic", "fault", "check"}
  BY ResultTypes
<1>4. /\ th' = [th EXCEPT ![cur] = IF r \in {"fault", "check"} THEN r ELSE "run"]
      /\ todo' = [todo EXCEPT ![cur] = IF r \in {"fault", "check"} THEN <<op, v>> ELSE NoInstruction]
      /\ astray' = astray \cup {cur} \/ astray' = astray
  BY DEF Execute
<1>5. /\ th \in [Thread -> {"run", "fault", "retry", "check"}] /\ DOMAIN todo = Thread
      /\ calls \in [Thread -> Seq(Ra)] /\ astray \subseteq Thread
      /\ \A t \in Thread :
           todo[t] \in IF th[t] = "run" THEN {NoInstruction} ELSE {"SSPUSH", "SSPOPCHK"} \X Ra
  BY DEF TypeOK
<1> HIDE DEF r
<1>6. /\ th' \in [Thread -> {"run", "fault", "retry", "check"}] /\ DOMAIN todo' = Thread
      /\ astray' \subseteq Thread
  BY <1>3, <1>4, <1>5
<1>7. \A t \in Thread :
           todo'[t] \in IF th'[t] = "run" THEN {NoInstruction} ELSE {"SSPUSH", "SSPOPCHK"} \X Ra
  <2>1. <<op, v>> \in {"SSPUSH", "SSPOPCHK"} \X Ra
    OBVIOUS
  <2>2. \A t \in Thread \ {cur} : todo'[t] = todo[t] /\ th'[t] = th[t]
    BY <1>4, <1>5
  <2>3. /\ todo'[cur] = IF r \in {"fault", "check"} THEN <<op, v>> ELSE NoInstruction
        /\ th'[cur] = IF r \in {"fault", "check"} THEN r ELSE "run"
    BY <1>4, <1>5
  <2>4. QED
    BY <1>5, <2>1, <2>2, <2>3
<1>8. calls' \in [Thread -> Seq(Ra)]
  <2> DEFINE q == calls[cur]
  <2>1. q \in Seq(Ra)
    BY <1>5
  <2>2. Append(q, v) \in Seq(Ra) /\ SubSeq(q, 1, Len(q) - 1) \in Seq(Ra)
    BY <2>1, SubSeqTyped
  <2>3. PICK x \in {q, Append(q, v), SubSeq(q, 1, Len(q) - 1)} : calls' = [calls EXCEPT ![cur] = x]
    BY DEF Execute
  <2> HIDE DEF q
  <2>4. x \in Seq(Ra)
    BY <2>1, <2>2
  <2>5. QED
    BY <1>5, <2>3, <2>4
<1>9. /\ {henv_sse', senv_sse', kss'} \subseteq BOOLEAN /\ senvcfg' \subseteq {"CBZE"}
      /\ vsatp' \in Modes
      /\ ptab' \in [Memory -> [0..(PAGE_TABLE_LEN - 1) ->
                                [ppn : Memory \cup {SwapEntry.ppn}, flags : SUBSET Flags]]]
      /\ frame' \in [RegionPages -> Frames \cup {0}]
      /\ swap' \in [RegionPages -> [0..(PAGE_WORDS - 1) -> Ra \cup {0}]]
      /\ cur' \in Thread \cup {Idle} /\ uses' \subseteq Thread
      /\ saved' \in [Thread -> 0..(WORDS - 1)]
  BY <1>1, <1>2, Zenon DEF TypeOK
<1>10. QED
  BY <1>1, <1>6, <1>7, <1>8, <1>9, Zenon DEF TypeOK

LEMMA SwitchTypes == ASSUME TypeOK, NEW t \in Thread, Switch(t) PROVE TypeOK'
<1>1. /\ ssp' = saved[t] /\ senvcfg' = {} /\ cur' = t
      /\ saved' = [u \in Thread |-> IF u = cur THEN ssp ELSE saved[u]]
      /\ UNCHANGED <<henv_sse, vsatp, ptab, mem, hart, th, todo, calls, astray, uses, frame, swap, kss>>
  BY DEF Switch, csr, virtual_instruction, guestMemory, threads
<1>2. senv_sse' \in BOOLEAN
  <2>1. senv_sse \in BOOLEAN
    BY Zenon DEF TypeOK
  <2>2. senv_sse' = TRUE \/ senv_sse' = FALSE \/ senv_sse' = senv_sse
    BY DEF Switch, virtual_instruction, csr_field
  <2>3. QED
    BY <2>1, <2>2, Zenon
<1>3. {henv_sse', senv_sse', kss'} \subseteq BOOLEAN
  BY <1>1, <1>2, Zenon DEF TypeOK
<1>4. /\ ssp' \in 0..(WORDS - 1) /\ saved' \in [Thread -> 0..(WORDS - 1)]
      /\ senvcfg' \subseteq {"CBZE"} /\ cur' \in Thread \cup {Idle}
  BY <1>1 DEF TypeOK
<1>5. QED
  BY <1>1, <1>3, <1>4, Zenon DEF TypeOK

LEMMA PageOutTypes == ASSUME TypeOK, NEW page \in RegionPages, PageOut(page) PROVE TypeOK'
<1>1. /\ swap' = [swap EXCEPT ![page] = mem[frame[page]]]
      /\ mem' = [mem EXCEPT ![frame[page]] = EmptyPage]
      /\ frame' = [frame EXCEPT ![page] = 0]
      /\ ptab' = [ptab EXCEPT ![LeafTable(page)][vpn(page, 0)] = SwapEntry]
      /\ UNCHANGED <<ssp, henv_sse, senv_sse, senvcfg, vsatp, hart, th, todo, calls, astray, cur, uses, saved, kss>>
      /\ frame[page] # 0 /\ LeafTable(page) \in Tables
  BY DEF PageOut, zicfiss, threads, Movable, Resident
<1>2. EmptyPage \in [0..(PAGE_WORDS - 1) -> Ra \cup {0}]
  BY DEF EmptyPage
<1>3. frame[page] \in Frames
  BY <1>1 DEF TypeOK
<1>4. /\ mem' \in [Frames -> [0..(PAGE_WORDS - 1) -> Ra \cup {0}]]
      /\ swap' \in [RegionPages -> [0..(PAGE_WORDS - 1) -> Ra \cup {0}]]
      /\ frame' \in [RegionPages -> Frames \cup {0}]
  BY <1>1, <1>2, <1>3 DEF TypeOK
<1>5. ptab' \in [Memory -> [0..(PAGE_TABLE_LEN - 1) ->
                                [ppn : Memory \cup {SwapEntry.ppn}, flags : SUBSET Flags]]]
  BY <1>1, GuestAssumption DEF TypeOK, Memory
<1>6. QED
  BY <1>1, <1>4, <1>5, Zenon DEF TypeOK

LEMMA FreeFrame ==
    ASSUME FreeFrames # {}
    PROVE  Min(FreeFrames) \in Frames /\ \A b \in RegionPages : frame[b] # Min(FreeFrames)
<1>1. FreeFrames \in SUBSET Nat
  BY ZicfissAssumption DEF FreeFrames
<1>2. PICK n \in FreeFrames : \A k \in FreeFrames : n <= k
  BY <1>1, H!LeastElement
<1>3. Min(FreeFrames) \in FreeFrames
  BY <1>2 DEF Min
<1>4. QED
  BY <1>3 DEF FreeFrames

LEMMA PageInTypes == ASSUME TypeOK, NEW page \in RegionPages, PageIn(page) PROVE TypeOK'
<1> DEFINE f == Min(FreeFrames)
<1>1. /\ mem' = [mem EXCEPT ![f] = swap[page]]
      /\ frame' = [frame EXCEPT ![page] = f]
      /\ ptab' = [ptab EXCEPT ![LeafTable(page)][vpn(page, 0)] = PageTableEntry(f, {"V", "W", "U"})]
      /\ swap' = [swap EXCEPT ![page] = EmptyPage]
      /\ UNCHANGED <<ssp, henv_sse, senv_sse, senvcfg, vsatp, hart, th, todo, calls, astray, cur, uses, saved, kss>>
      /\ FreeFrames # {}
  BY DEF PageIn, zicfiss, threads
<1>2. EmptyPage \in [0..(PAGE_WORDS - 1) -> Ra \cup {0}]
  BY DEF EmptyPage
<1>3. f \in Frames
  BY <1>1, FreeFrame
<1> HIDE DEF f
<1>4. /\ mem' \in [Frames -> [0..(PAGE_WORDS - 1) -> Ra \cup {0}]]
      /\ swap' \in [RegionPages -> [0..(PAGE_WORDS - 1) -> Ra \cup {0}]]
      /\ frame' \in [RegionPages -> Frames \cup {0}]
  BY <1>1, <1>2, <1>3 DEF TypeOK
<1>5. ptab' \in [Memory -> [0..(PAGE_TABLE_LEN - 1) ->
                                [ppn : Memory \cup {SwapEntry.ppn}, flags : SUBSET Flags]]]
  <2> DEFINE e == PageTableEntry(f, {"V", "W", "U"})
  <2>1. e \in [ppn : Memory \cup {SwapEntry.ppn}, flags : SUBSET Flags]
    BY <1>3 DEF PageTableEntry, Memory, Flags
  <2> HIDE DEF e
  <2>2. ptab' = [ptab EXCEPT ![LeafTable(page)][vpn(page, 0)] = e]
    BY <1>1 DEF e
  <2>3. QED
    BY <2>1, <2>2 DEF TypeOK
<1>6. QED
  BY <1>1, <1>4, <1>5, Zenon DEF TypeOK

LEMMA RestartTypes == ASSUME TypeOK, Restart PROVE TypeOK'
<1>1. /\ ssp' = Base[cur] /\ cur \in Thread
      /\ th' = [th EXCEPT ![cur] = "run"]
      /\ todo' = [todo EXCEPT ![cur] = NoInstruction]
      /\ calls' = [calls EXCEPT ![cur] = <<>>]
      /\ UNCHANGED <<henv_sse, senv_sse, senvcfg, vsatp, ptab, mem, hart, astray, cur, uses, saved, frame, swap, kss>>
  BY DEF Restart, csr, guestMemory, kernel, TypeOK
<1>2. ssp' \in 0..(WORDS - 1)
  BY <1>1, GuestAssumption
<1>3. /\ th' \in [Thread -> {"run", "fault", "retry", "check"}] /\ DOMAIN todo' = Thread
      /\ calls' \in [Thread -> Seq(Ra)]
      /\ \A t \in Thread :
           todo'[t] \in IF th'[t] = "run" THEN {NoInstruction} ELSE {"SSPUSH", "SSPOPCHK"} \X Ra
  BY <1>1 DEF TypeOK
<1>4. QED
  BY <1>1, <1>2, <1>3, Zenon DEF TypeOK

LEMMA FaultHandledTypes == ASSUME TypeOK, FaultHandled PROVE TypeOK'
<1>1. /\ th[cur] = "fault" /\ cur \in Thread /\ th' = [th EXCEPT ![cur] = "retry"]
      /\ UNCHANGED <<ssp, henv_sse, senv_sse, senvcfg, vsatp, ptab, mem, hart, todo, calls, astray>>
      /\ UNCHANGED <<cur, uses, saved, frame, swap, kss>>
  BY DEF FaultHandled, zicfiss, guestMemory, kernel, TypeOK
<1>2. /\ th' \in [Thread -> {"run", "fault", "retry", "check"}]
      /\ \A t \in Thread :
           todo'[t] \in IF th'[t] = "run" THEN {NoInstruction} ELSE {"SSPUSH", "SSPOPCHK"} \X Ra
  BY <1>1 DEF TypeOK
<1>3. QED
  BY <1>1, <1>2, Zenon DEF TypeOK

LEMMA KernelEnableTypes == ASSUME TypeOK, KernelEnable PROVE TypeOK'
<1>1. /\ kss' = TRUE
      /\ UNCHANGED <<ssp, henv_sse, senv_sse, senvcfg, vsatp, ptab, mem, hart, th, todo, calls, astray>>
      /\ UNCHANGED <<cur, uses, saved, frame, swap>>
  BY DEF KernelEnable, sbi_fwft_handler, zicfiss, guestMemory, threads
<1>2. {henv_sse', senv_sse', kss'} \subseteq BOOLEAN
  BY <1>1, Zenon DEF TypeOK
<1>3. QED
  BY <1>1, <1>2, Zenon DEF TypeOK

LEMMA KernelCallTypes == ASSUME TypeOK, NEW op, KernelCall(op) PROVE TypeOK'
<1>1. /\ ssp' \in 0..(WORDS - 1) /\ hart' \in {"guest", "panic"}
      /\ mem' \in [Frames -> [0..(PAGE_WORDS - 1) -> Ra \cup {0}]]
      /\ UNCHANGED <<henv_sse, senv_sse, senvcfg, vsatp, ptab>>
  BY InstructionTypes DEF KernelCall
<1>2. UNCHANGED <<th, todo, calls, astray, cur, uses, saved, frame, swap, kss>>
  BY DEF KernelCall, threads, kernel
<1>3. QED
  BY <1>1, <1>2, Zenon DEF TypeOK

LEMMA RetryExecutes ==
    ASSUME TypeOK, Retry
    PROVE  /\ cur \in Thread
           /\ \E op \in {"SSPUSH", "SSPOPCHK"}, x \in Ra : Execute(op, x)
<1>1. cur \in Thread
  BY DEF Retry, TypeOK
<1>2. todo[cur] \in {"SSPUSH", "SSPOPCHK"} \X Ra
  BY <1>1 DEF Retry, TypeOK
<1>3. QED
  BY <1>1, <1>2 DEF Retry

\* The steps of the guest, one by one.
LEMMA GuestSteps ==
    ASSUME TypeOK, [GuestNext]_vars
    PROVE  \/ cur \in Thread /\ \E op \in {"SSPUSH", "SSPOPCHK"}, x \in Ra : Execute(op, x)
           \/ \E t \in Thread : Switch(t)
           \/ \E page \in RegionPages : PageOut(page)
           \/ \E page \in RegionPages : PageIn(page)
           \/ FaultHandled
           \/ Restart
           \/ KernelEnable
           \/ \E op \in {"SSPUSH", "SSPOPCHK"} : KernelCall(op)
           \/ UNCHANGED vars
<1>1. ASSUME NEW v \in Ra, Call(v) \/ Return(v)
      PROVE  cur \in Thread /\ \E op \in {"SSPUSH", "SSPOPCHK"}, x \in Ra : Execute(op, x)
  BY <1>1 DEF Call, Return, TypeOK
<1>2. QED
  BY <1>1, RetryExecutes DEF GuestNext

LEMMA PagesStep == ASSUME TypeOK, PagesInv, [GuestNext]_vars PROVE PagesInv'
<1>1. ASSUME NEW op, NEW x, Execute(op, x) PROVE PagesInv'
  BY <1>1, PagesSame DEF Execute, instruction, kernel
<1>2. ASSUME NEW t \in Thread, Switch(t) PROVE PagesInv'
  BY <1>2, PagesSame DEF Switch, guestMemory
<1>3. ASSUME NEW page \in RegionPages, PageOut(page) PROVE PagesInv'
  <2>1. /\ Movable(page) /\ frame' = [frame EXCEPT ![page] = 0] /\ vsatp' = vsatp
        /\ ptab' = [ptab EXCEPT ![LeafTable(page)][vpn(page, 0)] = SwapEntry]
    BY <1>3 DEF PageOut
  <2>2. QED
    BY <2>1, PageMoved
<1>4. ASSUME NEW page \in RegionPages, PageIn(page) PROVE PagesInv'
  <2> DEFINE f == Min(FreeFrames)
             e == PageTableEntry(f, {"V", "W", "U"})
  <2>1. /\ Movable(page) /\ frame' = [frame EXCEPT ![page] = f] /\ vsatp' = vsatp
        /\ ptab' = [ptab EXCEPT ![LeafTable(page)][vpn(page, 0)] = e]
    BY <1>4 DEF PageIn
  <2>2. f \in Frames /\ \A b \in RegionPages : frame[b] # f
    BY <1>4, FreeFrame DEF PageIn
  <2>3. f # 0
    BY <2>2, ZicfissAssumption
  <2>4. IsStackPage(e) /\ e.ppn = f
    BY DEF IsStackPage, PageTableEntry
  <2> HIDE DEF f, e
  <2>5. QED
    BY <2>1, <2>2, <2>3, <2>4, PageMoved
<1>5. CASE FaultHandled
  BY <1>5, PagesSame DEF FaultHandled, guestMemory, kernel
<1>6. CASE Restart
  BY <1>6, PagesSame DEF Restart, guestMemory, kernel
<1>7. CASE KernelEnable
  BY <1>7, PagesSame DEF KernelEnable, sbi_fwft_handler, guestMemory
<1>8. ASSUME NEW op, KernelCall(op) PROVE PagesInv'
  BY <1>8, PagesSame DEF KernelCall, instruction, kernel
<1>9. CASE UNCHANGED vars
  BY <1>9, PagesSame DEF vars, guestMemory, kernel
<1>10. QED
  BY <1>1, <1>2, <1>3, <1>4, <1>5, <1>6, <1>7, <1>8, <1>9, GuestSteps

LEMMA TypesStep == ASSUME TypeOK, [GuestNext]_vars PROVE TypeOK'
<1>1. CASE UNCHANGED vars
  BY <1>1, Zenon DEF TypeOK, vars, zicfiss, guestMemory, threads, kernel
<1>2. QED
  BY <1>1, GuestSteps, ExecuteTypes, SwitchTypes, PageOutTypes, PageInTypes, FaultHandledTypes,
     RestartTypes, KernelEnableTypes, KernelCallTypes

\* The tables and frames stay consistent: the hardware and both software
\* walks agree on every page, whatever the kernel moves and whether or not it
\* pins pages.
THEOREM GuestPagesInv == GuestSpec => [](TypeOK /\ PagesInv)
<1>1. GuestInit => TypeOK /\ PagesInv
  BY InitTypes, InitPages
<1>2. TypeOK /\ PagesInv /\ [GuestNext]_vars => (TypeOK /\ PagesInv)'
  BY TypesStep, PagesStep
<1>3. QED
  BY <1>1, <1>2, PTL DEF GuestSpec

\* TypeOK: whatever the threads push and the kernel moves, the words of shadow
\* stack pages are return addresses, and pointers are addresses (zicfiss.rs,
\* ss_push).
THEOREM GuestTypeOK == GuestSpec => []TypeOK
BY GuestPagesInv, PTL

----------------------------------------------------------------------------
(* What is on the stacks, when the kernel pins what a push may need        *)

EnableInv ==
    /\ henv_sse = FALSE
    /\ (cur \in uses /\ senv_sse = TRUE) \/ (cur \notin uses /\ senv_sse = FALSE)

\* A thread without a shadow stack.
PlainInv(t) == Sp(t) = 0 /\ calls[t] = <<>> /\ th[t] = "run"

\* A thread with one: only pops fault, and a check fails only for a wrong address.
CallsInv(t) ==
    /\ Len(calls[t]) <= Size[t]
    /\ th[t] # "run" => calls[t] # <<>> /\ todo[t][1] = "SSPOPCHK"
    /\ th[t] = "check" => todo[t][2] # calls[t][Len(calls[t])]
    /\ \A i \in 1..Len(calls[t]) : WordAt(Base[t] - i) = calls[t][i]

\* The pages a push may need are there, unless they never were.
PointerInv(t) ==
    /\ Sp(t) = Base[t] - Len(calls[t]) + (IF th[t] = "check" THEN 1 ELSE 0)
    /\ \A p \in Region(t) : Movable(p) /\ p * PAGE_WORDS < Sp(t) => Resident(p)

StackInv ==
    /\ EnableInv
    /\ \A t \in Thread \ uses : PlainInv(t)
    /\ \A t \in uses : CallsInv(t)
    /\ \A t \in uses : hart = "guest" \/ t # cur => PointerInv(t)
    /\ hart = "guest" \/ (cur \in Thread /\ th[cur] = "run")
    /\ astray = {}
    /\ StopsOnlyOnMissingPage

Inv == TypeOK /\ PagesInv /\ StackInv

\* The numbers of a thread with a shadow stack.
LEMMA UserFacts ==
    ASSUME Inv, NEW t \in uses
    PROVE  /\ t \in Thread /\ Base[t] \in 0..(WORDS - 1) /\ Size[t] \in Nat /\ Size[t] <= Base[t]
           /\ calls[t] \in Seq(Ra) /\ Len(calls[t]) \in Nat /\ Len(calls[t]) <= Size[t]
           /\ CallsInv(t)
           /\ hart = "guest" \/ t # cur => PointerInv(t)
           /\ Idle \notin uses
<1>1. t \in Thread
  BY DEF Inv, TypeOK
<1>2. Base[t] \in 0..(WORDS - 1) /\ Size[t] \in Nat /\ Size[t] <= Base[t]
  BY <1>1, GuestAssumption
<1>3. calls[t] \in Seq(Ra) /\ Len(calls[t]) \in Nat
  BY <1>1 DEF Inv, TypeOK
<1>4. CallsInv(t) /\ (hart = "guest" \/ t # cur => PointerInv(t))
  BY DEF Inv, StackInv
<1>5. Len(calls[t]) <= Size[t]
  BY <1>4 DEF CallsInv
<1>6. Idle \notin uses
  BY GuestAssumption DEF Inv, TypeOK, Idle
<1>7. QED
  BY <1>1, <1>2, <1>3, <1>4, <1>5, <1>6

LEMMA Enabled ==
    ASSUME Inv
    PROVE  (is_ss_enable(0) <=> cur \in uses) /\ ~is_ss_enable(1)
<1>1. (cur \in uses => senv_sse = TRUE) /\ (cur \notin uses => senv_sse = FALSE) /\ henv_sse = FALSE
  BY DEF Inv, StackInv, EnableInv
<1>2. is_ss_enable(0) = senv_sse /\ is_ss_enable(1) = henv_sse
  BY DEF is_ss_enable
<1>3. QED
  BY <1>1, <1>2, Zenon

\* A call of a thread with a shadow stack: the hypervisor stops, or the
\* address is stored one word further down.  It does not fault.
LEMMA UserPush ==
    ASSUME Inv, cur \in uses, th[cur] = "run", Len(calls[cur]) < Size[cur],
           NEW v \in Ra, Execute("SSPUSH", v),
           NEW s, s = Base[cur] - Len(calls[cur]) - 1
    PROVE  /\ s \in 0..(WORDS - 1) /\ PageOf(s) \in Region(cur) /\ ssp' = s
           /\ astray' = astray /\ th' = th
           /\ todo' = [todo EXCEPT ![cur] = NoInstruction]
           /\ \/ hart' = "panic" /\ mem' = mem /\ calls' = calls /\ ssp_hp_ptr(s) = Stop
              \/ /\ hart' = "guest" /\ Resident(PageOf(s))
                 /\ mem' = [mem EXCEPT ![frame[PageOf(s)]][Offset(s)] = v]
                 /\ calls' = [calls EXCEPT ![cur] = Append(calls[cur], v)]
<1> DEFINE n == Len(calls[cur])
           r == Result("SSPUSH", v, 0)
           h == ssp_hp_ptr(s)
<1>0. TypeOK /\ PagesInv
  BY DEF Inv
<1>1. hart = "guest"
  BY DEF Execute, instruction
<1>2. /\ cur \in Thread /\ Base[cur] \in 0..(WORDS - 1) /\ Size[cur] \in Nat /\ Size[cur] <= Base[cur]
      /\ n \in Nat /\ PointerInv(cur)
  BY <1>1, UserFacts
<1>3. ssp = Base[cur] - n /\ n < Size[cur] /\ s = ssp - 1 /\ s = Base[cur] - (n + 1)
  BY <1>2 DEF PointerInv, Sp
<1>4. ssp \in Nat /\ ssp < WORDS /\ ssp > 0 /\ s \in Nat /\ n + 1 \in 1..Size[cur]
  <2> DEFINE b == Base[cur]  z == Size[cur]  w == WORDS
  <2>1. /\ w \in Nat /\ b \in 0..(w - 1) /\ z \in Nat /\ z <= b /\ n \in Nat /\ n < z
        /\ ssp = b - n /\ s = b - (n + 1)
    BY <1>2, <1>3, Sizes
  <2> HIDE DEF b, z, w, n
  <2>2. ssp \in Nat /\ ssp < w /\ ssp > 0 /\ s \in Nat /\ n + 1 \in 1..z
    BY <2>1
  <2>3. QED
    BY <2>2 DEF z, w
<1>5. s \in 0..(WORDS - 1) /\ PageOf(s) \in Region(cur) /\ PageOf(s) \in RegionPages
  BY <1>2, <1>3, <1>4, RegionFacts
<1>6. Down(ssp) = s
  BY <1>3, <1>4, Moves
<1>7. is_ss_enable(0)
  BY Enabled
<1>8. /\ h \in Frames => Resident(PageOf(s)) /\ h = frame[PageOf(s)]
      /\ h = Fault => Movable(PageOf(s)) /\ ~Resident(PageOf(s))
      /\ h \in Frames \cup {Fault, Stop}
  BY <1>0, <1>5, WordFound
<1>9. h # Fault
  <2>1. SUFFICES ASSUME h = Fault PROVE FALSE
    OBVIOUS
  <2>2. Movable(PageOf(s)) /\ ~Resident(PageOf(s))
    BY <1>8, <2>1
  <2>3. Sp(cur) = ssp
    BY DEF Sp
  <2>4. PageOf(s) * PAGE_WORDS <= s /\ PageOf(s) * PAGE_WORDS \in Int
    BY <1>4, PageStarts
  <2>6. PageOf(s) * PAGE_WORDS < Sp(cur)
    BY <1>3, <1>4, <2>3, <2>4
  <2>7. QED
    BY <1>2, <1>5, <2>2, <2>6 DEF PointerInv
<1>10. Fault # Stop /\ Stop \notin Frames
  BY ZicfissAssumption DEF Fault, Stop
<1>11. r = IF h = Stop THEN "panic" ELSE "ok"
  BY <1>6, <1>7, <1>8, <1>9, <1>10 DEF Result
<1>12. /\ instruction("SSPUSH", v, 0)
       /\ th' = [th EXCEPT ![cur] = IF r \in {"fault", "check"} THEN r ELSE "run"]
       /\ todo' = [todo EXCEPT ![cur] =
                      IF r \in {"fault", "check"} THEN <<"SSPUSH", v>> ELSE NoInstruction]
       /\ calls' = [calls EXCEPT ![cur] =
                       IF ~(r = "ok" /\ cur \in uses) THEN calls[cur] ELSE Append(calls[cur], v)]
       /\ astray' = astray
  BY DEF Execute
<1>13. ss_push(v) /\ hart' = IF r = "panic" THEN "panic" ELSE "guest"
  BY <1>7, <1>12 DEF instruction
<1>14. ssp' = s /\ mem' = IF h \in Frames THEN [mem EXCEPT ![h][Offset(s)] = v] ELSE mem
  BY <1>6, <1>13 DEF ss_push
<1> HIDE DEF r, h
<1>15. th \in [Thread -> {"run", "fault", "retry", "check"}] /\ calls \in [Thread -> Seq(Ra)]
  BY <1>0 DEF TypeOK
<1>16. th' = th
  BY <1>2, <1>11, <1>12, <1>15
<1>17. CASE h = Stop
  <2>1. calls' = calls
    BY <1>2, <1>11, <1>12, <1>15, <1>17
  <2>2. QED
    BY <1>5, <1>10, <1>11, <1>12, <1>13, <1>14, <1>16, <1>17, <2>1 DEF h
<1>18. CASE h # Stop
  <2>1. h \in Frames /\ r = "ok"
    BY <1>8, <1>9, <1>11, <1>18
  <2>2. Resident(PageOf(s)) /\ h = frame[PageOf(s)]
    BY <1>8, <2>1
  <2>3. calls' = [calls EXCEPT ![cur] = Append(calls[cur], v)]
    BY <1>12, <2>1
  <2>4. QED
    BY <1>5, <1>12, <1>13, <1>14, <1>16, <2>1, <2>2, <2>3
<1>19. QED
  BY <1>17, <1>18

\* A return of a thread with a shadow stack: the hypervisor stops, the page is
\* not there, or the word is compared with the address of the last call.
LEMMA UserPop ==
    ASSUME Inv, cur \in uses, th[cur] \in {"run", "retry"}, calls[cur] # <<>>,
           NEW v \in Ra, Execute("SSPOPCHK", v), NEW n, n = Len(calls[cur]),
           NEW s, s = Base[cur] - n
    PROVE  /\ n \in Nat \ {0} /\ s = ssp
           /\ s \in 0..(WORDS - 1) /\ PageOf(s) \in Region(cur)
           /\ mem' = mem /\ astray' = astray
           /\ \/ /\ hart' = "panic" /\ ssp_hp_ptr(s) = Stop
                 /\ ssp' = s /\ calls' = calls
                 /\ th' = [th EXCEPT ![cur] = "run"] /\ todo' = [todo EXCEPT ![cur] = NoInstruction]
              \/ /\ hart' = "guest" /\ ssp' = s /\ calls' = calls
                 /\ th' = [th EXCEPT ![cur] = "fault"]
                 /\ todo' = [todo EXCEPT ![cur] = <<"SSPOPCHK", v>>]
              \/ /\ hart' = "guest" /\ Resident(PageOf(s)) /\ v = calls[cur][n]
                 /\ ssp' = s + 1 /\ calls' = [calls EXCEPT ![cur] = SubSeq(calls[cur], 1, n - 1)]
                 /\ th' = [th EXCEPT ![cur] = "run"] /\ todo' = [todo EXCEPT ![cur] = NoInstruction]
              \/ /\ hart' = "guest" /\ Resident(PageOf(s)) /\ v # calls[cur][n]
                 /\ ssp' = s + 1 /\ calls' = calls
                 /\ th' = [th EXCEPT ![cur] = "check"]
                 /\ todo' = [todo EXCEPT ![cur] = <<"SSPOPCHK", v>>]
<1> DEFINE r == Result("SSPOPCHK", v, 0)
           h == ssp_hp_ptr(s)
<1>0. TypeOK /\ PagesInv
  BY DEF Inv
<1>1. hart = "guest"
  BY DEF Execute, instruction
<1>2. /\ cur \in Thread /\ Base[cur] \in 0..(WORDS - 1) /\ Size[cur] \in Nat /\ Size[cur] <= Base[cur]
      /\ n \in Nat /\ n <= Size[cur] /\ PointerInv(cur) /\ CallsInv(cur) /\ calls[cur] \in Seq(Ra)
  BY <1>1, UserFacts
<1>3. n # 0
  BY <1>2
<1>4. ssp = s
  BY <1>2 DEF PointerInv, Sp
<1>5. s \in 0..(WORDS - 1) /\ PageOf(s) \in Region(cur) /\ PageOf(s) \in RegionPages
  BY <1>2, <1>3, RegionFacts
<1>6. Up(s) = s + 1
  <2>1. s \in Nat /\ s < WORDS /\ s + 1 < WORDS
    BY <1>2, <1>3, <1>5, Sizes
  <2>2. QED
    BY <2>1, Moves
<1>7. is_ss_enable(0)
  BY Enabled
<1>8. /\ h \in Frames => Resident(PageOf(s)) /\ h = frame[PageOf(s)]
      /\ h \in Frames \cup {Fault, Stop}
  BY <1>0, <1>5, WordFound
<1>9. Fault # Stop /\ Stop \notin Frames /\ Fault \notin Frames
  BY ZicfissAssumption DEF Fault, Stop
<1>10. h \in Frames => Popped = calls[cur][n]
  <2>1. n \in 1..Len(calls[cur])
    BY <1>2, <1>3
  <2>2. WordAt(s) = calls[cur][n]
    BY <1>2, <2>1 DEF CallsInv
  <2>3. h \in Frames => Popped = WordAt(s)
    BY <1>4, <1>8 DEF Popped, WordAt
  <2>4. QED
    BY <2>2, <2>3
<1>11. r = IF h = Stop THEN "panic" ELSE IF h = Fault THEN "fault"
           ELSE IF calls[cur][n] # v THEN "check" ELSE "ok"
  <2>1. r = IF h = Stop THEN "panic" ELSE IF h = Fault THEN "fault"
            ELSE IF Popped # v THEN "check" ELSE "ok"
    BY <1>4, <1>7 DEF Result
  <2> HIDE DEF r, h
  <2>2. QED
    BY <1>8, <1>10, <2>1
<1>12. /\ instruction("SSPOPCHK", v, 0)
       /\ th' = [th EXCEPT ![cur] = IF r \in {"fault", "check"} THEN r ELSE "run"]
       /\ todo' = [todo EXCEPT ![cur] =
                      IF r \in {"fault", "check"} THEN <<"SSPOPCHK", v>> ELSE NoInstruction]
       /\ calls' = [calls EXCEPT ![cur] =
                       IF ~(r = "ok" /\ cur \in uses) THEN calls[cur] ELSE SubSeq(calls[cur], 1, n - 1)]
       /\ astray' = IF (r = "ok" /\ cur \in uses) /\ v # calls[cur][n]
                    THEN astray \cup {cur} ELSE astray
  BY DEF Execute
<1>13. ss_pop /\ hart' = IF r = "panic" THEN "panic" ELSE "guest"
  BY <1>7, <1>12 DEF instruction
<1>14. ssp' = (IF h \in Frames THEN s + 1 ELSE s) /\ mem' = mem
  BY <1>4, <1>6, <1>13 DEF ss_pop
<1> HIDE DEF r, h
<1>15. calls \in [Thread -> Seq(Ra)]
  BY <1>0 DEF TypeOK
<1>16. [calls EXCEPT ![cur] = calls[cur]] = calls
  BY <1>2, <1>15
<1>17. astray' = astray
  BY <1>11, <1>12
<1>18. CASE h = Stop
  BY <1>2, <1>3, <1>4, <1>5, <1>9, <1>11, <1>12, <1>13, <1>14, <1>16, <1>17, <1>18 DEF h
<1>19. CASE h = Fault
  BY <1>2, <1>3, <1>4, <1>5, <1>9, <1>11, <1>12, <1>13, <1>14, <1>16, <1>17, <1>19
<1>20. CASE h \in Frames /\ v = calls[cur][n]
  BY <1>2, <1>3, <1>4, <1>5, <1>8, <1>9, <1>11, <1>12, <1>13, <1>14, <1>17, <1>20
<1>21. CASE h \in Frames /\ v # calls[cur][n]
  BY <1>2, <1>3, <1>4, <1>5, <1>8, <1>9, <1>11, <1>12, <1>13, <1>14, <1>16, <1>17, <1>21
<1>22. QED
  BY <1>8, <1>18, <1>19, <1>20, <1>21

\* The instructions of a thread without a shadow stack do nothing, and so do
\* the kernel's.
LEMMA PlainExecutes ==
    ASSUME Inv, cur \in Thread \ uses, NEW op, NEW v, Execute(op, v)
    PROVE  UNCHANGED <<ssp, mem, hart, th, calls, astray>> /\ todo' = [todo EXCEPT ![cur] = NoInstruction]
<1>1. ~is_ss_enable(0)
  BY Enabled
<1>2. Result(op, v, 0) = "ok"
  BY <1>1 DEF Result
<1>3. /\ instruction(op, v, 0)
      /\ th' = [th EXCEPT ![cur] = "run"] /\ todo' = [todo EXCEPT ![cur] = NoInstruction]
      /\ calls' = [calls EXCEPT ![cur] = calls[cur]] /\ astray' = astray
  BY <1>2 DEF Execute
<1>4. th[cur] = "run"
  BY DEF Inv, StackInv, PlainInv
<1>5. th \in [Thread -> {"run", "fault", "retry", "check"}] /\ calls \in [Thread -> Seq(Ra)]
  BY DEF Inv, TypeOK
<1>6. th' = th /\ calls' = calls
  BY <1>3, <1>4, <1>5
<1>7. UNCHANGED <<ssp, mem, hart>>
  BY <1>1, <1>2, <1>3 DEF instruction
<1>8. QED
  BY <1>3, <1>6, <1>7

LEMMA KernelExecutes ==
    ASSUME Inv, NEW op, KernelCall(op)
    PROVE  UNCHANGED <<ssp, mem, hart, henv_sse, senv_sse, vsatp, ptab, threads, kernel>>
<1>1. ~is_ss_enable(1)
  BY Enabled
<1>2. PICK v \in Ra : instruction(op, v, 1)
  BY DEF KernelCall
<1>3. Result(op, v, 1) = "ok"
  BY <1>1 DEF Result
<1>4. QED
  BY <1>1, <1>2, <1>3 DEF instruction, KernelCall

----------------------------------------------------------------------------
(* The words on the stacks                                                 *)

\* A store changes the word it goes to and no other.
LEMMA WordStored ==
    ASSUME TypeOK, PagesInv, NEW s \in Nat, PageOf(s) \in RegionPages, Resident(PageOf(s)), NEW v,
           mem' = [mem EXCEPT ![frame[PageOf(s)]][Offset(s)] = v], UNCHANGED <<frame, swap>>
    PROVE  /\ WordAt(s)' = v
           /\ \A x \in Nat : x # s /\ PageOf(x) \in RegionPages => WordAt(x)' = WordAt(x)
<1> DEFINE f == frame[PageOf(s)]
           o == Offset(s)
<1>1. f \in Frames
  BY DEF TypeOK, Resident
<1>2. o \in 0..(PAGE_WORDS - 1)
  BY WordFacts
<1>3. mem \in [Frames -> [0..(PAGE_WORDS - 1) -> Ra \cup {0}]]
  BY DEF TypeOK
<1>4. mem' = [mem EXCEPT ![f][o] = v]
  OBVIOUS
<1> HIDE DEF f, o
<1>5. /\ mem'[f][o] = v
      /\ \A g \in Frames : g # f => mem'[g] = mem[g]
      /\ \A k \in 0..(PAGE_WORDS - 1) : k # o => mem'[f][k] = mem[f][k]
  <2>1. DOMAIN mem = Frames /\ DOMAIN mem[f] = 0..(PAGE_WORDS - 1)
    BY <1>1, <1>3
  <2>2. mem'[f] = [mem[f] EXCEPT ![o] = v] /\ \A g \in Frames : g # f => mem'[g] = mem[g]
    BY <1>1, <1>4, <2>1
  <2>3. mem'[f][o] = v
    BY <1>2, <2>1, <2>2
  <2>4. \A k \in 0..(PAGE_WORDS - 1) : k # o => mem'[f][k] = mem[f][k]
    <3> DEFINE old == mem[f]
               new == mem'[f]
    <3>1. new = [old EXCEPT ![o] = v] /\ DOMAIN old = 0..(PAGE_WORDS - 1)
      BY <2>1, <2>2
    <3> HIDE DEF old, new
    <3>2. \A k \in 0..(PAGE_WORDS - 1) : k # o => new[k] = old[k]
      BY <3>1
    <3>3. QED
      BY <3>2 DEF old, new
  <2>5. QED
    BY <2>2, <2>3, <2>4
<1>6. WordAt(s)' = v
  <2>1. WordAt(s)' = mem'[f][o]
    BY DEF WordAt, Resident, f, o
  <2>2. QED
    BY <1>5, <2>1
<1>7. ASSUME NEW x \in Nat, x # s, PageOf(x) \in RegionPages PROVE WordAt(x)' = WordAt(x)
  <2> DEFINE a == PageOf(x)
             k == Offset(x)
  <2>1. /\ WordAt(x)' = IF frame[a] # 0 THEN mem'[frame[a]][k] ELSE swap[a][k]
        /\ WordAt(x) = IF frame[a] # 0 THEN mem[frame[a]][k] ELSE swap[a][k]
    BY DEF WordAt, Resident
  <2>2. frame[a] \in Frames \cup {0}
    BY <1>7 DEF TypeOK
  <2>3. k \in 0..(PAGE_WORDS - 1)
    BY WordFacts
  <2>4. frame[a] = f => k # o
    <3>1. SUFFICES ASSUME frame[a] = f, k = o PROVE FALSE
      OBVIOUS
    <3>2. a = PageOf(s)
      BY <1>7, <3>1 DEF PagesInv, f
    <3>3. QED
      BY <1>7, <3>1, <3>2, SameWord DEF o
  <2> HIDE DEF a, k
  <2>5. QED
    BY <1>5, <2>1, <2>2, <2>3, <2>4
<1>8. QED
  BY <1>6, <1>7

\* A page that moves takes its words along.
LEMMA WordsMoved ==
    ASSUME TypeOK, PagesInv, NEW page \in RegionPages, PageOut(page) \/ PageIn(page),
           NEW x \in Nat, PageOf(x) \in RegionPages
    PROVE  WordAt(x)' = WordAt(x)
<1> DEFINE a == PageOf(x)
           k == Offset(x)
<1>1. /\ WordAt(x)' = IF frame'[a] # 0 THEN mem'[frame'[a]][k] ELSE swap'[a][k]
      /\ WordAt(x) = IF frame[a] # 0 THEN mem[frame[a]][k] ELSE swap[a][k]
  BY DEF WordAt, Resident
<1>2. /\ frame \in [RegionPages -> Frames \cup {0}] /\ DOMAIN mem = Frames /\ DOMAIN swap = RegionPages
      /\ 0 \notin Frames
  BY ZicfissAssumption DEF TypeOK
<1>3. a # page /\ frame[a] # 0 => frame[a] # frame[page]
  BY DEF PagesInv, Resident
<1>4. a \in RegionPages
  OBVIOUS
<1> HIDE DEF a, k
<1>5. CASE PageOut(page)
  <2>1. /\ swap' = [swap EXCEPT ![page] = mem[frame[page]]]
        /\ mem' = [mem EXCEPT ![frame[page]] = EmptyPage]
        /\ frame' = [frame EXCEPT ![page] = 0] /\ frame[page] # 0
    BY <1>5 DEF PageOut, Resident
  <2>2. CASE a = page
    BY <1>1, <1>2, <1>4, <2>1, <2>2
  <2>3. CASE a # page
    <3>1. frame'[a] = frame[a] /\ swap'[a] = swap[a]
      BY <1>2, <1>4, <2>1, <2>3
    <3>2. frame[a] # 0 => mem'[frame[a]] = mem[frame[a]]
      BY <1>2, <1>3, <1>4, <2>1, <2>3
    <3>3. QED
      BY <1>1, <3>1, <3>2
  <2>4. QED
    BY <2>2, <2>3
<1>6. CASE PageIn(page)
  <2> DEFINE f == Min(FreeFrames)
  <2>1. /\ mem' = [mem EXCEPT ![f] = swap[page]]
        /\ frame' = [frame EXCEPT ![page] = f]
        /\ swap' = [swap EXCEPT ![page] = EmptyPage]
        /\ frame[page] = 0
    BY <1>6 DEF PageIn, Resident
  <2>2. f \in Frames /\ \A b \in RegionPages : frame[b] # f
    BY <1>6, FreeFrame DEF PageIn
  <2> HIDE DEF f
  <2>3. CASE a = page
    BY <1>1, <1>2, <1>4, <2>1, <2>2, <2>3
  <2>4. CASE a # page
    <3>1. frame'[a] = frame[a] /\ swap'[a] = swap[a]
      BY <1>2, <1>4, <2>1, <2>4
    <3>2. frame[a] # 0 => mem'[frame[a]] = mem[frame[a]]
      BY <1>2, <1>4, <2>1, <2>2
    <3>3. QED
      BY <1>1, <3>1, <3>2
  <2>5. QED
    BY <2>3, <2>4
<1>7. QED
  BY <1>5, <1>6

\* The words of different threads, and of different calls, are different words.
LEMMA DifferentWords ==
    ASSUME NEW t \in Thread, NEW u \in Thread, NEW i \in 1..Size[t], NEW j \in 1..Size[u],
           t # u \/ i # j
    PROVE  Base[t] - i # Base[u] - j
<1>1. /\ Base[t] \in Nat /\ Base[u] \in Nat /\ Size[t] \in Nat /\ Size[u] \in Nat
      /\ t = u \/ Base[t] <= Base[u] - Size[u] \/ Base[u] <= Base[t] - Size[t]
  BY GuestAssumption, Sizes
<1>2. CASE t = u
  BY <1>1, <1>2
<1>3. CASE t # u
  <2> DEFINE b == Base[t]  c == Base[u]  y == Size[t]  z == Size[u]
  <2>1. b \in Nat /\ c \in Nat /\ y \in Nat /\ z \in Nat /\ (b <= c - z \/ c <= b - y)
        /\ i \in 1..y /\ j \in 1..z
    BY <1>1, <1>3
  <2> HIDE DEF b, c, y, z
  <2>2. b - i # c - j
    BY <2>1
  <2>3. QED
    BY <2>2 DEF b, c
<1>4. QED
  BY <1>2, <1>3

\* A thread that does nothing keeps what it has, as long as its words stay.
LEMMA CallsKept ==
    ASSUME NEW t, CallsInv(t), calls'[t] = calls[t], th'[t] = th[t], todo'[t] = todo[t],
           \A i \in 1..Len(calls[t]) : WordAt(Base[t] - i)' = WordAt(Base[t] - i)
    PROVE  CallsInv(t)'
BY DEF CallsInv

LEMMA PointerKept ==
    ASSUME NEW t, PointerInv(t), calls'[t] = calls[t], (th'[t] = "check") = (th[t] = "check"),
           Sp(t)' = Sp(t),
           UNCHANGED <<vsatp, ptab, frame>>
    PROVE  PointerInv(t)'
BY DEF PointerInv, Movable, LeafTable, WalkTo, Resident

LEMMA WordsSame ==
    ASSUME NEW x, UNCHANGED <<frame, swap, mem>> PROVE WordAt(x)' = WordAt(x)
BY DEF WordAt, Resident

----------------------------------------------------------------------------
(* Each step keeps the stacks                                              *)

LEMMA StackInit == ASSUME GuestInit PROVE StackInv
<1>1. /\ uses \subseteq Thread /\ cur = Idle /\ Idle \notin Thread /\ hart = "guest"
      /\ saved = [t \in Thread |-> IF t \in uses THEN Base[t] ELSE 0]
      /\ th = [t \in Thread |-> "run"] /\ calls = [t \in Thread |-> <<>>] /\ astray = {}
  BY GuestAssumption DEF GuestInit, Idle
<1>2. EnableInv
  <2>1. henv_sse = FALSE /\ senv_sse = FALSE
    BY DEF GuestInit, ZicfissInit
  <2>2. ~(cur \in uses)
    BY <1>1
  <2>3. QED
    BY <2>1, <2>2 DEF EnableInv
<1>3. \A t \in Thread \ uses : PlainInv(t)
  BY <1>1 DEF PlainInv, Sp
<1>4. ASSUME NEW t \in uses PROVE CallsInv(t) /\ PointerInv(t)
  <2>1. t \in Thread /\ calls[t] = <<>> /\ th[t] = "run" /\ Len(calls[t]) = 0 /\ Sp(t) = Base[t]
    BY <1>1 DEF Sp
  <2>2. Size[t] \in Nat /\ Base[t] \in Nat
    BY <2>1, GuestAssumption, Sizes
  <2>3. CallsInv(t)
    BY <2>1, <2>2 DEF CallsInv
  <2>4. \A p \in Region(t) : Movable(p) => Resident(p)
    BY <2>1, InitPlaced, RegionFacts
  <2>5. PointerInv(t)
    BY <2>1, <2>2, <2>4 DEF PointerInv
  <2>6. QED
    BY <2>3, <2>5
<1>5. StopsOnlyOnMissingPage
  BY <1>1 DEF StopsOnlyOnMissingPage
<1>6. QED
  BY <1>1, <1>2, <1>3, <1>4, <1>5 DEF StackInv

\* A step that leaves pointers, calls and memory alone.
LEMMA StackSame ==
    ASSUME Inv, UNCHANGED <<ssp, saved, cur, uses, th, calls, astray, hart, henv_sse, senv_sse>>,
           UNCHANGED <<mem, vsatp, ptab, frame, swap>>, \A t \in uses : todo'[t] = todo[t]
    PROVE  StackInv'
<1>1. EnableInv'
  BY Zenon DEF Inv, StackInv, EnableInv
<1>2. \A t \in Thread \ uses' : PlainInv(t)'
  BY DEF Inv, StackInv, PlainInv, Sp
<1>3. ASSUME NEW t \in uses' PROVE CallsInv(t)' /\ (hart' = "guest" \/ t # cur' => PointerInv(t)')
  <2>1. t \in uses /\ CallsInv(t) /\ (hart = "guest" \/ t # cur => PointerInv(t))
    BY DEF Inv, StackInv
  <2>2. CallsInv(t)'
    BY <2>1, WordsSame, CallsKept
  <2>3. Sp(t)' = Sp(t)
    BY DEF Sp
  <2>4. QED
    BY <2>1, <2>2, <2>3, PointerKept
<1>4. astray' = {}
  BY DEF Inv, StackInv
<1>5. StopsOnlyOnMissingPage'
  BY DEF Inv, StackInv, StopsOnlyOnMissingPage, WalkTo, LeafTable
<1>6. hart' = "guest" \/ (cur' \in Thread /\ th'[cur'] = "run")
  BY DEF Inv, StackInv
<1>7. QED
  BY <1>1, <1>2, <1>3, <1>4, <1>5, <1>6 DEF StackInv

LEMMA SwitchStack == ASSUME Inv, NEW t \in Thread, Switch(t) PROVE StackInv'
<1>1. /\ hart = "guest" /\ t # cur /\ ssp' = saved[t] /\ cur' = t
      /\ saved' = [u \in Thread |-> IF u = cur THEN ssp ELSE saved[u]]
      /\ UNCHANGED <<henv_sse, vsatp, ptab, mem, hart, th, todo, calls, astray, uses, frame, swap>>
  BY DEF Switch, csr, virtual_instruction, guestMemory, threads
<1>2. EnableInv'
  <2>1. t \in uses => senv_sse' = TRUE
    BY DEF Switch, virtual_instruction, csr_field
  <2>2. t \notin uses => senv_sse' = FALSE
    BY DEF Switch, virtual_instruction, csr_field
  <2>3. henv_sse' = FALSE
    BY <1>1, Zenon DEF Inv, StackInv, EnableInv
  <2>4. QED
    BY <1>1, <2>1, <2>2, <2>3 DEF EnableInv
<1>3. ASSUME NEW u \in Thread PROVE Sp(u)' = Sp(u)
  BY <1>1 DEF Sp
<1>4. \A u \in Thread \ uses' : PlainInv(u)'
  BY <1>1, <1>3 DEF Inv, StackInv, PlainInv
<1>5. ASSUME NEW u \in uses' PROVE CallsInv(u)' /\ PointerInv(u)'
  <2>1. u \in uses /\ u \in Thread /\ CallsInv(u) /\ PointerInv(u)
    BY <1>1, UserFacts
  <2>2. CallsInv(u)'
    BY <1>1, <2>1, WordsSame, CallsKept
  <2>3. PointerInv(u)'
    BY <1>1, <1>3, <2>1, PointerKept
  <2>4. QED
    BY <2>2, <2>3
<1>6. astray' = {} /\ StopsOnlyOnMissingPage'
  BY <1>1 DEF Inv, StackInv, StopsOnlyOnMissingPage
<1>7. QED
  BY <1>1, <1>2, <1>4, <1>5, <1>6 DEF StackInv

\* A page moves.  Only a page that no push needs moves out.
LEMMA MoveStack ==
    ASSUME Pinned, Inv, NEW page \in RegionPages, PageOut(page) \/ PageIn(page)
    PROVE  StackInv'
<1>0. TypeOK /\ PagesInv
  BY DEF Inv
<1>1. /\ hart = "guest" /\ Movable(page)
      /\ UNCHANGED <<ssp, henv_sse, senv_sse, vsatp, hart, th, todo, calls, astray, cur, uses, saved>>
  BY DEF PageOut, PageIn, zicfiss, threads
<1>2. EnableInv'
  BY <1>1, Zenon DEF Inv, StackInv, EnableInv
<1>3. ASSUME NEW u \in Thread PROVE Sp(u)' = Sp(u)
  BY <1>1 DEF Sp
<1>4. \A u \in Thread \ uses' : PlainInv(u)'
  BY <1>1, <1>3 DEF Inv, StackInv, PlainInv
<1>5. ASSUME NEW u \in uses' PROVE CallsInv(u)'
  <2>1. u \in uses /\ u \in Thread /\ CallsInv(u) /\ Len(calls[u]) \in Nat /\ Len(calls[u]) <= Size[u]
        /\ Size[u] \in Nat
    BY <1>1, UserFacts
  <2>2. ASSUME NEW i \in 1..Len(calls[u]) PROVE WordAt(Base[u] - i)' = WordAt(Base[u] - i)
    <3>1. i \in 1..Size[u]
      BY <2>1
    <3>2. Base[u] - i \in Nat /\ PageOf(Base[u] - i) \in RegionPages
      BY <2>1, <3>1, RegionFacts, Sizes
    <3>3. QED
      BY <1>0, <3>2, WordsMoved
  <2>3. QED
    BY <1>1, <2>1, <2>2, CallsKept
<1>6. ASSUME NEW a \in RegionPages PROVE Movable(a)' <=> Movable(a)
  <2>1. PICK e : ptab' = [ptab EXCEPT ![LeafTable(page)][vpn(page, 0)] = e]
    BY DEF PageOut, PageIn
  <2>2. \A l \in 0..4 : WalkTo(a)'[l].table = WalkTo(a)[l].table
    BY <1>0, <1>1, <2>1, EntrySet, Zenon
  <2>3. QED
    BY <2>2 DEF Movable, LeafTable
<1>7. ASSUME NEW u \in uses' PROVE PointerInv(u)'
  <2>1. u \in uses /\ u \in Thread /\ PointerInv(u)
    BY <1>1, UserFacts
  <2>2. frame \in [RegionPages -> Frames \cup {0}] /\ 0 \notin Frames
    BY <1>0, ZicfissAssumption DEF TypeOK
  <2>3. ASSUME NEW p \in Region(u), Movable(p)', p * PAGE_WORDS < Sp(u)' PROVE Resident(p)'
    <3>1. p \in RegionPages /\ p \in Nat
      BY <2>1, RegionFacts
    <3>2. Movable(p) /\ p * PAGE_WORDS < Sp(u)
      BY <1>3, <1>6, <2>1, <2>3, <3>1
    <3>3. Resident(p)
      BY <2>1, <3>2 DEF PointerInv
    <3>4. CASE PageOut(page)
      <4>1. p # page
        <5>1. SUFFICES ASSUME p = page PROVE FALSE
          OBVIOUS
        <5>2. p * PAGE_WORDS >= Sp(u)
          BY <2>1, <3>4, <5>1 DEF PageOut, MayMoveOut
        <5>3. p * PAGE_WORDS \in Int /\ Sp(u) \in Int
          BY <1>0, <2>1, <3>1, Sizes DEF Sp, TypeOK
        <5>4. QED
          BY <3>2, <5>2, <5>3
      <4>2. frame' = [frame EXCEPT ![page] = 0]
        BY <3>4 DEF PageOut
      <4>3. QED
        BY <2>2, <3>1, <3>3, <4>1, <4>2 DEF Resident
    <3>5. CASE PageIn(page)
      <4>1. frame' = [frame EXCEPT ![page] = Min(FreeFrames)] /\ Min(FreeFrames) \in Frames
        BY <3>5, FreeFrame DEF PageIn
      <4>2. QED
        BY <2>2, <3>1, <3>3, <4>1 DEF Resident
    <3>6. QED
      BY <3>4, <3>5
  <2>4. Sp(u)' = Base[u] - Len(calls'[u]) + (IF th'[u] = "check" THEN 1 ELSE 0)
    BY <1>1, <1>3, <2>1 DEF PointerInv
  <2>5. QED
    BY <2>3, <2>4 DEF PointerInv
<1>8. astray' = {} /\ StopsOnlyOnMissingPage'
  BY <1>1 DEF Inv, StackInv, StopsOnlyOnMissingPage
<1>9. QED
  BY <1>1, <1>2, <1>4, <1>5, <1>7, <1>8 DEF StackInv

LEMMA FaultHandledStack == ASSUME Inv, FaultHandled PROVE StackInv'
<1>1. /\ hart = "guest" /\ cur \in Thread /\ th[cur] = "fault" /\ th' = [th EXCEPT ![cur] = "retry"]
      /\ UNCHANGED <<ssp, henv_sse, senv_sse, vsatp, ptab, mem, hart, todo, calls, astray>>
      /\ UNCHANGED <<cur, uses, saved, frame, swap>>
  BY DEF FaultHandled, zicfiss, guestMemory, kernel, Inv, TypeOK
<1>2. EnableInv'
  BY <1>1, Zenon DEF Inv, StackInv, EnableInv
<1>3. cur \in uses
  BY <1>1 DEF Inv, StackInv, PlainInv
<1>4. th \in [Thread -> {"run", "fault", "retry", "check"}]
  BY DEF Inv, TypeOK
<1>5. ASSUME NEW u \in Thread PROVE Sp(u)' = Sp(u)
  BY <1>1 DEF Sp
<1>6. \A u \in Thread : u # cur => th'[u] = th[u]
  BY <1>1, <1>4
<1>7. \A u \in Thread \ uses' : PlainInv(u)'
  BY <1>1, <1>3, <1>5, <1>6 DEF Inv, StackInv, PlainInv
<1>8. ASSUME NEW u \in uses' PROVE CallsInv(u)' /\ PointerInv(u)'
  <2>1. u \in uses /\ u \in Thread /\ CallsInv(u) /\ PointerInv(u)
    BY <1>1, UserFacts
  <2>2. (th'[u] = "check") = (th[u] = "check")
    BY <1>1, <1>4, <1>6, <2>1
  <2>3. CASE u = cur
    <3>1. th[u] # "run" /\ th'[u] = "retry"
      BY <1>1, <1>4, <2>3
    <3>2. CallsInv(u)'
      BY <1>1, <2>1, <3>1, WordsSame DEF CallsInv
    <3>3. QED
      BY <1>1, <1>5, <2>1, <2>2, <3>2, PointerKept
  <2>4. CASE u # cur
    BY <1>1, <1>5, <1>6, <2>1, <2>2, <2>4, WordsSame, CallsKept, PointerKept
  <2>5. QED
    BY <2>3, <2>4
<1>9. astray' = {} /\ StopsOnlyOnMissingPage'
  BY <1>1 DEF Inv, StackInv, StopsOnlyOnMissingPage
<1>10. QED
  BY <1>1, <1>2, <1>7, <1>8, <1>9 DEF StackInv

LEMMA RestartStack == ASSUME Pinned, Inv, Restart PROVE StackInv'
<1>1. /\ hart = "guest" /\ cur \in Thread /\ th[cur] = "check" /\ ssp' = Base[cur]
      /\ \A p \in Region(cur) : Resident(p)
      /\ th' = [th EXCEPT ![cur] = "run"] /\ calls' = [calls EXCEPT ![cur] = <<>>]
      /\ todo' = [todo EXCEPT ![cur] = NoInstruction]
      /\ UNCHANGED <<henv_sse, senv_sse, vsatp, ptab, mem, hart, astray>>
      /\ UNCHANGED <<cur, uses, saved, frame, swap>>
  BY DEF Restart, csr, guestMemory, kernel, Inv, TypeOK
<1>2. EnableInv'
  BY <1>1, Zenon DEF Inv, StackInv, EnableInv
<1>3. cur \in uses
  BY <1>1 DEF Inv, StackInv, PlainInv
<1>4. /\ th \in [Thread -> {"run", "fault", "retry", "check"}] /\ calls \in [Thread -> Seq(Ra)]
      /\ DOMAIN todo = Thread
  BY DEF Inv, TypeOK
<1>5. \A u \in Thread : u # cur =>
          Sp(u)' = Sp(u) /\ th'[u] = th[u] /\ calls'[u] = calls[u] /\ todo'[u] = todo[u]
  BY <1>1, <1>4 DEF Sp
<1>6. \A u \in Thread \ uses' : PlainInv(u)'
  BY <1>1, <1>3, <1>5 DEF Inv, StackInv, PlainInv
<1>7. ASSUME NEW u \in uses' PROVE CallsInv(u)' /\ PointerInv(u)'
  <2>1. /\ u \in uses /\ u \in Thread /\ CallsInv(u) /\ PointerInv(u)
        /\ Size[u] \in Nat /\ Base[u] \in 0..(WORDS - 1)
    BY <1>1, UserFacts
  <2>2. CASE u = cur
    <3>1. th'[u] = "run" /\ calls'[u] = <<>> /\ Len(calls'[u]) = 0
      BY <1>1, <1>4, <2>2
    <3>2. CallsInv(u)'
      BY <2>1, <3>1 DEF CallsInv
    <3>3. Sp(u)' = Base[u]
      BY <1>1, <2>2 DEF Sp
    <3>4. \A p \in Region(u) : Resident(p)'
      BY <1>1, <2>2 DEF Resident
    <3>5. PointerInv(u)'
      BY <2>1, <3>1, <3>3, <3>4 DEF PointerInv
    <3>6. QED
      BY <3>2, <3>5
  <2>3. CASE u # cur
    BY <1>1, <1>5, <2>1, <2>3, WordsSame, CallsKept, PointerKept
  <2>4. QED
    BY <2>2, <2>3
<1>8. astray' = {} /\ StopsOnlyOnMissingPage'
  BY <1>1 DEF Inv, StackInv, StopsOnlyOnMissingPage
<1>9. QED
  BY <1>1, <1>2, <1>6, <1>7, <1>8 DEF StackInv

\* What a step of the running thread must show; the other threads follow.
LEMMA RunningThread ==
    ASSUME Inv, cur \in uses, hart = "guest",
           UNCHANGED <<henv_sse, senv_sse, vsatp, ptab, cur, uses, saved, frame, swap>>,
           astray' = astray, NEW x, NEW y, NEW z,
           th' = [th EXCEPT ![cur] = x], todo' = [todo EXCEPT ![cur] = y],
           calls' = [calls EXCEPT ![cur] = z],
           \A u \in uses : u # cur =>
               \A i \in 1..Len(calls[u]) : WordAt(Base[u] - i)' = WordAt(Base[u] - i),
           CallsInv(cur)', hart' = "guest" => PointerInv(cur)', hart' = "guest" \/ x = "run",
           StopsOnlyOnMissingPage'
    PROVE  StackInv'
<1>1. EnableInv'
  BY Zenon DEF Inv, StackInv, EnableInv
<1>2. /\ th \in [Thread -> {"run", "fault", "retry", "check"}] /\ calls \in [Thread -> Seq(Ra)]
      /\ DOMAIN todo = Thread /\ cur \in Thread
  BY DEF Inv, TypeOK
<1>3. \A u \in Thread : u # cur =>
          Sp(u)' = Sp(u) /\ th'[u] = th[u] /\ calls'[u] = calls[u] /\ todo'[u] = todo[u]
  BY <1>2 DEF Sp
<1>4. \A u \in Thread \ uses' : PlainInv(u)'
  BY <1>3 DEF Inv, StackInv, PlainInv
<1>5. ASSUME NEW u \in uses', u # cur PROVE CallsInv(u)' /\ PointerInv(u)'
  <2>1. /\ u \in uses /\ u \in Thread /\ CallsInv(u) /\ PointerInv(u)
    BY UserFacts
  <2>2. QED
    BY <1>3, <1>5, <2>1, CallsKept, PointerKept
<1>6. \A u \in uses' : CallsInv(u)' /\ (hart' = "guest" \/ u # cur' => PointerInv(u)')
  BY <1>5
<1>7. astray' = {}
  BY DEF Inv, StackInv
<1>8. hart' = "guest" \/ (cur' \in Thread /\ th'[cur'] = "run")
  BY <1>2
<1>9. QED
  BY <1>1, <1>4, <1>6, <1>7, <1>8 DEF StackInv

\* A word for which the emulation stops, in a region of a shadow stack.
LEMMA StoppedAt ==
    ASSUME TypeOK, PagesInv, NEW s, PageOf(s) \in RegionPages, ssp_hp_ptr(s) = Stop, ssp' = s,
           UNCHANGED <<vsatp, ptab>>
    PROVE  StopsOnlyOnMissingPage'
<1>1. \/ vsatp \notin {"Sv39", "Sv57"}
      \/ /\ hw_walk(vsatp, PageOf(s), WalkTo(PageOf(s))) = Fault
         /\ vsatp = "Sv39" \/ LeafTable(PageOf(s)) \notin Tables
  BY WordFound
<1>2. QED
  BY <1>1 DEF StopsOnlyOnMissingPage, WalkTo, LeafTable

LEMMA PushStack ==
    ASSUME Inv, cur \in uses, th[cur] = "run", Len(calls[cur]) < Size[cur],
           NEW v \in Ra, Execute("SSPUSH", v)
    PROVE  StackInv'
<1>0. TypeOK /\ PagesInv
  BY DEF Inv
<1>1. PICK t : t = cur
  OBVIOUS
<1>2. PICK n : n = Len(calls[t])
  OBVIOUS
<1>3. PICK s : s = Base[t] - n - 1
  OBVIOUS
<1>4. /\ t \in uses /\ t \in Thread /\ n \in Nat /\ n < Size[t] /\ Size[t] \in Nat /\ Base[t] \in 0..(WORDS - 1)
      /\ Size[t] <= Base[t] /\ calls[t] \in Seq(Ra) /\ CallsInv(t)
  BY <1>1, <1>2, UserFacts
<1>5. /\ s \in 0..(WORDS - 1) /\ PageOf(s) \in Region(t) /\ ssp' = s /\ astray' = astray /\ th' = th
      /\ todo' = [todo EXCEPT ![t] = NoInstruction]
      /\ \/ hart' = "panic" /\ mem' = mem /\ calls' = calls /\ ssp_hp_ptr(s) = Stop
         \/ /\ hart' = "guest" /\ Resident(PageOf(s))
            /\ mem' = [mem EXCEPT ![frame[PageOf(s)]][Offset(s)] = v]
            /\ calls' = [calls EXCEPT ![t] = Append(calls[t], v)]
  BY <1>1, <1>2, <1>3, UserPush
<1>6. /\ hart = "guest"
      /\ UNCHANGED <<henv_sse, senv_sse, vsatp, ptab, cur, uses, saved, frame, swap>>
  BY DEF Execute, instruction, kernel
<1>7. /\ th \in [Thread -> {"run", "fault", "retry", "check"}] /\ calls \in [Thread -> Seq(Ra)]
      /\ th[t] = "run" /\ th'[t] = "run"
  BY <1>0, <1>1, <1>5 DEF TypeOK
<1>8. th' = [th EXCEPT ![t] = "run"]
  BY <1>4, <1>5, <1>7
<1>9. PageOf(s) \in RegionPages /\ s \in Nat
  BY <1>4, <1>5, RegionFacts, Sizes
<1>10. CASE hart' = "panic" /\ mem' = mem /\ calls' = calls /\ ssp_hp_ptr(s) = Stop
  <2>1. \A u \in uses : \A i \in 1..Len(calls[u]) : WordAt(Base[u] - i)' = WordAt(Base[u] - i)
    BY <1>6, <1>10, WordsSame
  <2>2. CallsInv(t)'
    BY <1>4, <1>7, <1>10, <2>1 DEF CallsInv
  <2>3. StopsOnlyOnMissingPage'
    BY <1>0, <1>5, <1>6, <1>9, <1>10, StoppedAt
  <2>4. calls' = [calls EXCEPT ![t] = calls[t]]
    BY <1>4, <1>7, <1>10
  <2>5. CallsInv(cur)' /\ ~(hart' = "guest")
    BY <1>1, <1>6, <1>10, <2>2
  <2>6. QED
    BY <1>1, <1>5, <1>6, <1>8, <2>1, <2>3, <2>4, <2>5, RunningThread
<1>11. CASE /\ hart' = "guest" /\ Resident(PageOf(s))
            /\ mem' = [mem EXCEPT ![frame[PageOf(s)]][Offset(s)] = v]
            /\ calls' = [calls EXCEPT ![t] = Append(calls[t], v)]
  <2>1. /\ WordAt(s)' = v
        /\ \A x \in Nat : x # s /\ PageOf(x) \in RegionPages => WordAt(x)' = WordAt(x)
    BY <1>0, <1>6, <1>9, <1>11, WordStored
  <2>2. ASSUME NEW u \in uses, NEW i \in 1..Len(calls[u])
        PROVE  WordAt(Base[u] - i)' = WordAt(Base[u] - i)
    <3>1. u \in Thread /\ Len(calls[u]) \in Nat /\ Len(calls[u]) <= Size[u] /\ Size[u] \in Nat
      BY UserFacts
    <3>2. i \in 1..Size[u] /\ n + 1 \in 1..Size[t]
      BY <1>4, <3>1
    <3>3. Base[u] - i \in Nat /\ PageOf(Base[u] - i) \in RegionPages
      BY <3>1, <3>2, RegionFacts, Sizes
    <3>4. u # t \/ i # n + 1
      BY <1>2, <1>4
    <3>5. Base[u] - i # Base[t] - (n + 1)
      BY <1>4, <3>1, <3>2, <3>4, DifferentWords
    <3> DEFINE b == Base[t]
    <3>6. s = b - n - 1 /\ b \in Int /\ n \in Nat
      BY <1>3, <1>4, Sizes
    <3> HIDE DEF b
    <3>7. s = b - (n + 1)
      BY <3>6
    <3>8. QED
      BY <2>1, <3>3, <3>5, <3>7 DEF b
  <2>3. calls'[t] = Append(calls[t], v)
    BY <1>4, <1>7, <1>11
  <2>4. /\ Len(calls'[t]) = n + 1 /\ calls'[t][n + 1] = v
        /\ \A i \in 1..n : calls'[t][i] = calls[t][i]
    BY <1>2, <1>4, <2>3
  <2>5. CallsInv(t)'
    <3>1. ASSUME NEW i \in 1..(n + 1) PROVE WordAt(Base[t] - i)' = calls'[t][i]
      <4>1. CASE i = n + 1
        <5>1. Base[t] - i = s
          BY <1>3, <1>4, <4>1
        <5>2. QED
          BY <2>1, <2>4, <4>1, <5>1
      <4>2. CASE i # n + 1
        <5>1. i \in 1..n
          BY <1>4, <4>2
        <5>2. WordAt(Base[t] - i) = calls[t][i]
          BY <1>2, <1>4, <5>1 DEF CallsInv
        <5>3. QED
          BY <1>2, <1>4, <2>2, <2>4, <5>1, <5>2
      <4>3. QED
        BY <4>1, <4>2
    <3>2. Len(calls'[t]) <= Size[t]
      BY <1>4, <2>4
    <3>3. QED
      BY <1>7, <2>4, <3>1, <3>2 DEF CallsInv
  <2>6. PointerInv(t)'
    <3>1. Sp(t)' = s /\ Sp(t) = ssp /\ PointerInv(t)
      BY <1>1, <1>5, <1>6, UserFacts DEF Sp
    <3>2. ssp = s + 1 /\ s = Base[t] - (n + 1)
      <4>1. ssp = Base[t] - n + 0
        BY <1>2, <1>7, <3>1 DEF PointerInv
      <4> DEFINE b == Base[t]
      <4>2. b \in Int /\ n \in Int /\ s = b - n - 1 /\ ssp = b - n + 0
        BY <1>3, <1>4, <4>1
      <4> HIDE DEF b
      <4>3. ssp = s + 1 /\ s = b - (n + 1)
        BY <4>2
      <4>4. QED
        BY <4>3 DEF b
    <3>3. ASSUME NEW p \in Region(t), Movable(p)', p * PAGE_WORDS < s PROVE Resident(p)'
      <4>1. Movable(p) /\ p \in Nat
        BY <1>4, <1>6, <3>3, RegionFacts DEF Movable, LeafTable, WalkTo
      <4>2. p * PAGE_WORDS \in Int
        BY <4>1, Sizes
      <4>3. p * PAGE_WORDS < ssp
        BY <1>9, <3>2, <3>3, <4>2
      <4>4. Resident(p)
        BY <3>1, <4>1, <4>3 DEF PointerInv
      <4>5. QED
        BY <1>6, <4>4 DEF Resident
    <3>4. s = Base[t] - Len(calls'[t]) + 0
      BY <1>4, <2>4, <3>2
    <3>5. QED
      BY <1>7, <3>1, <3>3, <3>4 DEF PointerInv
  <2>7. StopsOnlyOnMissingPage'
    BY <1>11 DEF StopsOnlyOnMissingPage
  <2>8. CallsInv(cur)' /\ PointerInv(cur)'
    BY <1>1, <1>6, <2>5, <2>6
  <2>9. QED
    BY <1>1, <1>5, <1>6, <1>8, <1>11, <2>2, <2>7, <2>8, RunningThread
<1>12. QED
  BY <1>5, <1>10, <1>11

LEMMA PopStack ==
    ASSUME Inv, cur \in uses, th[cur] \in {"run", "retry"}, calls[cur] # <<>>,
           NEW v \in Ra, Execute("SSPOPCHK", v)
    PROVE  StackInv'
<1>0. TypeOK /\ PagesInv
  BY DEF Inv
<1>1. PICK t : t = cur
  OBVIOUS
<1>2. PICK n : n = Len(calls[t])
  OBVIOUS
<1>3. PICK s : s = Base[t] - n
  OBVIOUS
<1> DEFINE y == <<"SSPOPCHK", v>>
<1>4. /\ t \in uses /\ t \in Thread /\ n \in Nat /\ n <= Size[t] /\ Size[t] \in Nat /\ Base[t] \in Int
      /\ calls[t] \in Seq(Ra) /\ CallsInv(t)
  BY <1>1, <1>2, UserFacts, Sizes
<1>5. /\ n # 0 /\ s = ssp /\ s \in 0..(WORDS - 1) /\ PageOf(s) \in Region(t)
      /\ mem' = mem /\ astray' = astray
      /\ \/ /\ hart' = "panic" /\ ssp_hp_ptr(s) = Stop
            /\ ssp' = s /\ calls' = calls
            /\ th' = [th EXCEPT ![t] = "run"] /\ todo' = [todo EXCEPT ![t] = NoInstruction]
         \/ /\ hart' = "guest" /\ ssp' = s /\ calls' = calls
            /\ th' = [th EXCEPT ![t] = "fault"] /\ todo' = [todo EXCEPT ![t] = y]
         \/ /\ hart' = "guest" /\ Resident(PageOf(s)) /\ v = calls[t][n]
            /\ ssp' = s + 1 /\ calls' = [calls EXCEPT ![t] = SubSeq(calls[t], 1, n - 1)]
            /\ th' = [th EXCEPT ![t] = "run"] /\ todo' = [todo EXCEPT ![t] = NoInstruction]
         \/ /\ hart' = "guest" /\ Resident(PageOf(s)) /\ v # calls[t][n]
            /\ ssp' = s + 1 /\ calls' = calls
            /\ th' = [th EXCEPT ![t] = "check"] /\ todo' = [todo EXCEPT ![t] = y]
  BY <1>1, <1>2, <1>3, UserPop
<1>6. /\ hart = "guest"
      /\ UNCHANGED <<henv_sse, senv_sse, vsatp, ptab, cur, uses, saved, frame, swap>>
  BY DEF Execute, instruction, kernel
<1>7. /\ th \in [Thread -> {"run", "fault", "retry", "check"}] /\ calls \in [Thread -> Seq(Ra)]
      /\ DOMAIN todo = Thread /\ calls = [calls EXCEPT ![t] = calls[t]] /\ th[t] # "check"
      /\ calls[t] # <<>>
  BY <1>0, <1>1, <1>4 DEF TypeOK
<1>8. PageOf(s) \in RegionPages /\ s \in Nat
  BY <1>4, <1>5, RegionFacts, Sizes
<1>9. \A u \in uses : \A i \in 1..Len(calls[u]) : WordAt(Base[u] - i)' = WordAt(Base[u] - i)
  BY <1>5, <1>6, WordsSame
<1>10. \A i \in 1..n : WordAt(Base[t] - i)' = calls[t][i]
  BY <1>2, <1>4, <1>9 DEF CallsInv
<1>11. Sp(t)' = ssp' /\ Sp(t) = s /\ PointerInv(t)
  BY <1>1, <1>5, <1>6, UserFacts DEF Sp
<1>12. ASSUME NEW p \in Region(t), Movable(p)', p * PAGE_WORDS < ssp',
              ssp' = s \/ (ssp' = s + 1 /\ Resident(PageOf(s)))
       PROVE  Resident(p)'
  <2>1. Movable(p) /\ p \in Nat
    BY <1>4, <1>6, <1>12, RegionFacts DEF Movable, LeafTable, WalkTo
  <2>2. p * PAGE_WORDS < s \/ (p = PageOf(s) /\ Resident(PageOf(s)))
    BY <1>8, <1>12, <2>1, PageStarts
  <2>3. Resident(p)
    BY <1>11, <2>1, <2>2 DEF PointerInv
  <2>4. QED
    BY <1>6, <2>3 DEF Resident
<1> HIDE DEF y
<1>13. CASE /\ hart' = "panic" /\ ssp_hp_ptr(s) = Stop
            /\ ssp' = s /\ calls' = calls
            /\ th' = [th EXCEPT ![t] = "run"] /\ todo' = [todo EXCEPT ![t] = NoInstruction]
  <2>1. th'[t] = "run" /\ calls'[t] = calls[t]
    BY <1>4, <1>7, <1>13
  <2>2. CallsInv(t)'
    BY <1>2, <1>4, <1>10, <2>1 DEF CallsInv
  <2>3. StopsOnlyOnMissingPage'
    BY <1>0, <1>6, <1>8, <1>13, StoppedAt
  <2>4. CallsInv(cur)' /\ ~(hart' = "guest")
    BY <1>1, <1>6, <1>13, <2>2
  <2>5. QED
    BY <1>1, <1>5, <1>6, <1>7, <1>9, <1>13, <2>3, <2>4, RunningThread
<1>14. CASE /\ hart' = "guest" /\ ssp' = s /\ calls' = calls
            /\ th' = [th EXCEPT ![t] = "fault"] /\ todo' = [todo EXCEPT ![t] = y]
  <2>1. th'[t] = "fault" /\ calls'[t] = calls[t] /\ todo'[t][1] = "SSPOPCHK"
    BY <1>4, <1>7, <1>14 DEF y
  <2>2. CallsInv(t)'
    BY <1>2, <1>4, <1>7, <1>10, <2>1 DEF CallsInv
  <2>3. PointerInv(t)'
    <3>1. Sp(t)' = Base[t] - Len(calls'[t]) + 0
      BY <1>2, <1>3, <1>4, <1>11, <1>14, <2>1
    <3>2. QED
      BY <1>11, <1>12, <1>14, <2>1, <3>1 DEF PointerInv
  <2>4. StopsOnlyOnMissingPage'
    BY <1>14 DEF StopsOnlyOnMissingPage
  <2>5. CallsInv(cur)' /\ PointerInv(cur)'
    BY <1>1, <1>6, <2>2, <2>3
  <2>6. QED
    BY <1>1, <1>5, <1>6, <1>7, <1>9, <1>14, <2>4, <2>5, RunningThread
<1>15. CASE /\ hart' = "guest" /\ Resident(PageOf(s)) /\ v = calls[t][n]
            /\ ssp' = s + 1 /\ calls' = [calls EXCEPT ![t] = SubSeq(calls[t], 1, n - 1)]
            /\ th' = [th EXCEPT ![t] = "run"] /\ todo' = [todo EXCEPT ![t] = NoInstruction]
  <2>1. th'[t] = "run" /\ calls'[t] = SubSeq(calls[t], 1, n - 1)
    BY <1>4, <1>7, <1>15
  <2>2. Len(calls'[t]) = n - 1 /\ \A i \in 1..(n - 1) : calls'[t][i] = calls[t][i]
    BY <1>2, <1>4, <1>5, <2>1
  <2>3. CallsInv(t)'
    <3>1. \A i \in 1..(n - 1) : WordAt(Base[t] - i)' = calls'[t][i]
      BY <1>4, <1>10, <2>2
    <3>2. n - 1 <= Size[t]
      BY <1>4
    <3>3. QED
      BY <2>1, <2>2, <3>1, <3>2 DEF CallsInv
  <2>4. PointerInv(t)'
    <3>1. Sp(t)' = Base[t] - Len(calls'[t]) + 0
      BY <1>3, <1>4, <1>11, <1>15, <2>2
    <3>2. QED
      BY <1>11, <1>12, <1>15, <2>1, <3>1 DEF PointerInv
  <2>5. StopsOnlyOnMissingPage'
    BY <1>15 DEF StopsOnlyOnMissingPage
  <2>6. CallsInv(cur)' /\ PointerInv(cur)'
    BY <1>1, <1>6, <2>3, <2>4
  <2>7. QED
    BY <1>1, <1>5, <1>6, <1>9, <1>15, <2>5, <2>6, RunningThread
<1>16. CASE /\ hart' = "guest" /\ Resident(PageOf(s)) /\ v # calls[t][n]
            /\ ssp' = s + 1 /\ calls' = calls
            /\ th' = [th EXCEPT ![t] = "check"] /\ todo' = [todo EXCEPT ![t] = y]
  <2>1. th'[t] = "check" /\ calls'[t] = calls[t] /\ todo'[t][1] = "SSPOPCHK" /\ todo'[t][2] = v
    BY <1>4, <1>7, <1>16 DEF y
  <2>2. CallsInv(t)'
    BY <1>2, <1>4, <1>7, <1>10, <1>16, <2>1 DEF CallsInv
  <2>3. PointerInv(t)'
    <3>1. Sp(t)' = Base[t] - Len(calls'[t]) + 1
      BY <1>2, <1>3, <1>4, <1>11, <1>16, <2>1
    <3>2. QED
      BY <1>11, <1>12, <1>16, <2>1, <3>1 DEF PointerInv
  <2>4. StopsOnlyOnMissingPage'
    BY <1>16 DEF StopsOnlyOnMissingPage
  <2>5. CallsInv(cur)' /\ PointerInv(cur)'
    BY <1>1, <1>6, <2>2, <2>3
  <2>6. QED
    BY <1>1, <1>5, <1>6, <1>7, <1>9, <1>16, <2>4, <2>5, RunningThread
<1>17. QED
  BY <1>5, <1>13, <1>14, <1>15, <1>16

\* What the running thread executes: a call with room for it, or a return with
\* a call to return from.  A retry repeats a return.
LEMMA ThreadSteps ==
    ASSUME Inv, NEW v \in Ra, Call(v) \/ Return(v) \/ Retry
    PROVE  \/ cur \in Thread \ uses /\ \E op, x : Execute(op, x)
           \/ /\ cur \in uses /\ th[cur] = "run" /\ Len(calls[cur]) < Size[cur]
              /\ Execute("SSPUSH", v)
           \/ /\ cur \in uses /\ th[cur] \in {"run", "retry"} /\ calls[cur] # <<>>
              /\ \E x \in Ra : Execute("SSPOPCHK", x)
<1>1. cur \in Thread
  BY DEF Call, Return, Retry, Inv, TypeOK
<1>2. CASE cur \notin uses
  BY <1>1, <1>2 DEF Call, Return, Retry
<1>3. CASE cur \in uses
  <2>1. CASE Call(v)
    BY <1>3, <2>1 DEF Call
  <2>2. CASE Return(v)
    BY <1>3, <2>2 DEF Return
  <2>3. CASE Retry
    <3>1. CallsInv(cur) /\ th[cur] = "retry" /\ Execute(todo[cur][1], todo[cur][2])
      BY <1>3, <2>3, UserFacts DEF Retry
    <3>2. calls[cur] # <<>> /\ todo[cur][1] = "SSPOPCHK"
      BY <3>1 DEF CallsInv
    <3>3. todo[cur] \in {"SSPUSH", "SSPOPCHK"} \X Ra
      BY <1>1, <3>1 DEF Inv, TypeOK
    <3>4. todo[cur][2] \in Ra
      BY <3>3
    <3>5. QED
      BY <1>3, <3>1, <3>2, <3>4
  <2>4. QED
    BY <2>1, <2>2, <2>3
<1>4. QED
  BY <1>2, <1>3

LEMMA ThreadStack ==
    ASSUME Inv, NEW v \in Ra, Call(v) \/ Return(v) \/ Retry
    PROVE  StackInv'
<1>1. ASSUME cur \in Thread \ uses, NEW op, NEW x, Execute(op, x) PROVE StackInv'
  <2>1. UNCHANGED <<ssp, mem, hart, th, calls, astray>> /\ todo' = [todo EXCEPT ![cur] = NoInstruction]
    BY <1>1, PlainExecutes
  <2>2. UNCHANGED <<henv_sse, senv_sse, vsatp, ptab, cur, uses, saved, frame, swap>>
    BY <1>1 DEF Execute, instruction, kernel
  <2>3. \A t \in uses : todo'[t] = todo[t]
    BY <1>1, <2>1 DEF Inv, TypeOK
  <2>4. QED
    BY <2>1, <2>2, <2>3, StackSame
<1>2. QED
  BY <1>1, ThreadSteps, PushStack, PopStack

LEMMA StackStep == ASSUME Pinned, Inv, [GuestNext]_vars PROVE StackInv'
<1>0. Ra # {} \/ ~Retry
  <2>1. SUFFICES ASSUME Retry PROVE Ra # {}
    OBVIOUS
  <2>2. \E op \in {"SSPUSH", "SSPOPCHK"}, x \in Ra : Execute(op, x)
    BY <2>1, RetryExecutes DEF Inv
  <2>3. QED
    BY <2>2
<1>1. ASSUME NEW v \in Ra, Call(v) \/ Return(v) PROVE StackInv'
  BY <1>1, ThreadStack
<1>2. CASE Retry
  BY <1>0, <1>2, ThreadStack
<1>3. CASE KernelEnable
  <2>1. UNCHANGED <<ssp, henv_sse, senv_sse, vsatp, ptab, mem, hart, th, todo, calls, astray>>
        /\ UNCHANGED <<cur, uses, saved, frame, swap>>
    BY <1>3 DEF KernelEnable, sbi_fwft_handler, zicfiss, guestMemory, threads
  <2>2. QED
    BY <2>1, StackSame
<1>4. ASSUME NEW op, KernelCall(op) PROVE StackInv'
  BY <1>4, KernelExecutes, StackSame DEF threads, kernel
<1>5. CASE UNCHANGED vars
  BY <1>5, StackSame DEF vars, zicfiss, guestMemory, threads, kernel
<1>6. QED
  BY <1>1, <1>2, <1>3, <1>4, <1>5, SwitchStack, MoveStack, FaultHandledStack, RestartStack
     DEF GuestNext

----------------------------------------------------------------------------
(* What the emulation promises a kernel that pins what a push may need     *)

\* The inductive invariant: tables, frames and stacks fit together.
THEOREM StackIInvariant == ASSUME Pinned PROVE GuestSpec => []Inv
<1>1. GuestInit => Inv
  BY InitTypes, InitPages, StackInit DEF Inv
<1>2. Inv /\ [GuestNext]_vars => Inv'
  <2>1. Inv /\ [GuestNext]_vars => TypeOK' /\ PagesInv'
    BY TypesStep, PagesStep DEF Inv
  <2>2. Inv /\ [GuestNext]_vars => StackInv'
    BY StackStep
  <2>3. QED
    BY <2>1, <2>2 DEF Inv
<1>3. QED
  BY <1>1, <1>2, PTL DEF GuestSpec

\* A software check is raised for an overwritten return address and for no
\* other, however calls, returns, faults, switches and page moves interleave
\* (zicfiss.rs, ss_push, ss_pop and sspopchk).
THEOREM ChecksAreRight == ASSUME Pinned PROVE GuestSpec => []NoFalseAlarm
<1>1. Inv => NoFalseAlarm
  BY DEF Inv, StackInv, PlainInv, CallsInv, NoFalseAlarm
<1>2. QED
  BY <1>1, StackIInvariant, PTL

\* No thread with a shadow stack returns anywhere but to its caller
\* (zicfiss.rs, sspopchk and csr_field).
THEOREM EveryReturnIsChecked == ASSUME Pinned PROVE GuestSpec => []ReturnsChecked
<1>1. Inv => ReturnsChecked
  BY DEF Inv, StackInv, ReturnsChecked
<1>2. QED
  BY <1>1, StackIInvariant, PTL

\* The pointer a thread finds is the one its calls left (zicfiss.rs, ssrdp and
\* csr).
THEOREM PointerStaysExact == ASSUME Pinned PROVE GuestSpec => []PointerExact
<1>1. ASSUME Inv, hart = "guest"
      PROVE  /\ \A t \in Thread :
                   Sp(t) = IF t \notin uses THEN 0
                           ELSE Base[t] - Len(calls[t]) + (IF th[t] = "check" THEN 1 ELSE 0)
             /\ cur # Idle => ssrdp(0) = Sp(cur)
             /\ ssrdp(1) = 0
  <2>1. \A t \in Thread \ uses : Sp(t) = 0
    BY <1>1 DEF Inv, StackInv, PlainInv
  <2>2. \A t \in uses :
           Sp(t) = Base[t] - Len(calls[t]) + (IF th[t] = "check" THEN 1 ELSE 0)
    BY <1>1, UserFacts DEF PointerInv
  <2>3. cur # Idle => cur \in Thread
    BY <1>1 DEF Inv, TypeOK
  <2>4. ssrdp(0) = (IF cur \in uses THEN ssp ELSE 0) /\ ssrdp(1) = 0
    BY <1>1, Enabled DEF ssrdp
  <2>5. Sp(cur) = ssp
    BY DEF Sp
  <2>6. QED
    BY <2>1, <2>2, <2>3, <2>4, <2>5
<1>2. Inv => PointerExact
  BY <1>1 DEF PointerExact
<1>3. QED
  BY <1>2, StackIInvariant, PTL

\* The walks stop the hypervisor for no page that the hart would have found
\* (sv39.rs, sv57.rs, trans_addr).
THEOREM StopsForMissingPagesOnly == ASSUME Pinned PROVE GuestSpec => []StopsOnlyOnMissingPage
<1>1. Inv => StopsOnlyOnMissingPage
  BY DEF Inv, StackInv
<1>2. QED
  BY <1>1, StackIInvariant, PTL

----------------------------------------------------------------------------
(* Refinement of ShadowStacks                                              *)

Stacks == [t \in Thread |-> Remembered(t)]
Alarms == [t \in Thread |-> IF th[t] = "check" THEN todo[t][2] ELSE 0]

\* The words read back are the calls.
LEMMA Remembers == ASSUME Inv PROVE Stacks = calls
<1>1. ASSUME NEW t \in Thread PROVE Remembered(t) = calls[t]
  <2>1. CASE t \notin uses
    BY <2>1 DEF Remembered, Inv, StackInv, PlainInv
  <2>2. CASE t \in uses
    <3> DEFINE n == Len(calls[t])
    <3>1. /\ Base[t] \in Int /\ n \in Nat /\ CallsInv(t) /\ calls[t] \in Seq(Ra)
          /\ hart = "guest" \/ t # cur => PointerInv(t)
      BY <2>2, UserFacts, Sizes
    <3>2. hart = "guest" \/ (hart = "panic" /\ th[cur] = "run")
      BY DEF Inv, StackInv, TypeOK
    <3>3. Base[t] - Top(t) = n
      <4>1. CASE hart = "guest" \/ t # cur
        <5>1. Sp(t) = Base[t] - n + (IF th[t] = "check" THEN 1 ELSE 0)
          BY <3>1, <4>1 DEF PointerInv
        <5>2. Top(t) = IF th[t] = "check" THEN Sp(t) - 1 ELSE Sp(t)
          BY <4>1, <3>2 DEF Top
        <5> HIDE DEF n
        <5>3. QED
          BY <3>1, <5>1, <5>2
      <4>2. CASE hart # "guest" /\ t = cur
        <5>1. Top(t) = Base[t] - n
          BY <3>2, <4>2 DEF Top
        <5> HIDE DEF n
        <5>2. QED
          BY <3>1, <5>1
      <4>3. QED
        BY <4>1, <4>2
    <3>4. Remembered(t) = [i \in 1..n |-> WordAt(Base[t] - i)]
      BY <2>2, <3>3 DEF Remembered
    <3>5. \A i \in 1..n : WordAt(Base[t] - i) = calls[t][i]
      BY <3>1 DEF CallsInv
    <3>6. calls[t] = [i \in 1..n |-> calls[t][i]]
      BY <3>1
    <3> HIDE DEF n
    <3>7. QED
      BY <3>4, <3>5, <3>6
  <2>3. QED
    BY <2>1, <2>2
<1>2. calls = [t \in Thread |-> calls[t]]
  BY DEF Inv, TypeOK
<1>3. QED
  BY <1>1, <1>2 DEF Stacks

LEMMA AbstractInit == ASSUME GuestInit PROVE Abstract!Init
<1>1. Stacks = calls
  BY InitTypes, InitPages, StackInit, Remembers DEF Inv
<1>2. calls = [t \in Thread |-> <<>>] /\ Alarms = [t \in Thread |-> 0]
  BY DEF GuestInit, Alarms
<1>3. QED
  BY <1>1, <1>2 DEF Abstract!Init, Stacks, Alarms

\* The same in the next state.
LEMMA StillRemembers == (Inv => Stacks = calls)'
<1>1. Inv => Stacks = calls
  BY Remembers
<1>2. QED
  BY <1>1, PTL

\* A step that changes neither calls nor checks changes nothing there.
LEMMA AbstractSame ==
    ASSUME Inv, Inv', calls' = calls,
           \A t \in Thread : (th[t] = "check" \/ th'[t] = "check") => th'[t] = th[t] /\ todo'[t] = todo[t]
    PROVE  UNCHANGED <<Stacks, Alarms>>
<1>1. Stacks = calls /\ Stacks' = calls'
  BY Remembers, StillRemembers
<1>2. Alarms' = Alarms
  BY DEF Alarms
<1>3. QED
  BY <1>1, <1>2

\* A call, with or without a shadow stack to remember it.
LEMMA AbstractCall ==
    ASSUME Inv, Inv', cur \in uses, th[cur] = "run", Len(calls[cur]) < Size[cur],
           NEW v \in Ra, Execute("SSPUSH", v)
    PROVE  Abstract!Next \/ UNCHANGED <<Stacks, Alarms>>
<1>1. PICK s : s = Base[cur] - Len(calls[cur]) - 1
  OBVIOUS
<1>2. /\ th' = th /\ todo' = [todo EXCEPT ![cur] = NoInstruction]
      /\ calls' = calls \/ calls' = [calls EXCEPT ![cur] = Append(calls[cur], v)]
  BY <1>1, UserPush
<1>3. cur \in Thread /\ DOMAIN todo = Thread
  BY UserFacts DEF Inv, TypeOK
<1>4. \A t \in Thread : (th[t] = "check" \/ th'[t] = "check") => th'[t] = th[t] /\ todo'[t] = todo[t]
  BY <1>2, <1>3
<1>5. CASE calls' = calls
  BY <1>4, <1>5, AbstractSame
<1>6. CASE calls' = [calls EXCEPT ![cur] = Append(calls[cur], v)]
  <2>1. Stacks = calls /\ Stacks' = calls'
    BY Remembers, StillRemembers
  <2>2. Alarms' = Alarms /\ Alarms[cur] = 0
    BY <1>3, <1>4 DEF Alarms
  <2>3. Abstract!Call(cur, v)
    BY <1>6, <2>1, <2>2 DEF Abstract!Call, Stacks, Alarms
  <2>4. QED
    BY <1>3, <2>3 DEF Abstract!Next
<1>7. QED
  BY <1>2, <1>5, <1>6

\* A return, first tried or retried: it goes back, faults, or is rejected.
LEMMA AbstractReturn ==
    ASSUME Inv, Inv', cur \in uses, th[cur] \in {"run", "retry"}, calls[cur] # <<>>,
           NEW v \in Ra, Execute("SSPOPCHK", v)
    PROVE  Abstract!Next \/ UNCHANGED <<Stacks, Alarms>>
<1>1. PICK n : n = Len(calls[cur])
  OBVIOUS
<1>2. PICK s : s = Base[cur] - n
  OBVIOUS
<1> DEFINE y == <<"SSPOPCHK", v>>
<1>3. \/ /\ calls' = calls
         /\ th' = [th EXCEPT ![cur] = "run"] /\ todo' = [todo EXCEPT ![cur] = NoInstruction]
      \/ calls' = calls /\ th' = [th EXCEPT ![cur] = "fault"] /\ todo' = [todo EXCEPT ![cur] = y]
      \/ /\ calls' = [calls EXCEPT ![cur] = SubSeq(calls[cur], 1, n - 1)]
         /\ th' = [th EXCEPT ![cur] = "run"] /\ todo' = [todo EXCEPT ![cur] = NoInstruction]
      \/ /\ v # calls[cur][n] /\ calls' = calls
         /\ th' = [th EXCEPT ![cur] = "check"] /\ todo' = [todo EXCEPT ![cur] = y]
  BY <1>1, <1>2, UserPop
<1>4. /\ cur \in Thread /\ DOMAIN todo = Thread /\ th[cur] # "check"
      /\ th \in [Thread -> {"run", "fault", "retry", "check"}]
  BY UserFacts DEF Inv, TypeOK
<1>5. Stacks = calls /\ Stacks' = calls'
  BY Remembers, StillRemembers
<1>6. Alarms[cur] = 0
  BY <1>4 DEF Alarms
<1>7. y[2] = v
  OBVIOUS
<1> HIDE DEF y
<1>8. CASE calls' = calls /\ \E x \in {"run", "fault"} : \E z :
             th' = [th EXCEPT ![cur] = x] /\ todo' = [todo EXCEPT ![cur] = z]
  <2>1. \A t \in Thread : (th[t] = "check" \/ th'[t] = "check") => th'[t] = th[t] /\ todo'[t] = todo[t]
    BY <1>4, <1>8
  <2>2. QED
    BY <1>8, <2>1, AbstractSame
<1>9. CASE /\ calls' = [calls EXCEPT ![cur] = SubSeq(calls[cur], 1, n - 1)]
           /\ th' = [th EXCEPT ![cur] = "run"] /\ todo' = [todo EXCEPT ![cur] = NoInstruction]
  <2>1. Alarms' = Alarms
    BY <1>4, <1>9 DEF Alarms
  <2>2. Abstract!Return(cur)
    BY <1>1, <1>5, <1>6, <1>9, <2>1 DEF Abstract!Return, Stacks, Alarms
  <2>3. QED
    BY <1>4, <2>2 DEF Abstract!Next
<1>10. CASE /\ v # calls[cur][n] /\ calls' = calls
            /\ th' = [th EXCEPT ![cur] = "check"] /\ todo' = [todo EXCEPT ![cur] = y]
  <2>1. Alarms' = [Alarms EXCEPT ![cur] = v]
    BY <1>4, <1>7, <1>10 DEF Alarms
  <2>2. Abstract!Reject(cur, v)
    BY <1>1, <1>5, <1>6, <1>10, <2>1 DEF Abstract!Reject, Stacks, Alarms
  <2>3. QED
    BY <1>4, <2>2 DEF Abstract!Next
<1>11. QED
  BY <1>3, <1>8, <1>9, <1>10

\* A stopped thread was stopped at an address, and makes room for a new one.
LEMMA AbstractRestart ==
    ASSUME Inv, Inv', cur # Idle, th[cur] = "check", th' = [th EXCEPT ![cur] = "run"],
           calls' = [calls EXCEPT ![cur] = <<>>], todo' = [todo EXCEPT ![cur] = NoInstruction]
    PROVE  Abstract!Next
<1>1. /\ cur \in Thread /\ DOMAIN todo = Thread
      /\ th \in [Thread -> {"run", "fault", "retry", "check"}]
  BY DEF Inv, TypeOK
<1>2. todo[cur] \in {"SSPUSH", "SSPOPCHK"} \X Ra
  BY <1>1 DEF Inv, TypeOK
<1>3. todo[cur][2] # 0
  BY <1>2, ZicfissAssumption
<1>4. Alarms[cur] # 0 /\ Alarms' = [Alarms EXCEPT ![cur] = 0]
  BY <1>1, <1>3 DEF Alarms
<1>5. Stacks = calls /\ Stacks' = calls'
  BY Remembers, StillRemembers
<1>6. PICK t \in Thread : t = cur
  BY <1>1
<1>7. Abstract!Restart(t)
  BY <1>4, <1>5, <1>6 DEF Abstract!Restart, Stacks, Alarms
<1>8. QED
  BY <1>7 DEF Abstract!Next

LEMMA AbstractStep ==
    ASSUME Inv, Inv', [GuestNext]_vars
    PROVE  Abstract!Next \/ UNCHANGED <<Stacks, Alarms>>
<1> DEFINE Goal == Abstract!Next \/ UNCHANGED <<Stacks, Alarms>>
<1>1. ASSUME cur \in Thread \ uses, NEW op, NEW x, Execute(op, x) PROVE Goal
  <2>1. UNCHANGED <<th, calls>> /\ todo' = [todo EXCEPT ![cur] = NoInstruction]
    BY <1>1, PlainExecutes
  <2>2. th[cur] = "run" /\ DOMAIN todo = Thread
    BY <1>1 DEF Inv, StackInv, PlainInv, TypeOK
  <2>3. \A t \in Thread : (th[t] = "check" \/ th'[t] = "check") => th'[t] = th[t] /\ todo'[t] = todo[t]
    BY <2>1, <2>2
  <2>4. QED
    BY <2>1, <2>3, AbstractSame
<1>2. ASSUME NEW v \in Ra, Call(v) \/ Return(v) \/ Retry PROVE Goal
  BY <1>1, <1>2, ThreadSteps, AbstractCall, AbstractReturn
<1>3. ASSUME UNCHANGED threads PROVE Goal
  BY <1>3, AbstractSame DEF threads
<1>4. ASSUME NEW t \in Thread, Switch(t) PROVE Goal
  BY <1>3, <1>4 DEF Switch
<1>5. ASSUME NEW p \in RegionPages, PageOut(p) \/ PageIn(p) PROVE Goal
  BY <1>3, <1>5 DEF PageOut, PageIn
<1>6. CASE FaultHandled
  <2>1. /\ th[cur] = "fault" /\ th' = [th EXCEPT ![cur] = "retry"] /\ UNCHANGED <<todo, calls>>
        /\ cur \in Thread /\ th \in [Thread -> {"run", "fault", "retry", "check"}]
    BY <1>6 DEF FaultHandled, Inv, TypeOK
  <2>2. \A t \in Thread : (th[t] = "check" \/ th'[t] = "check") => th'[t] = th[t] /\ todo'[t] = todo[t]
    BY <2>1
  <2>3. QED
    BY <2>1, <2>2, AbstractSame
<1>7. CASE Restart
  BY <1>7, AbstractRestart DEF Restart
<1>8. CASE KernelEnable
  BY <1>3, <1>8 DEF KernelEnable
<1>9. ASSUME NEW op, KernelCall(op) PROVE Goal
  BY <1>3, <1>9 DEF KernelCall
<1>10. CASE UNCHANGED vars
  BY <1>3, <1>10 DEF vars
<1>11. CASE Retry
  <2>1. \E op \in {"SSPUSH", "SSPOPCHK"}, x \in Ra : Execute(op, x)
    BY <1>11, RetryExecutes DEF Inv
  <2>2. PICK v \in Ra : TRUE
    BY <2>1
  <2>3. QED
    BY <1>2, <1>11, <2>2
<1>12. QED
  BY <1>2, <1>4, <1>5, <1>6, <1>7, <1>8, <1>9, <1>10, <1>11 DEF GuestNext

\* A kernel that pins what a push may need gets, for each of its threads, a
\* stack of return addresses of its own: no instruction, fault, retry, switch or
\* page move shows any other behaviour (zicfiss.rs, instruction).
THEOREM EachThreadHasAStack == ASSUME Pinned PROVE GuestSpec => ImplementsShadowStacks
<1>1. GuestInit => Inv
  BY InitTypes, InitPages, StackInit DEF Inv
<1>2. Inv /\ [GuestNext]_vars => Inv'
  BY TypesStep, PagesStep, StackStep DEF Inv
<1>3. Inv /\ Inv' /\ [GuestNext]_vars => [Abstract!Next]_<<Stacks, Alarms>>
  BY AbstractStep
<1>4. GuestInit => Abstract!Init
  BY AbstractInit
<1>5. QED
  BY <1>1, <1>2, <1>3, <1>4, PTL
     DEF GuestSpec, ImplementsShadowStacks, Abstract!Spec, Stacks, Alarms
=============================================================================
