---------------------------- MODULE GStageProofs ----------------------------
(***************************************************************************)
(* generate_page_table changes the translation of the block it maps and of *)
(* no other guest page; from that, what the guest can reach, for every     *)
(* page size, heap, guest image and device tree.                           *)
(***************************************************************************)
EXTENDS GStage, TLAPS

H == INSTANCE HeapProofs

----------------------------------------------------------------------------
(* Page numbers                                                            *)

LEMMA Sizes ==
    /\ PAGE_SIZE \in Nat \ {0} /\ PAGE_TABLE_LEN \in Nat \ {0}
    /\ FIRST_LV_PAGE_TABLE_LEN \in Nat \ {0}
    /\ Span(0) = 1 /\ Span(1) = PAGE_TABLE_LEN /\ Span(2) = PAGE_TABLE_LEN * PAGE_TABLE_LEN
    /\ \A l \in 0..2 : Span(l) \in Nat \ {0}
    /\ GuestPages = 0..(FIRST_LV_PAGE_TABLE_LEN * Span(2) - 1) /\ GuestPages \subseteq Nat
<1>1. /\ PAGE_SIZE \in Nat \ {0} /\ PAGE_TABLE_LEN \in Nat \ {0}
      /\ FIRST_LV_PAGE_TABLE_LEN \in Nat \ {0}
  BY SizeAssumption
<1>2. Span(0) = 1 /\ Span(1) = PAGE_TABLE_LEN /\ Span(2) = PAGE_TABLE_LEN * PAGE_TABLE_LEN
  BY DEF Span
<1>3. PAGE_TABLE_LEN * PAGE_TABLE_LEN \in Nat \ {0}
  BY <1>1
<1>4. \A l \in 0..2 : Span(l) \in Nat \ {0}
  BY <1>1, <1>2, <1>3
<1>5. QED
  BY <1>1, <1>2, <1>4 DEF GuestPages

LEMMA DivUnique ==
    ASSUME NEW b \in Nat \ {0}, NEW q \in Nat, NEW r \in 0..(b - 1)
    PROVE  (b * q + r) \div b = q /\ (b * q + r) % b = r
OBVIOUS

LEMMA DivMod ==
    ASSUME NEW a \in Nat, NEW b \in Nat \ {0}
    PROVE  /\ a \div b \in Nat /\ a % b \in 0..(b - 1)
           /\ a = b * (a \div b) + (a % b)
OBVIOUS

LEMMA DivDiv ==
    ASSUME NEW a \in Nat, NEW b \in Nat \ {0}
    PROVE  (a \div b) \div b = a \div (b * b)
<1> DEFINE q == a \div b
           r == a % b
           s == q \div b
           t == q % b
<1>1. q \in Nat /\ r \in 0..(b - 1) /\ a = b * q + r
  BY DivMod
<1> HIDE DEF q, r
<1>2. s \in Nat /\ t \in 0..(b - 1) /\ q = b * s + t
  BY <1>1, DivMod
<1> HIDE DEF s, t
<1>3. b * b \in Nat \ {0} /\ b * t + r \in 0..(b * b - 1)
  <2>1. t <= b - 1 /\ b * t <= b * (b - 1)
    BY <1>2
  <2>2. b * (b - 1) = b * b - b /\ b * b \in Nat \ {0} /\ b * t \in Nat
    BY <1>2
  <2>3. QED
    BY <1>1, <2>1, <2>2
<1>4. a = (b * b) * s + (b * t + r)
  <2>1. b * (b * s + t) = b * (b * s) + b * t /\ b * (b * s) = (b * b) * s
    BY <1>2
  <2>2. QED
    BY <1>1, <1>2, <2>1
<1> DEFINE B == b * b
           R == b * t + r
<1>5. B \in Nat \ {0} /\ R \in 0..(B - 1) /\ a = B * s + R
  BY <1>3, <1>4
<1> HIDE DEF B, R
<1>6. a \div B = s
  BY <1>2, <1>5, DivUnique
<1>7. QED
  BY <1>6 DEF B, s, q

LEMMA VpnRange ==
    ASSUME NEW g \in Nat
    PROVE  /\ vpn(g, 2) \in 0..(FIRST_LV_PAGE_TABLE_LEN - 1)
           /\ vpn(g, 1) \in 0..(PAGE_TABLE_LEN - 1) /\ vpn(g, 0) \in 0..(PAGE_TABLE_LEN - 1)
<1>1. \A l \in 0..2 : g \div Span(l) \in Nat
  BY Sizes, DivMod
<1>2. /\ vpn(g, 2) = (g \div Span(2)) % FIRST_LV_PAGE_TABLE_LEN
      /\ vpn(g, 1) = (g \div Span(1)) % PAGE_TABLE_LEN
      /\ vpn(g, 0) = (g \div Span(0)) % PAGE_TABLE_LEN
  BY DEF vpn
<1>3. \A a \in Nat, b \in Nat \ {0} : a % b \in 0..(b - 1)
  BY DivMod, Zenon
<1>4. 0 \in 0..2 /\ 1 \in 0..2 /\ 2 \in 0..2
  OBVIOUS
<1>5. QED
  BY <1>1, <1>2, <1>3, <1>4, Sizes, Zenon

\* Guest pages that share their indices down to a level share the block.
LEMMA SameVpn ==
    ASSUME NEW g \in GuestPages, NEW k \in GuestPages
    PROVE  /\ vpn(g, 2) = vpn(k, 2) <=> g \div Span(2) = k \div Span(2)
           /\ vpn(g, 2) = vpn(k, 2) /\ vpn(g, 1) = vpn(k, 1) <=> g \div Span(1) = k \div Span(1)
           /\ vpn(g, 2) = vpn(k, 2) /\ vpn(g, 1) = vpn(k, 1) /\ vpn(g, 0) = vpn(k, 0) <=> g = k
<1> DEFINE P == PAGE_TABLE_LEN
           F == FIRST_LV_PAGE_TABLE_LEN
           S == Span(2)
<1>0. P \in Nat \ {0} /\ F \in Nat \ {0} /\ S \in Nat \ {0} /\ S = P * P
      /\ Span(1) = P /\ Span(0) = 1 /\ GuestPages = 0..(F * S - 1) /\ g \in Nat /\ k \in Nat
  BY Sizes
<1>1. \A x \in GuestPages : vpn(x, 2) = x \div S /\ vpn(x, 1) = (x \div P) % P /\ vpn(x, 0) = x % P
  <2>1. SUFFICES ASSUME NEW x \in GuestPages
                 PROVE  vpn(x, 2) = x \div S /\ vpn(x, 1) = (x \div P) % P /\ vpn(x, 0) = x % P
    OBVIOUS
  <2>2. vpn(x, 2) = (x \div S) % F /\ vpn(x, 1) = (x \div P) % P /\ vpn(x, 0) = (x \div 1) % P
    BY <1>0 DEF vpn
  <2> HIDE DEF P, F, S
  <2>3. x \in Nat /\ x < F * S
    BY <1>0
  <2>4. x \div S \in 0..(F - 1)
    <3>1. x \div S \in Nat /\ x % S \in Nat /\ x = S * (x \div S) + (x % S)
      <4>1. x % S \in 0..(S - 1) /\ x \div S \in Nat /\ x = S * (x \div S) + (x % S)
        BY <1>0, <2>3, DivMod, Zenon
      <4>2. QED
        BY <1>0, <4>1
    <3> DEFINE d == x \div S
               e == x % S
    <3>a. d \in Nat /\ e \in Nat /\ x = S * d + e
      BY <3>1
    <3> HIDE DEF d, e
    <3>2. d \in Nat /\ S * d <= x
      BY <1>0, <2>3, <3>a
    <3>3. d < F
      BY <1>0, <2>3, <3>2
    <3>4. QED
      BY <1>0, <3>2, <3>3 DEF d
  <2>5. (x \div S) % F = x \div S /\ x \div 1 = x
    BY <1>0, <2>3, <2>4
  <2>6. QED
    BY <2>2, <2>5
<1> HIDE DEF P, F, S
<1>2. \A x \in Nat : x \div P = P * (x \div S) + ((x \div P) % P) /\ x = P * (x \div P) + (x % P)
  <2>1. SUFFICES ASSUME NEW x \in Nat
        PROVE  x \div P = P * (x \div S) + ((x \div P) % P) /\ x = P * (x \div P) + (x % P)
    OBVIOUS
  <2>2. x \div P \in Nat /\ (x \div P) \div P = x \div S
    BY <1>0, DivMod, DivDiv
  <2>3. QED
    BY <1>0, <2>2, DivMod
<1> DEFINE gS == g \div S
           kS == k \div S
           gP == g \div P
           kP == k \div P
           g1 == gP % P
           k1 == kP % P
           g0 == g % P
           k0 == k % P
<1>v. vpn(g, 2) = gS /\ vpn(k, 2) = kS /\ vpn(g, 1) = g1 /\ vpn(k, 1) = k1
      /\ vpn(g, 0) = g0 /\ vpn(k, 0) = k0
  BY <1>1
<1>e. gP = P * gS + g1 /\ kP = P * kS + k1 /\ g = P * gP + g0 /\ k = P * kP + k0
  BY <1>0, <1>2
<1>3. /\ vpn(g, 2) = vpn(k, 2) <=> g \div S = k \div S
      /\ vpn(g, 2) = vpn(k, 2) /\ vpn(g, 1) = vpn(k, 1) => g \div P = k \div P
  <2> HIDE DEF gS, kS, gP, kP, g1, k1, g0, k0
  <2>1. /\ vpn(g, 2) = vpn(k, 2) <=> gS = kS
        /\ vpn(g, 2) = vpn(k, 2) /\ vpn(g, 1) = vpn(k, 1) => gP = kP
    BY <1>v, <1>e
  <2>2. QED
    BY <2>1, Zenon DEF gS, kS, gP, kP
<1>4. g \div P = k \div P => vpn(g, 2) = vpn(k, 2) /\ vpn(g, 1) = vpn(k, 1)
  <2>1. g \div S = (g \div P) \div P /\ k \div S = (k \div P) \div P
    BY <1>0, DivDiv
  <2>2. QED
    BY <1>1, <2>1
<1>5. g \div P = k \div P /\ vpn(g, 0) = vpn(k, 0) => g = k
  <2> HIDE DEF gS, kS, gP, kP, g1, k1, g0, k0
  <2>1. gP = kP /\ vpn(g, 0) = vpn(k, 0) => g = k
    BY <1>v, <1>e
  <2>2. QED
    BY <2>1, Zenon DEF gP, kP
<1>6. QED
  BY <1>0, <1>3, <1>4, <1>5 DEF S

----------------------------------------------------------------------------
(* Tables: a tree of three levels                                          *)

Entry == [ppn : Nat, flags : SUBSET Flags]
Indices(t) == 0..((IF t = ROOT THEN FIRST_LV_PAGE_TABLE_LEN ELSE PAGE_TABLE_LEN) - 1)

\* An entry that leads to a table, and one that maps a block for the guest.
IsTable(e) == e.flags = {"V"}
IsBlock(e) == {"R", "U", "V"} \subseteq e.flags

\* An entry of a table of level l, when L gives the level of every table.  A
\* block covers no page that is a table or may become one.
EntryOK(p, L, h, l, e) ==
    \/ e = Null
    \/ IsTable(e) /\ l # 0 /\ e.ppn \in DOMAIN p /\ L[e.ppn] = l - 1
    \/ IsBlock(e) /\ \A k \in 0..(Span(l) - 1) : e.ppn + k \notin DOMAIN p \cup h

TablesOK(p, L, h) ==
    /\ DOMAIN p \subseteq Nat /\ ROOT \in DOMAIN p /\ h \subseteq Nat /\ DOMAIN p \cap h = {}
    /\ p = [t \in DOMAIN p |-> p[t]]
    /\ L \in [DOMAIN p -> 0..2] /\ \A t \in DOMAIN p : L[t] = 2 <=> t = ROOT
    /\ \A t \in DOMAIN p : p[t] \in [Indices(t) -> Entry]
    /\ \A t \in DOMAIN p : \A i \in Indices(t) : EntryOK(p, L, h, L[t], p[t][i])
    \* No table hangs on two entries.
    /\ \A t, u \in DOMAIN p : \A i \in Indices(t), j \in Indices(u) :
          IsTable(p[t][i]) /\ IsTable(p[u][j]) /\ p[t][i].ppn = p[u][j].ppn => t = u /\ i = j

Sound(p, h) == \E L \in [DOMAIN p -> 0..2] : TablesOK(p, L, h)

\* The table that the walk of a guest page meets at a level.
NoTable == -1
Child(p, t, i) == IF t # NoTable /\ IsTable(p[t][i]) THEN p[t][i].ppn ELSE NoTable
Table1(p, g) == Child(p, ROOT, vpn(g, 2))
Table0(p, g) == Child(p, Table1(p, g), vpn(g, 1))
TableAt(p, g, l) == CASE l = 2 -> ROOT [] l = 1 -> Table1(p, g) [] l = 0 -> Table0(p, g)

\* How a guest page is mapped: the level and the entry.
Unmapped == [level |-> 3, entry |-> Null]
Mapped(l, e) == [level |-> l, entry |-> e]
Holds(p, t, i) == t # NoTable /\ IsBlock(p[t][i])
Mapping(p, g) ==
    IF Holds(p, ROOT, vpn(g, 2)) THEN Mapped(2, p[ROOT][vpn(g, 2)])
    ELSE IF Holds(p, Table1(p, g), vpn(g, 1)) THEN Mapped(1, p[Table1(p, g)][vpn(g, 1)])
    ELSE IF Holds(p, Table0(p, g), vpn(g, 0)) THEN Mapped(0, p[Table0(p, g)][vpn(g, 0)])
    ELSE Unmapped

\* Where a mapping leads the guest page.
Target(mp, g) ==
    IF mp.level # 3 /\ mp.entry.ppn % Span(mp.level) = 0
    THEN mp.entry.ppn + (g % Span(mp.level)) ELSE Fault

LEMMA EntryKinds ==
    ASSUME NEW e
    PROVE  /\ ~(IsTable(e) /\ IsBlock(e)) /\ (e = Null => ~IsTable(e) /\ ~IsBlock(e))
           /\ IsTable(e) => already_created(e) /\ ~is_leaf(e) /\ e.flags \cap {"R", "X"} = {}
           /\ IsBlock(e) => already_created(e) /\ is_leaf(e) /\ "U" \in e.flags
                            /\ e.flags \cap {"R", "X"} # {}
           /\ ~already_created(Null) /\ ~is_leaf(Null)
BY DEF IsTable, IsBlock, already_created, is_leaf, Null

LEMMA ChildFacts ==
    ASSUME NEW p, NEW L, NEW h, TablesOK(p, L, h), NEW t \in DOMAIN p, NEW i \in Indices(t)
    PROVE  \/ Child(p, t, i) = NoTable
           \/ /\ IsTable(p[t][i]) /\ Child(p, t, i) = p[t][i].ppn
              /\ Child(p, t, i) \in DOMAIN p \ {ROOT} /\ Child(p, t, i) # NoTable
              /\ L[Child(p, t, i)] = L[t] - 1 /\ L[t] # 0
<1>1. t \in Nat /\ t # NoTable
  BY DEF TablesOK, NoTable
<1>2. CASE ~IsTable(p[t][i])
  BY <1>2 DEF Child
<1>3. CASE IsTable(p[t][i])
  <2>1. EntryOK(p, L, h, L[t], p[t][i])
    BY DEF TablesOK
  <2>2. p[t][i].ppn \in DOMAIN p /\ L[p[t][i].ppn] = L[t] - 1 /\ L[t] # 0
    BY <1>3, <2>1, EntryKinds DEF EntryOK
  <2>3. L[t] \in 0..2 /\ (L[p[t][i].ppn] = 2 <=> p[t][i].ppn = ROOT)
    BY <2>2 DEF TablesOK
  <2>4. p[t][i].ppn # ROOT /\ p[t][i].ppn # NoTable
    BY <2>2, <2>3 DEF TablesOK, NoTable
  <2>5. QED
    BY <1>1, <1>3, <2>2, <2>4 DEF Child
<1>4. QED
  BY <1>2, <1>3

\* The tables on the way of a guest page, and the indices used in them.
LEMMA PathFacts ==
    ASSUME NEW p, NEW L, NEW h, TablesOK(p, L, h), NEW g \in GuestPages
    PROVE  /\ ROOT \in DOMAIN p /\ L[ROOT] = 2 /\ vpn(g, 2) \in Indices(ROOT) /\ ROOT # NoTable
           /\ \/ Table1(p, g) = NoTable
              \/ /\ Table1(p, g) \in DOMAIN p \ {ROOT} /\ Table1(p, g) # NoTable
                 /\ IsTable(p[ROOT][vpn(g, 2)]) /\ Table1(p, g) = p[ROOT][vpn(g, 2)].ppn
                 /\ L[Table1(p, g)] = 1 /\ vpn(g, 1) \in Indices(Table1(p, g))
           /\ \/ Table0(p, g) = NoTable
              \/ /\ Table0(p, g) \in DOMAIN p \ {ROOT} /\ Table0(p, g) # NoTable
                 /\ Table1(p, g) # NoTable /\ IsTable(p[Table1(p, g)][vpn(g, 1)])
                 /\ Table0(p, g) = p[Table1(p, g)][vpn(g, 1)].ppn
                 /\ L[Table0(p, g)] = 0 /\ vpn(g, 0) \in Indices(Table0(p, g))
<1>0. g \in Nat
  BY Sizes
<1>1. ROOT \in DOMAIN p /\ L[ROOT] = 2 /\ vpn(g, 2) \in Indices(ROOT) /\ ROOT # NoTable
  BY <1>0, VpnRange, HeapAssumption DEF TablesOK, Indices, NoTable
<1>2. \/ Table1(p, g) = NoTable
      \/ /\ Table1(p, g) \in DOMAIN p \ {ROOT} /\ Table1(p, g) # NoTable
         /\ IsTable(p[ROOT][vpn(g, 2)]) /\ Table1(p, g) = p[ROOT][vpn(g, 2)].ppn
         /\ L[Table1(p, g)] = 1
  BY <1>1, ChildFacts DEF Table1
<1>3. \A t \in DOMAIN p \ {ROOT} : vpn(g, 1) \in Indices(t) /\ vpn(g, 0) \in Indices(t)
  BY <1>0, VpnRange DEF Indices
<1>4. CASE Table1(p, g) = NoTable
  BY <1>1, <1>4 DEF Table0, Child
<1>5. CASE Table1(p, g) # NoTable
  <2> DEFINE t == Table1(p, g)
  <2>1. t \in DOMAIN p /\ vpn(g, 1) \in Indices(t) /\ L[t] = 1
    BY <1>2, <1>3, <1>5
  <2>2. \/ Table0(p, g) = NoTable
        \/ /\ Table0(p, g) \in DOMAIN p \ {ROOT} /\ Table0(p, g) # NoTable
           /\ IsTable(p[t][vpn(g, 1)]) /\ Table0(p, g) = p[t][vpn(g, 1)].ppn
           /\ L[Table0(p, g)] = 0
    BY <2>1, ChildFacts DEF Table0
  <2>3. QED
    BY <1>1, <1>2, <1>3, <1>5, <2>2
<1>6. QED
  BY <1>4, <1>5

\* Both walks follow the tree: the hardware's to the mapping or a fault, and
\* trans_addr, wherever there is a mapping, to the same page.
LEMMA WalkFacts ==
    ASSUME NEW p, NEW h, Sound(p, h), NEW g \in GuestPages
    PROVE  /\ hw_walk(p, g) = Target(Mapping(p, g), g)
           /\ hw_walk(p, g) # Fault => trans_addr(p, g) = hw_walk(p, g)
<1>0. PICK L \in [DOMAIN p -> 0..2] : TablesOK(p, L, h)
  BY DEF Sound
<1> DEFINE t1 == Table1(p, g)
           t0 == Table0(p, g)
           e2 == p[ROOT][vpn(g, 2)]
           e1 == p[t1][vpn(g, 1)]
           e0 == p[t0][vpn(g, 0)]
           x1 == At(p, e2.ppn, vpn(g, 1))
           x0 == At(p, x1.ppn, vpn(g, 0))
           hwSpan(e, l) == IF "U" \in e.flags /\ e.ppn % Span(l) = 0
                           THEN e.ppn + (g % Span(l)) ELSE Fault
           swSpan(e, l) == IF e.ppn % Span(l) = 0 THEN e.ppn + (g % Span(l)) ELSE Stop
           leaf(e) == e.flags \cap {"R", "X"} # {}
<1>p. /\ ROOT \in DOMAIN p /\ vpn(g, 2) \in Indices(ROOT) /\ ROOT # NoTable
      /\ \/ t1 = NoTable
         \/ /\ t1 \in DOMAIN p /\ IsTable(e2) /\ t1 = e2.ppn /\ vpn(g, 1) \in Indices(t1)
      /\ \/ t0 = NoTable
         \/ /\ t0 \in DOMAIN p /\ t1 # NoTable /\ IsTable(e1) /\ t0 = e1.ppn
            /\ vpn(g, 0) \in Indices(t0)
  BY <1>0, PathFacts
<1>k. \A t \in DOMAIN p : \A i \in Indices(t) :
         p[t][i] = Null \/ IsTable(p[t][i]) \/ IsBlock(p[t][i])
  BY <1>0 DEF TablesOK, EntryOK
<1>h. hw_walk(p, g) = IF "V" \notin e2.flags THEN Fault
                      ELSE IF leaf(e2) THEN hwSpan(e2, 2)
                      ELSE IF "V" \notin x1.flags THEN Fault
                      ELSE IF leaf(x1) THEN hwSpan(x1, 1)
                      ELSE IF "V" \notin x0.flags \/ ~leaf(x0) THEN Fault
                      ELSE hwSpan(x0, 0)
  BY <1>p DEF hw_walk, At
<1>s. trans_addr(p, g) = IF is_leaf(e2) THEN swSpan(e2, 2)
                         ELSE IF e2.ppn \notin DOMAIN p THEN Wild
                         ELSE IF is_leaf(x1) THEN swSpan(x1, 1)
                         ELSE IF x1.ppn \notin DOMAIN p THEN Wild
                         ELSE IF is_leaf(x0) THEN x0.ppn
                         ELSE Stop
  BY <1>p DEF trans_addr, At
<1>m. Mapping(p, g) = IF IsBlock(e2) THEN Mapped(2, e2)
                      ELSE IF t1 # NoTable /\ IsBlock(e1) THEN Mapped(1, e1)
                      ELSE IF t0 # NoTable /\ IsBlock(e0) THEN Mapped(0, e0)
                      ELSE Unmapped
  BY <1>p DEF Mapping, Holds
<1>t. \A l \in 0..2 : \A e : IsBlock(e) => Target(Mapped(l, e), g) = hwSpan(e, l)
  BY EntryKinds DEF Target, Mapped
<1>n. \A t \in DOMAIN p : \A i \in Indices(t) : p[t][i].ppn # NoTable
  BY <1>0 DEF TablesOK, Entry, NoTable
<1>c1. t1 = NoTable => ~IsTable(e2)
  BY <1>p, <1>n DEF Table1, Child
<1>c0. t1 # NoTable /\ t0 = NoTable => ~IsTable(e1)
  BY <1>p, <1>n DEF Table0, Child
<1>u. Target(Unmapped, g) = Fault
  BY DEF Target, Unmapped
<1>1. CASE IsBlock(e2)
  <2>1. hw_walk(p, g) = hwSpan(e2, 2) /\ Mapping(p, g) = Mapped(2, e2)
        /\ trans_addr(p, g) = swSpan(e2, 2) /\ "U" \in e2.flags
    BY <1>1, <1>h, <1>m, <1>s, EntryKinds DEF already_created
  <2>2. QED
    BY <1>1, <1>t, <2>1
<1>2. CASE e2 = Null
  <2>1. hw_walk(p, g) = Fault /\ ~IsTable(e2) /\ ~IsBlock(e2)
    BY <1>2, <1>h, EntryKinds DEF already_created
  <2>2. Mapping(p, g) = Unmapped
    BY <1>m, <1>p, <2>1
  <2>3. QED
    BY <1>u, <2>1, <2>2
<1>3. CASE IsTable(e2)
  <2>1. t1 # NoTable /\ t1 = e2.ppn /\ t1 \in DOMAIN p /\ vpn(g, 1) \in Indices(t1) /\ x1 = e1
    BY <1>3, <1>p, <1>c1 DEF At
  <2>2. ~leaf(e2) /\ "V" \in e2.flags /\ ~is_leaf(e2) /\ ~IsBlock(e2)
    BY <1>3, EntryKinds DEF already_created
  <2>3. CASE IsBlock(e1)
    <3>1. hw_walk(p, g) = hwSpan(e1, 1) /\ Mapping(p, g) = Mapped(1, e1)
          /\ trans_addr(p, g) = swSpan(e1, 1) /\ "U" \in e1.flags
      BY <2>1, <2>2, <2>3, <1>h, <1>m, <1>s, EntryKinds DEF already_created
    <3>2. QED
      BY <1>t, <2>3, <3>1
  <2>4. CASE e1 = Null
    <3>1. hw_walk(p, g) = Fault /\ ~IsTable(e1) /\ ~IsBlock(e1)
      BY <2>1, <2>2, <2>4, <1>h, EntryKinds DEF already_created
    <3>2. Mapping(p, g) = Unmapped
      BY <1>m, <1>p, <2>2, <3>1
    <3>3. QED
      BY <1>u, <3>1, <3>2
  <2>5. CASE IsTable(e1)
    <3>1. t0 # NoTable /\ t0 = e1.ppn /\ t0 \in DOMAIN p /\ vpn(g, 0) \in Indices(t0) /\ x0 = e0
      BY <2>1, <2>5, <1>p, <1>c0 DEF At
    <3>2. ~leaf(e1) /\ "V" \in e1.flags /\ ~is_leaf(e1) /\ ~IsBlock(e1)
      BY <2>5, EntryKinds DEF already_created
    <3>3. CASE IsBlock(e0)
      <4>1. hw_walk(p, g) = hwSpan(e0, 0) /\ Mapping(p, g) = Mapped(0, e0)
            /\ trans_addr(p, g) = e0.ppn /\ "U" \in e0.flags
        BY <2>1, <2>2, <3>1, <3>2, <3>3, <1>h, <1>m, <1>s, EntryKinds DEF already_created
      <4>2. e0.ppn \in Nat /\ g \in Nat /\ Span(0) = 1
        BY <1>0, <3>1, Sizes DEF TablesOK, Entry
      <4>3. hwSpan(e0, 0) = e0.ppn
        BY <4>1, <4>2
      <4>4. QED
        BY <1>t, <3>3, <4>1, <4>3
    <3>4. CASE ~IsBlock(e0)
      <4>1. e0 = Null \/ IsTable(e0)
        BY <1>k, <3>1, <3>4
      <4>2. hw_walk(p, g) = Fault
        BY <2>1, <2>2, <3>1, <3>2, <4>1, <1>h, EntryKinds DEF already_created
      <4>3. Mapping(p, g) = Unmapped
        BY <1>m, <2>2, <3>2, <3>4
      <4>4. QED
        BY <1>u, <4>2, <4>3
    <3>5. QED
      BY <3>3, <3>4
  <2>6. QED
    BY <1>k, <2>1, <2>3, <2>4, <2>5
<1>4. QED
  BY <1>k, <1>p, <1>1, <1>2, <1>3

----------------------------------------------------------------------------
(* Writing an entry                                                        *)

\* A guest page uses the entry that another one uses at a level exactly if both
\* lie in the same block of that level.
LEMMA SameSlot ==
    ASSUME NEW p, NEW L, NEW h, TablesOK(p, L, h), NEW g \in GuestPages,
           NEW page \in GuestPages, NEW l \in 0..2, TableAt(p, page, l) # NoTable
    PROVE  TableAt(p, g, l) = TableAt(p, page, l) /\ vpn(g, l) = vpn(page, l)
             <=> g \div Span(l) = page \div Span(l)
<1>i. ASSUME NEW t \in DOMAIN p, NEW u \in DOMAIN p, NEW i \in Indices(t), NEW j \in Indices(u),
             IsTable(p[t][i]), IsTable(p[u][j]), p[t][i].ppn = p[u][j].ppn
      PROVE  t = u /\ i = j
  BY <1>i DEF TablesOK
<1>g. /\ ROOT \in DOMAIN p /\ vpn(g, 2) \in Indices(ROOT)
      /\ \/ Table1(p, g) = NoTable
         \/ /\ Table1(p, g) \in DOMAIN p /\ IsTable(p[ROOT][vpn(g, 2)])
            /\ Table1(p, g) = p[ROOT][vpn(g, 2)].ppn /\ vpn(g, 1) \in Indices(Table1(p, g))
      /\ \/ Table0(p, g) = NoTable
         \/ /\ Table1(p, g) # NoTable /\ IsTable(p[Table1(p, g)][vpn(g, 1)])
            /\ Table0(p, g) = p[Table1(p, g)][vpn(g, 1)].ppn
  BY PathFacts
<1>p. /\ vpn(page, 2) \in Indices(ROOT)
      /\ \/ Table1(p, page) = NoTable
         \/ /\ Table1(p, page) \in DOMAIN p /\ IsTable(p[ROOT][vpn(page, 2)])
            /\ Table1(p, page) = p[ROOT][vpn(page, 2)].ppn
            /\ vpn(page, 1) \in Indices(Table1(p, page))
      /\ \/ Table0(p, page) = NoTable
         \/ /\ Table1(p, page) # NoTable /\ IsTable(p[Table1(p, page)][vpn(page, 1)])
            /\ Table0(p, page) = p[Table1(p, page)][vpn(page, 1)].ppn
  BY PathFacts
<1>1. Table1(p, page) # NoTable /\ Table1(p, g) = Table1(p, page) => vpn(g, 2) = vpn(page, 2)
  BY <1>g, <1>p, <1>i
<1>2. vpn(g, 2) = vpn(page, 2) => Table1(p, g) = Table1(p, page)
  BY DEF Table1
<1>3. Table0(p, page) # NoTable /\ Table0(p, g) = Table0(p, page)
        => Table1(p, g) = Table1(p, page) /\ Table1(p, page) # NoTable /\ vpn(g, 1) = vpn(page, 1)
  BY <1>g, <1>p, <1>i
<1>4. Table1(p, g) = Table1(p, page) /\ vpn(g, 1) = vpn(page, 1) => Table0(p, g) = Table0(p, page)
  BY DEF Table0
<1>5. CASE l = 2
  BY <1>5, SameVpn DEF TableAt
<1>6. CASE l = 1
  <2>1. TableAt(p, g, 1) = Table1(p, g) /\ TableAt(p, page, 1) = Table1(p, page)
    BY DEF TableAt
  <2>2. Table1(p, page) # NoTable
    BY <1>6, <2>1
  <2>3. Table1(p, g) = Table1(p, page) /\ vpn(g, 1) = vpn(page, 1)
          <=> g \div Span(1) = page \div Span(1)
    BY <1>1, <1>2, <2>2, SameVpn, Zenon
  <2>4. QED
    BY <1>6, <2>1, <2>3
<1>7. CASE l = 0
  <2>1. g \div Span(0) = g /\ page \div Span(0) = page
    BY Sizes
  <2>2. TableAt(p, g, 0) = Table0(p, g) /\ TableAt(p, page, 0) = Table0(p, page)
    BY DEF TableAt
  <2>3. Table0(p, page) # NoTable
    BY <1>7, <2>2
  <2>4. Table0(p, g) = Table0(p, page) /\ vpn(g, 0) = vpn(page, 0) <=> g = page
    BY <1>1, <1>2, <1>3, <1>4, <2>3, SameVpn
  <2>5. QED
    BY <1>7, <2>1, <2>2, <2>4
<1>8. QED
  BY <1>5, <1>6, <1>7

BlockSet(p, L, h, page, l, e, q) ==
    /\ TablesOK(q, L, h) /\ DOMAIN q = DOMAIN p
    /\ \A g \in GuestPages :
          Mapping(q, g) = IF g \div Span(l) = page \div Span(l)
                          THEN Mapped(l, e) ELSE Mapping(p, g)
    /\ \A u \in DOMAIN q : \A j \in Indices(u) : q[u][j] \in {e, p[u][j]}

\* "End of translation": a block entry maps its block, and changes nothing else.
LEMMA SetBlock ==
    ASSUME NEW p, NEW L, NEW h, TablesOK(p, L, h), NEW page \in GuestPages, NEW l \in 0..2,
           TableAt(p, page, l) # NoTable, NEW e \in Entry, IsBlock(e),
           \A k \in 0..(Span(l) - 1) : e.ppn + k \notin DOMAIN p \cup h,
           NEW q, q = [p EXCEPT ![TableAt(p, page, l)][vpn(page, l)] = e]
    PROVE  BlockSet(p, L, h, page, l, e, q)
<1> DEFINE t == TableAt(p, page, l)
           i == vpn(page, l)
<1>1. t \in DOMAIN p /\ L[t] = l /\ i \in Indices(t)
  BY PathFacts DEF TableAt
<1>2. /\ DOMAIN q = DOMAIN p /\ \A u \in DOMAIN p \ {t} : q[u] = p[u]
      /\ q[t] = [p[t] EXCEPT ![i] = e] /\ p[t] \in [Indices(t) -> Entry]
      /\ q = [u \in DOMAIN q |-> q[u]]
  BY <1>1 DEF TablesOK
<1>3. q[t][i] = e /\ \A j \in Indices(t) \ {i} : q[t][j] = p[t][j]
  BY <1>1, <1>2
<1>4. \A u \in DOMAIN p : \A j \in Indices(u) :
         (u = t /\ j = i /\ q[u][j] = e) \/ (~(u = t /\ j = i) /\ q[u][j] = p[u][j])
  BY <1>2, <1>3
<1> HIDE DEF t, i
<1>5. TablesOK(q, L, h)
  <2>1. \A u \in DOMAIN q : q[u] \in [Indices(u) -> Entry]
    BY <1>1, <1>2 DEF TablesOK
  <2>2. \A u \in DOMAIN q : \A j \in Indices(u) : EntryOK(q, L, h, L[u], q[u][j])
    BY <1>1, <1>2, <1>4 DEF TablesOK, EntryOK
  <2>3. \A u, v \in DOMAIN q : \A j \in Indices(u), k \in Indices(v) :
           IsTable(q[u][j]) /\ IsTable(q[v][k]) /\ q[u][j].ppn = q[v][k].ppn => u = v /\ j = k
    <3>1. ~IsTable(e)
      BY EntryKinds
    <3>2. QED
      BY <1>2, <1>4, <3>1 DEF TablesOK
  <2>4. QED
    BY <1>2, <2>1, <2>2, <2>3 DEF TablesOK
<1>6. ASSUME NEW g \in GuestPages
      PROVE  Mapping(q, g) = IF TableAt(p, g, l) = t /\ vpn(g, l) = i
                             THEN Mapped(l, e) ELSE Mapping(p, g)
  <2> DEFINE t1 == Table1(p, g)
             t0 == Table0(p, g)
             s1 == Table1(q, g)
             s0 == Table0(q, g)
             v2 == vpn(g, 2)
             v1 == vpn(g, 1)
             v0 == vpn(g, 0)
  <2>p. /\ ROOT \in DOMAIN p /\ L[ROOT] = 2 /\ v2 \in Indices(ROOT) /\ ROOT # NoTable
        /\ t1 = NoTable \/ (t1 \in DOMAIN p /\ L[t1] = 1 /\ v1 \in Indices(t1))
        /\ t0 = NoTable \/ (t0 \in DOMAIN p /\ L[t0] = 0 /\ v0 \in Indices(t0) /\ t1 # NoTable)
    BY PathFacts
  <2>m. Mapping(p, g) = IF Holds(p, ROOT, v2) THEN Mapped(2, p[ROOT][v2])
                        ELSE IF Holds(p, t1, v1) THEN Mapped(1, p[t1][v1])
                        ELSE IF Holds(p, t0, v0) THEN Mapped(0, p[t0][v0])
                        ELSE Unmapped
    BY DEF Mapping
  <2>n. Mapping(q, g) = IF Holds(q, ROOT, v2) THEN Mapped(2, q[ROOT][v2])
                        ELSE IF Holds(q, s1, v1) THEN Mapped(1, q[s1][v1])
                        ELSE IF Holds(q, s0, v0) THEN Mapped(0, q[s0][v0])
                        ELSE Unmapped
    BY DEF Mapping
  <2>c. /\ t1 = Child(p, ROOT, v2) /\ t0 = Child(p, t1, v1)
        /\ s1 = Child(q, ROOT, v2) /\ s0 = Child(q, s1, v1)
    BY DEF Table1, Table0
  <2>a. TableAt(p, g, 2) = ROOT /\ TableAt(p, g, 1) = t1 /\ TableAt(p, g, 0) = t0
    BY DEF TableAt
  <2> HIDE DEF t1, t0, s1, s0, v2, v1, v0
  <2>u. ASSUME NEW u \in DOMAIN p, NEW j \in Indices(u), ~(u = t /\ j = i)
        PROVE  Child(q, u, j) = Child(p, u, j) /\ Holds(q, u, j) = Holds(p, u, j)
               /\ q[u][j] = p[u][j]
    BY <2>u, <1>4 DEF Child, Holds
  <2>1. CASE l = 2
    <3>1. t = ROOT /\ t1 # ROOT /\ t0 # ROOT
      BY <1>1, <2>1, <2>p DEF t, TableAt
    <3>2. CASE v2 = i
      <4>1. Holds(q, ROOT, v2) /\ q[ROOT][v2] = e
        BY <1>3, <2>p, <3>1, <3>2 DEF Holds
      <4>2. QED
        BY <2>1, <2>n, <2>a, <3>1, <3>2, <4>1 DEF v2
    <3>3. CASE v2 # i
      <4>1. Child(q, ROOT, v2) = Child(p, ROOT, v2) /\ Holds(q, ROOT, v2) = Holds(p, ROOT, v2)
            /\ q[ROOT][v2] = p[ROOT][v2]
        BY <2>p, <2>u, <3>3
      <4>2. s1 = t1
        BY <2>c, <4>1
      <4>3. t1 # NoTable => /\ Child(q, t1, v1) = Child(p, t1, v1)
                            /\ Holds(q, t1, v1) = Holds(p, t1, v1) /\ q[t1][v1] = p[t1][v1]
        BY <2>p, <2>u, <3>1
      <4>4. s0 = t0 /\ Holds(q, t1, v1) = Holds(p, t1, v1)
        BY <2>c, <4>2, <4>3 DEF Child, Holds
      <4>5. t0 # NoTable => Holds(q, t0, v0) = Holds(p, t0, v0) /\ q[t0][v0] = p[t0][v0]
        BY <2>p, <2>u, <3>1
      <4>6. Holds(q, t0, v0) = Holds(p, t0, v0)
        BY <4>5 DEF Holds
      <4>7. Mapping(q, g) = Mapping(p, g)
        BY <2>m, <2>n, <4>1, <4>2, <4>3, <4>4, <4>5, <4>6 DEF Holds
      <4>8. QED
        BY <2>1, <3>3, <4>7 DEF v2
    <3>4. QED
      BY <3>2, <3>3
  <2>2. CASE l = 1
    <3>1. t # ROOT /\ t0 # t /\ t # NoTable
      BY <1>1, <2>2, <2>p DEF t
    <3>2. Child(q, ROOT, v2) = Child(p, ROOT, v2) /\ Holds(q, ROOT, v2) = Holds(p, ROOT, v2)
          /\ q[ROOT][v2] = p[ROOT][v2]
      BY <2>p, <2>u, <3>1
    <3>3. s1 = t1
      BY <2>c, <3>2
    <3>4. CASE t1 = t /\ v1 = i
      <4>1. Holds(q, t1, v1) /\ q[t1][v1] = e
        BY <1>3, <3>1, <3>4 DEF Holds
      <4>2. ~Holds(p, ROOT, v2)
        <5>1. IsTable(p[ROOT][v2])
          BY <2>c, <2>p, <3>1, <3>4 DEF Child
        <5>2. QED
          BY <5>1, EntryKinds DEF Holds
      <4>3. QED
        BY <2>2, <2>n, <2>a, <3>2, <3>3, <3>4, <4>1, <4>2 DEF v1
    <3>5. CASE ~(t1 = t /\ v1 = i)
      <4>1. t1 # NoTable => /\ Child(q, t1, v1) = Child(p, t1, v1)
                            /\ Holds(q, t1, v1) = Holds(p, t1, v1) /\ q[t1][v1] = p[t1][v1]
        BY <2>p, <2>u, <3>5
      <4>2. s0 = t0 /\ Holds(q, t1, v1) = Holds(p, t1, v1)
        BY <2>c, <3>3, <4>1 DEF Child, Holds
      <4>3. t0 # NoTable => Holds(q, t0, v0) = Holds(p, t0, v0) /\ q[t0][v0] = p[t0][v0]
        BY <2>p, <2>u, <3>1
      <4>4. Holds(q, t0, v0) = Holds(p, t0, v0)
        BY <4>3 DEF Holds
      <4>5. Mapping(q, g) = Mapping(p, g)
        BY <2>m, <2>n, <3>2, <3>3, <4>1, <4>2, <4>3, <4>4 DEF Holds
      <4>6. QED
        BY <2>2, <2>a, <3>5, <4>5 DEF v1
    <3>6. QED
      BY <3>4, <3>5
  <2>3. CASE l = 0
    <3>1. t # ROOT /\ t1 # t /\ t # NoTable
      BY <1>1, <2>3, <2>p DEF t
    <3>2. Child(q, ROOT, v2) = Child(p, ROOT, v2) /\ Holds(q, ROOT, v2) = Holds(p, ROOT, v2)
          /\ q[ROOT][v2] = p[ROOT][v2]
      BY <2>p, <2>u, <3>1
    <3>3. s1 = t1
      BY <2>c, <3>2
    <3>4. t1 # NoTable => /\ Child(q, t1, v1) = Child(p, t1, v1)
                          /\ Holds(q, t1, v1) = Holds(p, t1, v1) /\ q[t1][v1] = p[t1][v1]
      BY <2>p, <2>u, <3>1
    <3>5. s0 = t0 /\ Holds(q, t1, v1) = Holds(p, t1, v1)
      BY <2>c, <3>3, <3>4 DEF Child, Holds
    <3>6. CASE t0 = t /\ v0 = i
      <4>1. Holds(q, t0, v0) /\ q[t0][v0] = e
        BY <1>3, <3>1, <3>6 DEF Holds
      <4>2. t1 # NoTable /\ IsTable(p[t1][v1]) /\ IsTable(p[ROOT][v2])
        BY <2>c, <2>p, <3>1, <3>6 DEF Child
      <4>3. ~Holds(p, ROOT, v2) /\ ~Holds(p, t1, v1)
        BY <4>2, EntryKinds DEF Holds
      <4>4. QED
        BY <2>3, <2>n, <2>a, <3>2, <3>3, <3>5, <3>6, <4>1, <4>3 DEF v0
    <3>7. CASE ~(t0 = t /\ v0 = i)
      <4>1. t0 # NoTable => Holds(q, t0, v0) = Holds(p, t0, v0) /\ q[t0][v0] = p[t0][v0]
        BY <2>p, <2>u, <3>7
      <4>2. Holds(q, t0, v0) = Holds(p, t0, v0)
        BY <4>1 DEF Holds
      <4>3. Mapping(q, g) = Mapping(p, g)
        BY <2>m, <2>n, <3>2, <3>3, <3>4, <3>5, <4>1, <4>2 DEF Holds
      <4>4. QED
        BY <2>3, <2>a, <3>7, <4>3 DEF v0
    <3>8. QED
      BY <3>6, <3>7
  <2>4. QED
    BY <2>1, <2>2, <2>3
<1>7. ASSUME NEW g \in GuestPages
      PROVE  Mapping(q, g) = IF g \div Span(l) = page \div Span(l)
                             THEN Mapped(l, e) ELSE Mapping(p, g)
  <2>1. TableAt(p, g, l) = t /\ vpn(g, l) = i <=> g \div Span(l) = page \div Span(l)
    BY SameSlot DEF t, i
  <2>2. QED
    BY <1>6, <2>1, Zenon
<1>8. QED
  BY <1>2, <1>4, <1>5, <1>7 DEF BlockSet

WithNewTable(p, t, i, n) ==
    [WithTable(p, n, EmptyTable) EXCEPT ![t][i] = PageTableEntry(n, {"V"})]

NewTableMade(p, h, page, l, n, q) ==
    /\ Sound(q, h \ {n}) /\ DOMAIN q = DOMAIN p \cup {n}
    /\ TableAt(q, page, l - 1) = n /\ n # NoTable
    /\ \A g \in GuestPages : Mapping(q, g) = Mapping(p, g)
    /\ \A u \in DOMAIN q : \A j \in Indices(u) :
          \/ q[u][j].ppn \in {0, n}
          \/ u \in DOMAIN p /\ q[u][j] = p[u][j]

\* "Create next level page table": the new table maps nothing yet.
LEMMA NewTable ==
    ASSUME NEW p, NEW L, NEW h, TablesOK(p, L, h), NEW page \in GuestPages, NEW l \in 1..2,
           TableAt(p, page, l) # NoTable, p[TableAt(p, page, l)][vpn(page, l)] = Null, NEW n \in h,
           NEW q, q = WithNewTable(p, TableAt(p, page, l), vpn(page, l), n)
    PROVE  NewTableMade(p, h, page, l, n, q)
<1> DEFINE t == TableAt(p, page, l)
           i == vpn(page, l)
           e == PageTableEntry(n, {"V"})
           M == [u \in DOMAIN p \cup {n} |-> IF u = n THEN l - 1 ELSE L[u]]
<1>1. t \in DOMAIN p /\ L[t] = l /\ i \in Indices(t) /\ t # NoTable
  BY PathFacts DEF TableAt
<1>n. n \in Nat /\ n \notin DOMAIN p /\ n # ROOT /\ n # NoTable /\ n # t
  BY <1>1 DEF TablesOK, NoTable
<1>2. /\ DOMAIN q = DOMAIN p \cup {n} /\ \A u \in DOMAIN p \ {t} : q[u] = p[u]
      /\ q[n] = EmptyTable
      /\ q[t] = [p[t] EXCEPT ![i] = e] /\ p[t] \in [Indices(t) -> Entry]
      /\ q = [u \in DOMAIN q |-> q[u]]
  <2> DEFINE r == WithTable(p, n, EmptyTable)
  <2>1. /\ DOMAIN r = DOMAIN p \cup {n} /\ r[n] = EmptyTable /\ \A u \in DOMAIN p : r[u] = p[u]
        /\ r = [u \in DOMAIN r |-> r[u]]
    BY <1>n DEF WithTable
  <2>2. q = [r EXCEPT ![t] = [r[t] EXCEPT ![i] = e]]
    BY DEF WithNewTable
  <2>3. p[t] \in [Indices(t) -> Entry]
    BY <1>1 DEF TablesOK
  <2> HIDE DEF r, t, i, e
  <2>4. q = [u \in DOMAIN r |-> IF u = t THEN [p[t] EXCEPT ![i] = e] ELSE r[u]]
    BY <1>1, <2>1, <2>2
  <2>5. QED
    BY <1>1, <1>n, <2>1, <2>3, <2>4
<1>3. q[t][i] = e /\ \A j \in Indices(t) \ {i} : q[t][j] = p[t][j]
  BY <1>1, <1>2
<1>4. \A u \in DOMAIN p : \A j \in Indices(u) :
         (u = t /\ j = i /\ q[u][j] = e) \/ (~(u = t /\ j = i) /\ q[u][j] = p[u][j])
  BY <1>2, <1>3
<1>e. e \in Entry /\ IsTable(e) /\ e.ppn = n /\ ~IsBlock(e) /\ Null \in Entry
      /\ ~IsBlock(Null) /\ ~IsTable(Null)
  BY <1>n, EntryKinds DEF PageTableEntry, Entry, IsTable, Flags, Null
<1>z. Indices(n) = 0..(PAGE_TABLE_LEN - 1) /\ \A j \in Indices(n) : q[n][j] = Null
  BY <1>n, <1>2 DEF Indices, EmptyTable
<1>m. /\ M \in [DOMAIN q -> 0..2] /\ M[n] = l - 1 /\ \A u \in DOMAIN p : M[u] = L[u]
      /\ M[n] # 2
  BY <1>n, <1>2 DEF TablesOK
<1> HIDE DEF t, i, e, M
<1>5. TablesOK(q, M, h \ {n})
  <2>1. \A u \in DOMAIN q : q[u] \in [Indices(u) -> Entry]
    <3>1. q[n] \in [Indices(n) -> Entry]
      BY <1>2, <1>e, <1>z DEF EmptyTable
    <3>2. q[t] \in [Indices(t) -> Entry]
      <4>1. \A x \in Entry : [p[t] EXCEPT ![i] = x] \in [Indices(t) -> Entry]
        BY <1>2
      <4>2. QED
        BY <1>2, <1>e, <4>1
    <3>3. QED
      BY <1>2, <3>1, <3>2 DEF TablesOK
  <2>2. ASSUME NEW u \in DOMAIN q, NEW j \in Indices(u)
        PROVE  EntryOK(q, M, h \ {n}, M[u], q[u][j])
    <3>1. CASE u = n
      BY <1>z, <3>1 DEF EntryOK
    <3>2. CASE u = t /\ j = i
      BY <1>1, <1>2, <1>3, <1>e, <1>m, <3>2 DEF EntryOK
    <3>3. CASE u # n /\ ~(u = t /\ j = i)
      <4>1. u \in DOMAIN p /\ q[u][j] = p[u][j] /\ M[u] = L[u]
        BY <1>2, <1>4, <1>m, <3>3
      <4>2. EntryOK(p, L, h, L[u], p[u][j])
        BY <4>1 DEF TablesOK
      <4>3. DOMAIN q \cup (h \ {n}) = DOMAIN p \cup h
        BY <1>2
      <4>4. CASE p[u][j] = Null
        BY <4>1, <4>4 DEF EntryOK
      <4>5. CASE IsTable(p[u][j])
        BY <1>2, <1>m, <4>1, <4>2, <4>5, EntryKinds DEF EntryOK
      <4>6. CASE IsBlock(p[u][j])
        BY <4>1, <4>2, <4>3, <4>6, EntryKinds DEF EntryOK
      <4>7. QED
        BY <4>2, <4>4, <4>5, <4>6 DEF EntryOK
    <3>4. QED
      BY <3>1, <3>2, <3>3
  <2>3. ASSUME NEW u \in DOMAIN q, NEW v \in DOMAIN q, NEW j \in Indices(u), NEW k \in Indices(v),
               IsTable(q[u][j]), IsTable(q[v][k]), q[u][j].ppn = q[v][k].ppn
        PROVE  u = v /\ j = k
    <3>1. u # n /\ v # n
      BY <1>e, <1>z, <2>3
    <3>2. \A w \in DOMAIN p : \A x \in Indices(w) : IsTable(p[w][x]) => p[w][x].ppn # n
      BY <1>n, EntryKinds DEF TablesOK, EntryOK
    <3>3. u \in DOMAIN p /\ v \in DOMAIN p
      BY <1>2, <3>1
    <3>4. (u = t /\ j = i) <=> (v = t /\ k = i)
      BY <1>4, <1>e, <2>3, <3>2, <3>3
    <3>5. CASE u = t /\ j = i
      BY <3>4, <3>5
    <3>6. CASE ~(u = t /\ j = i)
      <4>1. q[u][j] = p[u][j] /\ q[v][k] = p[v][k]
        BY <1>4, <3>3, <3>4, <3>6
      <4>2. QED
        BY <2>3, <3>3, <4>1 DEF TablesOK
    <3>7. QED
      BY <3>5, <3>6
  <2>4. /\ DOMAIN q \subseteq Nat /\ ROOT \in DOMAIN q /\ h \ {n} \subseteq Nat
        /\ DOMAIN q \cap (h \ {n}) = {} /\ \A u \in DOMAIN q : M[u] = 2 <=> u = ROOT
    BY <1>n, <1>2, <1>m DEF TablesOK
  <2>5. QED
    <3>1. \A u \in DOMAIN q : \A j \in Indices(u) : EntryOK(q, M, h \ {n}, M[u], q[u][j])
      BY <2>2
    <3>2. \A u, v \in DOMAIN q : \A j \in Indices(u), k \in Indices(v) :
             IsTable(q[u][j]) /\ IsTable(q[v][k]) /\ q[u][j].ppn = q[v][k].ppn => u = v /\ j = k
      BY <2>3
    <3>3. q = [u \in DOMAIN q |-> q[u]] /\ M \in [DOMAIN q -> 0..2]
      BY <1>2, <1>m
    <3>4. QED
      BY <2>1, <2>4, <3>1, <3>2, <3>3, Zenon DEF TablesOK
<1>6. ASSUME NEW g \in GuestPages
      PROVE  Mapping(q, g) = Mapping(p, g)
  <2> DEFINE t1 == Table1(p, g)
             t0 == Table0(p, g)
             s1 == Table1(q, g)
             s0 == Table0(q, g)
             v2 == vpn(g, 2)
             v1 == vpn(g, 1)
             v0 == vpn(g, 0)
  <2>p. /\ ROOT \in DOMAIN p /\ L[ROOT] = 2 /\ v2 \in Indices(ROOT) /\ ROOT # NoTable
        /\ t1 = NoTable \/ (t1 \in DOMAIN p /\ L[t1] = 1 /\ v1 \in Indices(t1))
        /\ t0 = NoTable \/ (t0 \in DOMAIN p /\ L[t0] = 0 /\ v0 \in Indices(t0) /\ t1 # NoTable)
    BY PathFacts
  <2>m. Mapping(p, g) = IF Holds(p, ROOT, v2) THEN Mapped(2, p[ROOT][v2])
                        ELSE IF Holds(p, t1, v1) THEN Mapped(1, p[t1][v1])
                        ELSE IF Holds(p, t0, v0) THEN Mapped(0, p[t0][v0])
                        ELSE Unmapped
    BY DEF Mapping
  <2>n. Mapping(q, g) = IF Holds(q, ROOT, v2) THEN Mapped(2, q[ROOT][v2])
                        ELSE IF Holds(q, s1, v1) THEN Mapped(1, q[s1][v1])
                        ELSE IF Holds(q, s0, v0) THEN Mapped(0, q[s0][v0])
                        ELSE Unmapped
    BY DEF Mapping
  <2>c. /\ t1 = Child(p, ROOT, v2) /\ t0 = Child(p, t1, v1)
        /\ s1 = Child(q, ROOT, v2) /\ s0 = Child(q, s1, v1)
    BY DEF Table1, Table0
  <2>z. v1 \in Indices(n) /\ v0 \in Indices(n)
    BY <1>z, Sizes, VpnRange
  <2> HIDE DEF t1, t0, s1, s0, v2, v1, v0
  <2>u. ASSUME NEW u \in DOMAIN p, NEW j \in Indices(u), ~(u = t /\ j = i)
        PROVE  Child(q, u, j) = Child(p, u, j) /\ Holds(q, u, j) = Holds(p, u, j)
               /\ q[u][j] = p[u][j]
    BY <2>u, <1>4 DEF Child, Holds
  <2>w. ASSUME NEW j \in Indices(n)
        PROVE  Child(q, n, j) = NoTable /\ ~Holds(q, n, j)
    BY <1>e, <1>z DEF Child, Holds
  <2>t. /\ Child(q, t, i) = n /\ ~Holds(q, t, i)
        /\ Child(p, t, i) = NoTable /\ ~Holds(p, t, i)
    BY <1>1, <1>3, <1>e DEF Child, Holds, t, i
  <2>x. \A r, j : ~Holds(r, NoTable, j) /\ Child(r, NoTable, j) = NoTable
    BY DEF Holds, Child
  <2>1. CASE ROOT = t /\ v2 = i
    <3>1. s1 = n /\ t1 = NoTable /\ ~Holds(q, ROOT, v2) /\ ~Holds(p, ROOT, v2)
      BY <2>1, <2>c, <2>t
    <3>2. s0 = NoTable /\ t0 = NoTable /\ ~Holds(q, s1, v1)
      BY <2>c, <2>w, <2>x, <2>z, <3>1
    <3>3. QED
      BY <2>m, <2>n, <2>x, <3>1, <3>2
  <2>2. CASE ~(ROOT = t /\ v2 = i)
    <3>1. s1 = t1 /\ Holds(q, ROOT, v2) = Holds(p, ROOT, v2) /\ q[ROOT][v2] = p[ROOT][v2]
      BY <2>2, <2>c, <2>p, <2>u
    <3>2. CASE t1 = t /\ v1 = i
      <4>1. s0 = n /\ t0 = NoTable /\ ~Holds(q, t1, v1) /\ ~Holds(p, t1, v1)
        BY <2>c, <2>t, <3>1, <3>2
      <4>2. ~Holds(q, s0, v0)
        BY <2>w, <2>z, <4>1
      <4>3. QED
        BY <2>m, <2>n, <2>x, <3>1, <4>1, <4>2
    <3>3. CASE ~(t1 = t /\ v1 = i)
      <4>1. t1 # NoTable => /\ Child(q, t1, v1) = Child(p, t1, v1)
                            /\ Holds(q, t1, v1) = Holds(p, t1, v1) /\ q[t1][v1] = p[t1][v1]
        BY <2>p, <2>u, <3>3
      <4>2. s0 = t0
        BY <2>c, <2>x, <3>1, <4>1
      <4>3. t0 # t
        BY <1>1, <2>p
      <4>4. t0 # NoTable => Holds(q, t0, v0) = Holds(p, t0, v0) /\ q[t0][v0] = p[t0][v0]
        BY <2>p, <2>u, <4>3
      <4>5. QED
        BY <2>m, <2>n, <2>x, <3>1, <4>1, <4>2, <4>4
    <3>4. QED
      BY <3>2, <3>3
  <2>3. QED
    BY <2>1, <2>2
<1>7. TableAt(q, page, l - 1) = n
  <2>1. Child(q, t, i) = n
    BY <1>1, <1>3, <1>e DEF Child
  <2>2. CASE l = 2
    BY <2>1, <2>2 DEF t, i, TableAt, Table1
  <2>3. CASE l = 1
    <3>1. t = Table1(p, page) /\ i = vpn(page, 1)
      BY <2>3 DEF t, i, TableAt
    <3>2. t # ROOT /\ vpn(page, 2) \in Indices(ROOT) /\ ROOT \in DOMAIN p
      BY <1>1, <2>3, PathFacts
    <3>3. q[ROOT] = p[ROOT]
      BY <1>2, <3>2
    <3>4. Table1(q, page) = t
      <4>1. Child(q, ROOT, vpn(page, 2)) = Child(p, ROOT, vpn(page, 2))
        BY <3>3 DEF Child
      <4>2. QED
        BY <3>1, <4>1 DEF Table1
    <3>5. Table0(q, page) = n
      BY <2>1, <3>1, <3>4 DEF Table0
    <3>6. QED
      BY <2>3, <3>5 DEF TableAt
  <2>4. QED
    BY <2>2, <2>3
<1>8. Sound(q, h \ {n})
  BY <1>5, <1>m DEF Sound
<1>9. ASSUME NEW u \in DOMAIN q, NEW j \in Indices(u)
      PROVE  q[u][j].ppn \in {0, n} \/ (u \in DOMAIN p /\ q[u][j] = p[u][j])
  <2>1. CASE u = n
    BY <1>z, <2>1 DEF Null
  <2>2. CASE u # n
    BY <1>2, <1>4, <1>e, <2>2
  <2>3. QED
    BY <2>1, <2>2
<1>10. QED
  BY <1>2, <1>n, <1>6, <1>7, <1>8, <1>9 DEF NewTableMade

----------------------------------------------------------------------------
(* generate_page_table                                                     *)

\* Every entry holds 0, the page of a table or a page of S.
EntriesIn(p, S) ==
    \A t \in DOMAIN p : \A i \in Indices(t) : p[t][i].ppn \in {0} \cup DOMAIN p \cup S

\* The page tables p and the free pages h have become q and k: tables were
\* made of free pages, no page was lost.
Grown(p, h, q, k) ==
    /\ Sound(q, k) /\ DOMAIN p \subseteq DOMAIN q /\ k \subseteq h
    /\ DOMAIN q \cup k = DOMAIN p \cup h

\* The walk of page, begun on p and h, that has arrived at level l or failed.
Stage(w, p, h, page, l) ==
    /\ Grown(p, h, w.pt, w.heap)
    /\ \A g \in GuestPages : Mapping(w.pt, g) = Mapping(p, g)
    /\ \A S : EntriesIn(p, S) => EntriesIn(w.pt, S)
    /\ w.end \in {"ok", "panic", "scribble"}
    /\ w.end = "ok" => w.table = TableAt(w.pt, page, l) /\ w.table # NoTable
    /\ w.end = "scribble" => Mapping(p, page).level \in (l + 1)..2
    /\ w = [pt |-> w.pt, heap |-> w.heap, end |-> w.end, table |-> w.table]

LEMMA LowestPage ==
    ASSUME NEW h \in SUBSET Nat, h # {}
    PROVE  alloc(h) \in h
<1>1. \E n \in h : \A k \in h : n <= k
  BY H!LeastElement
<1>2. QED
  BY <1>1 DEF alloc, Min

LEMMA FirstStage ==
    ASSUME NEW p, NEW h, Sound(p, h), NEW page \in GuestPages
    PROVE  Stage(Working(p, h), p, h, page, 2)
<1>1. ROOT # NoTable
  BY HeapAssumption DEF NoTable
<1>2. QED
  BY <1>1 DEF Stage, Working, TableAt, Grown

LEMMA NextStage ==
    ASSUME NEW w, NEW p, NEW h, NEW page \in GuestPages, NEW l \in 1..2, Stage(w, p, h, page, l)
    PROVE  Stage(next_table(w, vpn(page, l)), p, h, page, l - 1)
<1> DEFINE t == w.table
           i == vpn(page, l)
           e == w.pt[t][i]
           n == alloc(w.heap)
           v == next_table(w, i)
<1>1. CASE w.end # "ok"
  <2>1. v = w
    BY <1>1 DEF next_table
  <2>2. QED
    BY <1>1, <2>1 DEF Stage
<1>2. CASE w.end = "ok"
  <2>1. /\ t = TableAt(w.pt, page, l) /\ t # NoTable /\ Sound(w.pt, w.heap)
        /\ w = [pt |-> w.pt, heap |-> w.heap, end |-> "ok", table |-> t]
    BY <1>2 DEF Stage, Grown
  <2>2. PICK L \in [DOMAIN w.pt -> 0..2] : TablesOK(w.pt, L, w.heap)
    BY <2>1 DEF Sound
  <2>3. t \in DOMAIN w.pt /\ i \in Indices(t) /\ L[t] = l
    BY <2>1, <2>2, PathFacts DEF TableAt
  <2>4. EntryOK(w.pt, L, w.heap, l, e)
    BY <2>2, <2>3 DEF TablesOK
  <2>5. CASE IsTable(e)
    <3>1. e.ppn \in DOMAIN w.pt /\ already_created(e)
      BY <2>4, <2>5, EntryKinds DEF EntryOK
    <3>2. v = [w EXCEPT !.table = e.ppn]
      BY <1>2, <3>1 DEF next_table
    <3>3. v = [pt |-> w.pt, heap |-> w.heap, end |-> "ok", table |-> e.ppn]
      BY <2>1, <3>2
    <3>4. TableAt(w.pt, page, l - 1) = e.ppn /\ e.ppn # NoTable
      <4>1. e.ppn # NoTable
        BY <2>2, <3>1 DEF TablesOK, NoTable
      <4>2. Child(w.pt, t, i) = e.ppn
        BY <2>1, <2>5 DEF Child
      <4>3. CASE l = 2
        BY <2>1, <4>1, <4>2, <4>3 DEF TableAt, Table1
      <4>4. CASE l = 1
        BY <2>1, <4>1, <4>2, <4>4 DEF TableAt, Table0
      <4>5. QED
        BY <4>3, <4>4
    <3>5. QED
      BY <1>2, <3>3, <3>4 DEF Stage
  <2>6. CASE IsBlock(e)
    <3>1. e.ppn \notin DOMAIN w.pt /\ already_created(e)
      <4>1. 0 \in 0..(Span(l) - 1)
        BY Sizes
      <4>2. e.ppn \in Nat
        BY <2>2, <2>3 DEF TablesOK, Entry
      <4>3. e.ppn + 0 \notin DOMAIN w.pt
        BY <2>4, <2>6, <4>1, EntryKinds DEF EntryOK
      <4>4. QED
        BY <2>6, <4>2, <4>3, EntryKinds
    <3>2. v = [w EXCEPT !.end = "scribble"]
      BY <1>2, <3>1 DEF next_table
    <3>3. v = [pt |-> w.pt, heap |-> w.heap, end |-> "scribble", table |-> t]
      BY <2>1, <3>2
    <3>4. Mapping(w.pt, page).level = l
      <4>1. CASE l = 2
        BY <2>1, <2>6, <4>1 DEF Mapping, Holds, Mapped, TableAt
      <4>2. CASE l = 1
        <5>1. t = Table1(w.pt, page)
          BY <2>1, <4>2 DEF TableAt
        <5>2. IsTable(w.pt[ROOT][vpn(page, 2)])
          BY <2>1, <5>1 DEF Table1, Child
        <5>3. ~Holds(w.pt, ROOT, vpn(page, 2)) /\ Holds(w.pt, t, i)
          BY <2>1, <2>6, <5>2, EntryKinds DEF Holds
        <5>4. QED
          BY <4>2, <5>1, <5>3 DEF Mapping, Mapped
      <4>3. QED
        BY <4>1, <4>2
    <3>5. Mapping(p, page).level \in l..2
      BY <3>4 DEF Stage
    <3>6. QED
      BY <1>2, <3>3, <3>5 DEF Stage
  <2>7. CASE e = Null /\ w.heap = {}
    <3>1. v = [w EXCEPT !.end = "panic"]
      BY <1>2, <2>7, EntryKinds DEF next_table
    <3>2. v = [pt |-> w.pt, heap |-> w.heap, end |-> "panic", table |-> t]
      BY <2>1, <3>1
    <3>3. QED
      BY <1>2, <3>2 DEF Stage
  <2>8. CASE e = Null /\ w.heap # {}
    <3> DEFINE q == WithNewTable(w.pt, t, i, n)
    <3>1. n \in w.heap
      BY <2>2, <2>8, LowestPage DEF TablesOK
    <3>3. v = [pt |-> q, heap |-> w.heap \ {n}, end |-> "ok", table |-> n]
      <4>1. ~already_created(e)
        BY <2>8, EntryKinds
      <4>2. QED
        BY <1>2, <2>8, <4>1, Zenon DEF next_table, WithNewTable
    <3> HIDE DEF q
    <3>4. /\ Sound(q, w.heap \ {n}) /\ DOMAIN q = DOMAIN w.pt \cup {n}
          /\ TableAt(q, page, l - 1) = n /\ n # NoTable
          /\ \A g \in GuestPages : Mapping(q, g) = Mapping(w.pt, g)
          /\ \A u \in DOMAIN q : \A j \in Indices(u) :
                 \/ q[u][j].ppn \in {0, n}
                 \/ u \in DOMAIN w.pt /\ q[u][j] = w.pt[u][j]
      <4>1. q = WithNewTable(w.pt, TableAt(w.pt, page, l), vpn(page, l), n)
        BY <2>1 DEF q
      <4>2. TableAt(w.pt, page, l) # NoTable /\ w.pt[TableAt(w.pt, page, l)][vpn(page, l)] = Null
        BY <2>1, <2>8
      <4> HIDE DEF t, i, e, n, v
      <4>3. NewTableMade(w.pt, w.heap, page, l, n, q)
        BY <2>2, <3>1, <4>1, <4>2, NewTable, Zenon
      <4>4. QED
        BY <4>3 DEF NewTableMade
    <3>5. Grown(p, h, q, w.heap \ {n})
      BY <3>1, <3>4 DEF Stage, Grown
    <3>6. \A S : EntriesIn(p, S) => EntriesIn(q, S)
      BY <3>4 DEF Stage, EntriesIn
    <3>7. QED
      BY <1>2, <3>3, <3>4, <3>5, <3>6 DEF Stage
  <2>9. QED
    BY <2>4, <2>5, <2>6, <2>7, <2>8 DEF EntryOK
<1>3. QED
  BY <1>1, <1>2

\* What is left when the block of page was mapped at level l with the entry e,
\* or could not be mapped.
Written(w, p, h, page, l, e) ==
    /\ Grown(p, h, w.pt, w.heap)
    /\ \A g \in GuestPages :
          Mapping(w.pt, g) = IF w.end = "ok" /\ g \div Span(l) = page \div Span(l)
                             THEN Mapped(l, e) ELSE Mapping(p, g)
    /\ \A S : e.ppn \in S /\ EntriesIn(p, S) => EntriesIn(w.pt, S)
    /\ w.end \in {"ok", "panic", "scribble"}
    /\ w.end = "scribble" => Mapping(p, page).level \in (l + 1)..2

\* "End of translation"
LEMMA LastStage ==
    ASSUME NEW w, NEW p, NEW h, NEW page \in GuestPages, NEW l \in 0..2, Stage(w, p, h, page, l),
           NEW e \in Entry, IsBlock(e), \A k \in 0..(Span(l) - 1) : e.ppn + k \notin DOMAIN p \cup h
    PROVE  Written(set_entry(w, vpn(page, l), e), p, h, page, l, e)
<1> DEFINE v == set_entry(w, vpn(page, l), e)
           q == [w.pt EXCEPT ![TableAt(w.pt, page, l)][vpn(page, l)] = e]
<1>1. CASE w.end # "ok"
  <2>1. v = w
    BY <1>1 DEF set_entry
  <2>2. QED
    BY <1>1, <2>1 DEF Stage, Written
<1>2. CASE w.end = "ok"
  <2>1. /\ w.table = TableAt(w.pt, page, l) /\ w.table # NoTable /\ Sound(w.pt, w.heap)
        /\ DOMAIN w.pt \cup w.heap = DOMAIN p \cup h
        /\ w = [pt |-> w.pt, heap |-> w.heap, end |-> "ok", table |-> w.table]
    BY <1>2 DEF Stage, Grown
  <2>2. PICK L \in [DOMAIN w.pt -> 0..2] : TablesOK(w.pt, L, w.heap)
    BY <2>1 DEF Sound
  <2>3. v = [w EXCEPT !.pt = q]
    BY <1>2, <2>1, Zenon DEF set_entry
  <2> HIDE DEF q
  <2>4. v.pt = q /\ v.heap = w.heap /\ v.end = "ok"
    BY <2>1, <2>3
  <2>5. /\ TablesOK(q, L, w.heap) /\ DOMAIN q = DOMAIN w.pt
        /\ \A g \in GuestPages :
              Mapping(q, g) = IF g \div Span(l) = page \div Span(l)
                              THEN Mapped(l, e) ELSE Mapping(w.pt, g)
        /\ \A u \in DOMAIN q : \A j \in Indices(u) : q[u][j] \in {e, w.pt[u][j]}
    <3>1. \A k \in 0..(Span(l) - 1) : e.ppn + k \notin DOMAIN w.pt \cup w.heap
      BY <2>1
    <3>2. TableAt(w.pt, page, l) # NoTable
      BY <2>1
    <3>3. q = [w.pt EXCEPT ![TableAt(w.pt, page, l)][vpn(page, l)] = e]
      BY DEF q
    <3>4. QED
      <4>1. BlockSet(w.pt, L, w.heap, page, l, e, q)
        BY <2>2, <3>1, <3>2, <3>3, SetBlock, Zenon
      <4>2. QED
        BY <4>1 DEF BlockSet
  <2>6. Sound(q, w.heap)
    BY <2>2, <2>5 DEF Sound
  <2>7. Grown(p, h, q, w.heap)
    BY <2>5, <2>6 DEF Grown, Stage
  <2>8. ASSUME NEW S, e.ppn \in S, EntriesIn(p, S)
        PROVE  EntriesIn(q, S)
    <3>1. EntriesIn(w.pt, S)
      BY <2>8 DEF Stage
    <3>2. QED
      BY <2>5, <2>8, <3>1 DEF EntriesIn
  <2>9. \A g \in GuestPages :
           Mapping(q, g) = IF g \div Span(l) = page \div Span(l)
                           THEN Mapped(l, e) ELSE Mapping(p, g)
    <3>1. \A g \in GuestPages : Mapping(w.pt, g) = Mapping(p, g)
      BY DEF Stage
    <3>2. QED
      BY <2>5, <3>1, Zenon
  <2> HIDE DEF v
  <2>10. \A g \in GuestPages :
           Mapping(v.pt, g) = IF v.end = "ok" /\ g \div Span(l) = page \div Span(l)
                             THEN Mapped(l, e) ELSE Mapping(p, g)
    BY <2>4, <2>9, Zenon
  <2>11. \A S : e.ppn \in S /\ EntriesIn(p, S) => EntriesIn(v.pt, S)
    BY <2>4, <2>8, Zenon
  <2>12. v.end \in {"ok", "panic", "scribble"} /\ v.end # "scribble" /\ Grown(p, h, v.pt, v.heap)
    BY <2>4, <2>7
  <2>13. Written(v, p, h, page, l, e)
    BY <2>10, <2>11, <2>12, Zenon DEF Written
  <2>14. QED
    BY <2>13 DEF v
<1>3. QED
  BY <1>1, <1>2

LEMMA LevelRange == ASSUME NEW n PROVE trans_page_level(n) \in 0..2
BY DEF trans_page_level

\* generate_page_table maps a block, or changes the translation of no page.
LEMMA GenerateFacts ==
    ASSUME NEW p, NEW h, Sound(p, h), NEW mm, NEW o, NEW l, l = trans_page_level(mm.len),
           NEW page, page = (mm.start + o) \div PAGE_SIZE,
           NEW e, e = PageTableEntry((mm.phys + o) \div PAGE_SIZE, mm.flags),
           Aligned(mm) => /\ page \in GuestPages /\ e \in Entry /\ IsBlock(e)
                          /\ \A k \in 0..(Span(l) - 1) : e.ppn + k \notin DOMAIN p \cup h,
           NEW w, w = generate_page_table(p, h, mm, o)
    PROVE  Written(w, p, h, page, l, e) /\ (w.end # "panic" => Aligned(mm))
<1>1. CASE ~Aligned(mm)
  <2>1. w.pt = p /\ w.heap = h /\ w.end = "panic"
    BY <1>1 DEF generate_page_table, Working
  <2>2. QED
    BY <2>1 DEF Written, Grown
<1>2. CASE Aligned(mm)
  <2> DEFINE w2 == Working(p, h)
             w1 == next_table(w2, vpn(page, 2))
             w0 == next_table(w1, vpn(page, 1))
  <2>1. page \in GuestPages /\ e \in Entry /\ IsBlock(e)
        /\ \A k \in 0..(Span(l) - 1) : e.ppn + k \notin DOMAIN p \cup h
    BY <1>2
  <2>2. w = CASE l = 2 -> set_entry(w2, vpn(page, 2), e)
              [] l = 1 -> set_entry(w1, vpn(page, 1), e)
              [] l = 0 -> set_entry(w0, vpn(page, 0), e)
    BY <1>2, Zenon DEF generate_page_table, map_block
  <2>3. Stage(w2, p, h, page, 2)
    BY <2>1, FirstStage
  <2> HIDE DEF w2
  <2>4. Stage(w1, p, h, page, 1)
    BY <2>1, <2>3, NextStage
  <2> HIDE DEF w1
  <2>5. Stage(w0, p, h, page, 0)
    BY <2>1, <2>4, NextStage
  <2> HIDE DEF w0
  <2>6. l \in 0..2
    BY LevelRange
  <2>7. CASE l = 2
    BY <1>2, <2>1, <2>2, <2>3, <2>7, LastStage
  <2>8. CASE l = 1
    BY <1>2, <2>1, <2>2, <2>4, <2>8, LastStage
  <2>9. CASE l = 0
    BY <1>2, <2>1, <2>2, <2>5, <2>9, LastStage
  <2>10. QED
    BY <2>6, <2>7, <2>8, <2>9
<1>3. QED
  BY <1>1, <1>2

----------------------------------------------------------------------------
(* Regions and their pages                                                 *)

LEMMA LevelZero == trans_page_level(PAGE_SIZE) = 0 /\ size(0) = PAGE_SIZE
<1> DEFINE P == PAGE_SIZE
           T == PAGE_TABLE_LEN
<1>1. P \in Nat \ {0} /\ T \in Nat /\ T > 1
  BY SizeAssumption
<1>2. size(1) = P * T /\ size(0) = P * 1
  BY Sizes DEF size
<1> HIDE DEF P, T
<1>3. P < P * T /\ P * 1 = P
  BY <1>1
<1>4. QED
  BY <1>2, <1>3 DEF trans_page_level, P

LEMMA SizeFacts ==
    ASSUME NEW l \in 0..2
    PROVE  size(l) = PAGE_SIZE * Span(l) /\ size(l) \in Nat \ {0}
<1>1. PAGE_SIZE \in Nat \ {0} /\ Span(l) \in Nat \ {0}
  BY Sizes
<1>2. \A a, b \in Nat \ {0} : a * b \in Nat \ {0}
  OBVIOUS
<1>3. QED
  BY <1>1, <1>2 DEF size

LEMMA Multiple ==
    ASSUME NEW b \in Nat \ {0}, NEW q \in Nat
    PROVE  (b * q) \div b = q /\ (b * q) % b = 0 /\ b * q \in Nat
<1>1. 0 \in 0..(b - 1) /\ b * q + 0 = b * q /\ b * q \in Nat
  OBVIOUS
<1>2. (b * q + 0) \div b = q /\ (b * q + 0) % b = 0
  BY <1>1, DivUnique
<1>3. QED
  BY <1>1, <1>2

LEMMA Quotient ==
    ASSUME NEW n \in Nat, NEW b \in Nat \ {0}, n % b = 0
    PROVE  \E q \in Nat : n = b * q
<1>1. n \div b \in Nat /\ n = b * (n \div b) + (n % b)
  BY DivMod
<1> DEFINE q == n \div b
<1>2. q \in Nat /\ n = b * q + 0
  BY <1>1
<1> HIDE DEF q
<1>3. n = b * q
  BY <1>2
<1>4. QED
  BY <1>2, <1>3

LEMMA RoundUpFacts ==
    ASSUME NEW n \in Nat, NEW b \in Nat \ {0}
    PROVE  /\ RoundUp(n, b) \in Nat /\ n <= RoundUp(n, b) /\ RoundUp(n, b) % b = 0
           /\ \A m \in Nat : n <= m /\ m % b = 0 => RoundUp(n, b) <= m
<1> DEFINE x == n + b - 1
           q == x \div b
           r == x % b
<1>0. x \in Nat
  OBVIOUS
<1>1. q \in Nat /\ r \in 0..(b - 1) /\ x = b * q + r
  BY <1>0, DivMod
<1>2. RoundUp(n, b) = q * b
  BY DEF RoundUp
<1>x. x = n + b - 1
  OBVIOUS
<1> HIDE DEF x, q, r
<1>3. q * b = b * q /\ b * q \in Nat /\ n <= b * q
  BY <1>1, <1>x
<1>4. (b * q) % b = 0
  BY <1>1, Multiple
<1>5. ASSUME NEW m \in Nat, n <= m, m % b = 0
      PROVE  b * q <= m
  <2>1. PICK k \in Nat : m = b * k
    BY <1>5, Quotient
  <2>2. b * q < b * k + b
    BY <1>1, <1>x, <1>5, <2>1
  <2>3. b * k + b = b * (k + 1)
    BY <2>1
  <2>4. q < k + 1
    BY <1>1, <2>1, <2>2, <2>3
  <2>5. q <= k
    BY <1>1, <2>1, <2>4
  <2>6. QED
    BY <1>1, <2>1, <2>5
<1>6. QED
  BY <1>2, <1>3, <1>4, <1>5

\* The block of a region at an offset that a mapping loop reaches.
BlockInside(r, o, l, page) ==
    /\ page \in Nat /\ page % Span(l) = 0
    /\ page * PAGE_SIZE = r.start + o
    /\ \A k \in 0..(Span(l) - 1) : page + k \in HostPages(Blocks(r))
    /\ \A g \in Nat : g \div Span(l) = page \div Span(l)
                        <=> \E k \in 0..(Span(l) - 1) : g = page + k
    /\ \A g \in Nat : g \div Span(l) = page \div Span(l) => page + (g % Span(l)) = g

LEMMA BlockFacts ==
    ASSUME NEW r, r.start \in Nat, r.len \in Nat, NEW o \in Nat, o < r.len,
           NEW l, l = trans_page_level(r.len), r.start % size(l) = 0, o % size(l) = 0,
           NEW page, page = (r.start + o) \div PAGE_SIZE
    PROVE  BlockInside(r, o, l, page)
<1> DEFINE P == PAGE_SIZE
           S == Span(l)
           Z == size(l)
           N == RoundUp(r.len, Z)
<1>0. l \in 0..2
  BY LevelRange
<1>1. P \in Nat \ {0} /\ S \in Nat \ {0} /\ Z \in Nat \ {0} /\ Z = P * S
  BY <1>0, Sizes, SizeFacts
<1>2. N \in Nat /\ r.len <= N /\ N % Z = 0
  BY <1>1, RoundUpFacts
<1>3. PICK a \in Nat : r.start = Z * a
  BY <1>1, Quotient
<1>4. PICK b \in Nat : o = Z * b
  BY <1>1, Quotient
<1>5. PICK c \in Nat : N = Z * c
  BY <1>1, <1>2, Quotient
<1>b. Blocks(r).start = r.start /\ Blocks(r).len = N
  BY DEF Blocks
<1> HIDE DEF P, S, Z, N
<1>6. S * (a + b) \in Nat /\ r.start + o = P * (S * (a + b))
  BY <1>1, <1>3, <1>4
<1>7. page = S * (a + b)
  <2>1. (P * (S * (a + b))) \div P = S * (a + b)
    BY <1>1, <1>6, Multiple
  <2>2. QED
    BY <1>6, <2>1 DEF P
<1>8. page \in Nat /\ page % S = 0 /\ page \div S = a + b
  <2>1. a + b \in Nat
    OBVIOUS
  <2>2. (S * (a + b)) \div S = a + b /\ (S * (a + b)) % S = 0
    BY <1>1, <2>1, Multiple, Zenon
  <2>3. QED
    BY <1>6, <1>7, <2>2
<1>9. page * P = r.start + o
  BY <1>1, <1>6, <1>7
<1>10. b < c
  BY <1>1, <1>2, <1>4, <1>5
<1>11. o + Z <= N
  BY <1>1, <1>4, <1>5, <1>10
<1>12. ASSUME NEW k \in 0..(S - 1)
       PROVE  page + k \in HostPages(Blocks(r))
  <2> DEFINE x == P * (page + k)
  <2>0. page + k \in Nat
    BY <1>1, <1>8
  <2>1. x \div P = page + k /\ x \in Nat
    BY <1>1, <2>0, Multiple, Zenon
  <2>2. P * k <= P * (S - 1)
    BY <1>1
  <2>3. x = r.start + o + P * k /\ P * (S - 1) = Z - P
    BY <1>1, <1>8, <1>9
  <2>4. x >= r.start /\ x <= r.start + N - 1
    BY <1>1, <1>2, <1>11, <2>2, <2>3
  <2> HIDE DEF x
  <2>5. x \in r.start..(r.start + N - 1)
    BY <1>2, <2>1, <2>4
  <2>6. QED
    BY <1>b, <2>1, <2>5 DEF HostPages, P
<1>13. ASSUME NEW g \in Nat
       PROVE  /\ g \div S = page \div S <=> \E k \in 0..(S - 1) : g = page + k
              /\ g \div S = page \div S => page + (g % S) = g
  <2> DEFINE d == g \div S
             m == g % S
  <2>1. d \in Nat /\ m \in 0..(S - 1) /\ g = S * d + m
    BY <1>1, DivMod
  <2>2. ASSUME NEW k \in 0..(S - 1), g = page + k
        PROVE  d = a + b
    <3>1. (S * (a + b) + k) \div S = a + b
      <4>1. a + b \in Nat
        OBVIOUS
      <4>2. QED
        BY <1>1, <4>1, DivUnique, Zenon
    <3>2. QED
      BY <1>7, <2>2, <3>1
  <2> HIDE DEF d, m
  <2>3. d = a + b => page + m = g
    BY <1>7, <2>1
  <2>4. QED
    BY <1>8, <2>1, <2>2, <2>3 DEF d, m
<1>14. QED
  BY <1>8, <1>9, <1>12, <1>13 DEF BlockInside, S, P

----------------------------------------------------------------------------
(* What a guest page may be mapped to                                      *)

DeviceBlocks(t, i) == HostPages(Blocks(create_device_map(t)[i]))
AllDevicePages(t) == UNION {DeviceBlocks(t, i) : i \in 1..Len(create_device_map(t))}
OwnPages == RamPages \cup DtbPages

\* The page leads to a page given to the guest, which holds x; or to itself, in
\* a block of the device i.
Backed(p, d, g) == Mapping(p, g).level = 0 /\ Mapping(p, g).entry.ppn \in DOMAIN d
Contents(p, d, g, x) == Backed(p, d, g) /\ d[Mapping(p, g).entry.ppn] = x
Passed(p, t, i, g) ==
    /\ Mapping(p, g).level = trans_page_level(create_device_map(t)[i].len)
    /\ Target(Mapping(p, g), g) = g /\ g \in DeviceBlocks(t, i)

\* Tables, pages of the guest and free pages are apart, and of the heap.
MemInv(p, h, d, t) ==
    /\ Sound(p, h)
    /\ \E h0 \in Heaps : DOMAIN p \cup DOMAIN d \cup h \subseteq h0 \cup {ROOT}
    /\ DOMAIN p \cap DOMAIN d = {} /\ h \cap DOMAIN d = {}
    /\ EntriesIn(p, DOMAIN d \cup AllDevicePages(t))

\* The guest reaches its own pages, each by one address, and the devices up to n.
MapInv(p, d, t, n) ==
    /\ \A g \in GuestPages : \/ Mapping(p, g) = Unmapped
                             \/ Backed(p, d, g)
                             \/ \E i \in 1..n : Passed(p, t, i, g)
    /\ \A g \in GuestPages : Backed(p, d, g) => g \in OwnPages
    /\ \A g, k \in GuestPages :
          Backed(p, d, g) /\ Backed(p, d, k) /\ Mapping(p, g).entry.ppn = Mapping(p, k).entry.ppn
             => g = k

LEMMA SoundLess ==
    ASSUME NEW p, NEW h, Sound(p, h), NEW k \in SUBSET h
    PROVE  Sound(p, k)
<1>1. PICK L \in [DOMAIN p -> 0..2] : TablesOK(p, L, h)
  BY DEF Sound
<1>2. \A l, e : EntryOK(p, L, h, l, e) => EntryOK(p, L, k, l, e)
  BY DEF EntryOK
<1>3. TablesOK(p, L, k)
  BY <1>1, <1>2 DEF TablesOK
<1>4. QED
  BY <1>1, <1>3 DEF Sound

LEMMA SoundSets ==
    ASSUME NEW p, NEW h, Sound(p, h)
    PROVE  DOMAIN p \subseteq Nat /\ ROOT \in DOMAIN p /\ h \subseteq Nat /\ DOMAIN p \cap h = {}
BY DEF Sound, TablesOK

\* A page is taken from the heap, filled and mapped: what map_new_page leaves.
PagePlaced(p, d, t, page, x, w, q) ==
    /\ MemInv(w.pt, w.heap, q, t) /\ MapInv(w.pt, q, t, 0)
    /\ w.end \in {"ok", "panic"}
    /\ w.end = "ok" => Contents(w.pt, q, page, x)
    /\ \A g \in GuestPages \ {page} : \A y : Contents(p, d, g, y) => Contents(w.pt, q, g, y)

LEMMA PlacePage ==
    ASSUME NEW p, NEW h, NEW d, NEW t, MemInv(p, h, d, t), MapInv(p, d, t, 0),
           NEW b \in h, NEW gpa \in Nat, NEW page \in GuestPages, page = gpa \div PAGE_SIZE,
           gpa % PAGE_SIZE = 0 => page \in OwnPages,
           NEW flags \in SUBSET Flags, {"R", "U", "V"} \subseteq flags, NEW x,
           NEW w, w = generate_page_table(p, h \ {b},
                          MemoryMap(gpa, PAGE_SIZE, b * PAGE_SIZE, flags), 0),
           NEW q, q = WithTable(d, b, x)
    PROVE  PagePlaced(p, d, t, page, x, w, q) /\ (w.end = "ok" => gpa % PAGE_SIZE = 0)
<1> DEFINE mm == MemoryMap(gpa, PAGE_SIZE, b * PAGE_SIZE, flags)
           k == h \ {b}
           e == PageTableEntry(b, flags)
<1>1. Sound(p, h) /\ Sound(p, k) /\ DOMAIN p \subseteq Nat /\ b \in Nat /\ b \notin DOMAIN p
      /\ b \notin DOMAIN d
  BY SoundLess, SoundSets DEF MemInv
<1>2. /\ DOMAIN q = DOMAIN d \cup {b} /\ q[b] = x
      /\ \A y \in DOMAIN d : q[y] = d[y]
  BY <1>1 DEF WithTable
<1>3. /\ mm.start = gpa /\ mm.len = PAGE_SIZE /\ mm.phys = b * PAGE_SIZE /\ mm.flags = flags
      /\ trans_page_level(mm.len) = 0
  BY LevelZero DEF MemoryMap
<1>4. (mm.start + 0) \div PAGE_SIZE = page /\ (mm.phys + 0) \div PAGE_SIZE = b
  <2>1. PAGE_SIZE \in Nat \ {0} /\ b * PAGE_SIZE = PAGE_SIZE * b /\ PAGE_SIZE * b \in Nat
    BY <1>1, Sizes
  <2>2. (PAGE_SIZE * b) \div PAGE_SIZE = b
    BY <1>1, <2>1, Multiple, Zenon
  <2>3. mm.start + 0 = gpa /\ mm.phys + 0 = PAGE_SIZE * b
    BY <1>3, <2>1
  <2>4. QED
    BY <2>2, <2>3
<1>5. e \in Entry /\ IsBlock(e) /\ e.ppn = b
  BY <1>1 DEF PageTableEntry, Entry, IsBlock
<1>6. \A j \in 0..(Span(0) - 1) : e.ppn + j \notin DOMAIN p \cup k
  BY <1>1, <1>5, Sizes
<1> HIDE DEF mm, k, e
<1>7. Written(w, p, k, page, 0, e) /\ (w.end # "panic" => Aligned(mm))
  <2>1. e = PageTableEntry((mm.phys + 0) \div PAGE_SIZE, mm.flags)
    BY <1>3, <1>4 DEF e
  <2>2. w = generate_page_table(p, k, mm, 0) /\ 0 = trans_page_level(mm.len)
        /\ page = (mm.start + 0) \div PAGE_SIZE
    BY <1>3, <1>4 DEF mm, k
  <2>3. QED
    BY <1>1, <1>5, <1>6, <2>1, <2>2, GenerateFacts, Zenon
<1>8. w.end = "ok" => gpa % PAGE_SIZE = 0
  BY <1>3, <1>7, LevelZero DEF Aligned
<1>9. \A g \in GuestPages : Mapping(w.pt, g) = IF w.end = "ok" /\ g = page
                                               THEN Mapped(0, e) ELSE Mapping(p, g)
  <2>1. \A g \in GuestPages : g \div Span(0) = g
    BY Sizes
  <2>2. QED
    BY <1>7, <2>1 DEF Written
<1>10. Mapped(0, e).level = 0 /\ Mapped(0, e).entry.ppn = b
  BY <1>5 DEF Mapped
<1>11. \A g \in GuestPages : Backed(p, d, g) \/ Mapping(p, g).level = 3
  BY DEF MapInv, Unmapped
<1>12. w.end \in {"ok", "panic"}
  <2>1. Mapping(p, page).level \notin 1..2
    BY <1>11 DEF Backed
  <2>2. QED
    BY <1>7, <2>1 DEF Written
<1>13. MemInv(w.pt, w.heap, q, t)
  <2>1. /\ Sound(w.pt, w.heap) /\ DOMAIN w.pt \cup w.heap = DOMAIN p \cup k
    BY <1>7 DEF Written, Grown
  <2>2. EntriesIn(w.pt, DOMAIN q \cup AllDevicePages(t))
    <3>1. EntriesIn(p, DOMAIN q \cup AllDevicePages(t))
      BY <1>2 DEF MemInv, EntriesIn
    <3>2. e.ppn \in DOMAIN q \cup AllDevicePages(t)
      BY <1>2, <1>5
    <3>3. QED
      BY <1>7, <3>1, <3>2 DEF Written
  <2>3. \E h0 \in Heaps : DOMAIN w.pt \cup DOMAIN q \cup w.heap \subseteq h0 \cup {ROOT}
    <3>1. PICK h0 \in Heaps : DOMAIN p \cup DOMAIN d \cup h \subseteq h0 \cup {ROOT}
      BY DEF MemInv
    <3>2. DOMAIN w.pt \cup w.heap \subseteq h0 \cup {ROOT} /\ DOMAIN q \subseteq h0 \cup {ROOT}
      BY <1>2, <2>1, <3>1 DEF k
    <3>3. QED
      BY <3>2
  <2>4. DOMAIN w.pt \cap DOMAIN q = {} /\ w.heap \cap DOMAIN q = {}
    <3>1. DOMAIN p \cap DOMAIN d = {} /\ h \cap DOMAIN d = {}
      BY DEF MemInv
    <3>2. \A y \in DOMAIN p \cup k : y \notin DOMAIN q
      BY <1>1, <1>2, <3>1 DEF k
    <3>3. QED
      BY <2>1, <3>2
  <2>5. QED
    BY <2>1, <2>2, <2>3, <2>4 DEF MemInv
<1>14. ASSUME NEW g \in GuestPages, ~(w.end = "ok" /\ g = page)
       PROVE  /\ Backed(w.pt, q, g) <=> Backed(p, d, g)
              /\ Mapping(w.pt, g) = Mapping(p, g)
              /\ Backed(p, d, g) => Mapping(p, g).entry.ppn # b
  <2>1. Mapping(w.pt, g) = Mapping(p, g)
    BY <1>9, <1>14
  <2>2. Backed(p, d, g) \/ Mapping(p, g).level = 3
    BY <1>11
  <2>3. QED
    BY <1>1, <1>2, <2>1, <2>2 DEF Backed
<1>15. w.end = "ok" => Backed(w.pt, q, page) /\ Mapping(w.pt, page).entry.ppn = b
  BY <1>2, <1>9, <1>10 DEF Backed
<1>16. MapInv(w.pt, q, t, 0)
  <2>1. ASSUME NEW g \in GuestPages
        PROVE  Mapping(w.pt, g) = Unmapped \/ Backed(w.pt, q, g)
    <3>1. Mapping(p, g) = Unmapped \/ Backed(p, d, g)
      BY DEF MapInv
    <3>2. CASE w.end = "ok" /\ g = page
      BY <1>15, <3>2
    <3>3. CASE ~(w.end = "ok" /\ g = page)
      BY <1>14, <3>1, <3>3
    <3>4. QED
      BY <3>2, <3>3
  <2>2. ASSUME NEW g \in GuestPages, Backed(w.pt, q, g)
        PROVE  g \in OwnPages
    BY <1>8, <1>14, <2>2 DEF MapInv
  <2>3. ASSUME NEW g \in GuestPages, NEW j \in GuestPages, Backed(w.pt, q, g), Backed(w.pt, q, j),
               Mapping(w.pt, g).entry.ppn = Mapping(w.pt, j).entry.ppn
        PROVE  g = j
    <3>1. CASE w.end = "ok" /\ g = page
      BY <1>14, <1>15, <2>3, <3>1
    <3>2. CASE w.end = "ok" /\ j = page
      BY <1>14, <1>15, <2>3, <3>2
    <3>3. CASE ~(w.end = "ok" /\ g = page) /\ ~(w.end = "ok" /\ j = page)
      <4>1. Backed(p, d, g) /\ Backed(p, d, j)
            /\ Mapping(p, g).entry.ppn = Mapping(p, j).entry.ppn
        BY <1>14, <2>3, <3>3
      <4>2. QED
        BY <4>1 DEF MapInv
    <3>4. QED
      BY <3>1, <3>2, <3>3
  <2>4. /\ \A g \in GuestPages : Mapping(w.pt, g) = Unmapped \/ Backed(w.pt, q, g)
        /\ \A g \in GuestPages : Backed(w.pt, q, g) => g \in OwnPages
        /\ \A g, j \in GuestPages :
              Backed(w.pt, q, g) /\ Backed(w.pt, q, j)
                 /\ Mapping(w.pt, g).entry.ppn = Mapping(w.pt, j).entry.ppn => g = j
    BY <2>1, <2>2, <2>3
  <2>5. QED
    BY <2>4, Zenon DEF MapInv
<1>17. w.end = "ok" => Contents(w.pt, q, page, x)
  BY <1>2, <1>15 DEF Contents
<1>18. ASSUME NEW g \in GuestPages \ {page}, NEW y, Contents(p, d, g, y)
       PROVE  Contents(w.pt, q, g, y)
  <2>1. Backed(p, d, g) /\ d[Mapping(p, g).entry.ppn] = y
    BY <1>18 DEF Contents
  <2>2. Backed(w.pt, q, g) /\ Mapping(w.pt, g) = Mapping(p, g)
    BY <1>14, <2>1
  <2>3. QED
    BY <1>2, <2>1, <2>2 DEF Contents, Backed
<1>19. QED
  BY <1>8, <1>12, <1>13, <1>16, <1>17, <1>18 DEF PagePlaced

\* No superpage of a device covers a block of a device that is mapped after it
\* with smaller pages.
LargerApart(t) ==
    \A i \in 1..Len(create_device_map(t)) : \A j \in 1..(i - 1) :
        trans_page_level(create_device_map(t)[j].len) > trans_page_level(create_device_map(t)[i].len)
           => DeviceBlocks(t, j) \cap DeviceBlocks(t, i) = {}

LEMMA DeviceFacts ==
    ASSUME NEW t \in HostTrees, NEW i \in 1..Len(create_device_map(t))
    PROVE  /\ create_device_map(t)[i].start \in Nat /\ create_device_map(t)[i].len \in Nat
           /\ DeviceBlocks(t, i) \subseteq GuestPages
           /\ \A h \in Heaps : DeviceBlocks(t, i) \cap (h \cup {ROOT}) = {}
BY DeviceAssumption DEF DeviceBlocks

LEMMA DevicesOutsideHeap ==
    ASSUME NEW t \in HostTrees, NEW i \in 1..Len(create_device_map(t)),
           NEW p, NEW h, NEW d, MemInv(p, h, d, t), NEW x \in DeviceBlocks(t, i)
    PROVE  x \notin DOMAIN p /\ x \notin h /\ x \notin DOMAIN d
<1>1. PICK h0 \in Heaps : DOMAIN p \cup DOMAIN d \cup h \subseteq h0 \cup {ROOT}
  BY DEF MemInv
<1>2. x \notin h0 \cup {ROOT}
  BY DeviceFacts
<1>3. QED
  BY <1>1, <1>2

\* What a turn of device_mapping_g_stage at offset o leaves.
BlockPlaced(p, d, t, i, o, w) ==
    LET r == create_device_map(t)[i]
        Z == size(trans_page_level(r.len))
    IN
    /\ MemInv(w.pt, w.heap, d, t) /\ MapInv(w.pt, d, t, i)
    /\ w.end \in {"ok", "panic", "scribble"}
    /\ w.end = "ok" => \E page \in Nat : page * PAGE_SIZE = r.start + o
    /\ w.end = "ok" => \A g \in GuestPages :
          r.start + o <= g * PAGE_SIZE /\ g * PAGE_SIZE < r.start + o + Z => Target(Mapping(w.pt, g), g) = g
    /\ \A g \in GuestPages : Target(Mapping(p, g), g) = g => Target(Mapping(w.pt, g), g) = g
    /\ w.end = "scribble" => ~LargerApart(t)
    /\ \A g \in GuestPages \ DeviceBlocks(t, i) : \A y : Contents(p, d, g, y) => Contents(w.pt, d, g, y)

LEMMA PlaceBlock ==
    ASSUME NEW p, NEW h, NEW d, NEW t \in HostTrees, NEW i \in 1..Len(create_device_map(t)),
           NEW n \in Nat, n <= i, MemInv(p, h, d, t), MapInv(p, d, t, n),
           NEW r, r = create_device_map(t)[i], NEW o \in Nat, o < r.len,
           o % size(trans_page_level(r.len)) = 0,
           NEW w, w = generate_page_table(p, h,
                          MemoryMap(r.start, r.len, r.start, PTE_FLAGS_FOR_DEVICE), o)
    PROVE  BlockPlaced(p, d, t, i, o, w)
<1> DEFINE mm == MemoryMap(r.start, r.len, r.start, PTE_FLAGS_FOR_DEVICE)
           l == trans_page_level(r.len)
           page == (r.start + o) \div PAGE_SIZE
           e == PageTableEntry(page, PTE_FLAGS_FOR_DEVICE)
           In(g) == g \div Span(l) = page \div Span(l)
<1>1. r.start \in Nat /\ r.len \in Nat /\ DeviceBlocks(t, i) \subseteq GuestPages /\ l \in 0..2
      /\ DeviceBlocks(t, i) = HostPages(Blocks(r))
  BY DeviceFacts, LevelRange DEF DeviceBlocks
<1>2. /\ mm.start = r.start /\ mm.len = r.len /\ mm.phys = r.start
      /\ mm.flags = PTE_FLAGS_FOR_DEVICE
      /\ Aligned(mm) <=> r.start % size(l) = 0
  BY DEF MemoryMap, Aligned
<1>3. e.ppn = page /\ IsBlock(e) /\ (page \in Nat => e \in Entry)
  BY DEF PageTableEntry, IsBlock, Entry, PTE_FLAGS_FOR_DEVICE, Flags
<1>o. o % size(l) = 0
  OBVIOUS
<1> HIDE DEF mm, l, e
<1>4. ASSUME Aligned(mm)
      PROVE  /\ BlockInside(r, o, l, page)
             /\ page \in DeviceBlocks(t, i) /\ page \in GuestPages
             /\ \A k \in 0..(Span(l) - 1) : page + k \in DeviceBlocks(t, i)
  <2>1. BlockInside(r, o, l, page)
    <3>1. r.start % size(l) = 0 /\ l = trans_page_level(r.len)
      BY <1>2, <1>4 DEF l
    <3>2. QED
      BY <1>1, <1>o, <3>1, BlockFacts, Zenon
  <2> HIDE DEF page
  <2>2. page \in Nat /\ \A k \in 0..(Span(l) - 1) : page + k \in DeviceBlocks(t, i)
    BY <1>1, <2>1 DEF BlockInside
  <2>3. 0 \in 0..(Span(l) - 1)
    BY <1>1, Sizes
  <2>4. page + 0 \in DeviceBlocks(t, i) /\ page + 0 = page
    BY <2>2, <2>3
  <2>5. QED
    BY <1>1, <2>1, <2>2, <2>4
<1>5. Written(w, p, h, page, l, e) /\ (w.end # "panic" => Aligned(mm))
  <2>1. Aligned(mm) => /\ page \in GuestPages /\ e \in Entry /\ IsBlock(e)
                       /\ \A k \in 0..(Span(l) - 1) : e.ppn + k \notin DOMAIN p \cup h
    <3>1. SUFFICES ASSUME Aligned(mm)
                   PROVE  /\ page \in GuestPages /\ e \in Entry /\ IsBlock(e)
                          /\ \A k \in 0..(Span(l) - 1) : e.ppn + k \notin DOMAIN p \cup h
      OBVIOUS
    <3> HIDE DEF page
    <3>2. page \in GuestPages /\ page \in Nat
      BY <1>4, <3>1, Sizes
    <3>3. \A k \in 0..(Span(l) - 1) : page + k \notin DOMAIN p \cup h
      BY <1>4, <3>1, DevicesOutsideHeap
    <3>4. QED
      BY <1>3, <3>2, <3>3
  <2>2. /\ l = trans_page_level(mm.len) /\ page = (mm.start + o) \div PAGE_SIZE
        /\ e = PageTableEntry((mm.phys + o) \div PAGE_SIZE, mm.flags)
        /\ w = generate_page_table(p, h, mm, o) /\ Sound(p, h)
    BY <1>2 DEF l, e, mm, MemInv
  <2> HIDE DEF page
  <2>3. QED
    BY <2>1, <2>2, GenerateFacts, Zenon
<1> HIDE DEF page
<1>6. Grown(p, h, w.pt, w.heap) /\ w.end \in {"ok", "panic", "scribble"}
  BY <1>5 DEF Written
<1>7. \A g \in GuestPages :
         Mapping(w.pt, g) = IF w.end = "ok" /\ In(g) THEN Mapped(l, e) ELSE Mapping(p, g)
  BY <1>5 DEF Written
<1>8. ASSUME w.end = "ok", NEW g \in GuestPages, In(g)
      PROVE  /\ Target(Mapping(w.pt, g), g) = g /\ g \in DeviceBlocks(t, i)
             /\ Mapping(w.pt, g).level = l /\ Mapping(w.pt, g).entry.ppn = page
             /\ page \in DeviceBlocks(t, i)
  <2>1. BlockInside(r, o, l, page) /\ page \in DeviceBlocks(t, i) /\ g \in Nat
        /\ \A k \in 0..(Span(l) - 1) : page + k \in DeviceBlocks(t, i)
    BY <1>4, <1>5, <1>8, Sizes
  <2>2. page % Span(l) = 0 /\ page + (g % Span(l)) = g
        /\ \E k \in 0..(Span(l) - 1) : g = page + k
    BY <1>8, <2>1 DEF BlockInside
  <2>3. Mapping(w.pt, g).level = l /\ Mapping(w.pt, g).entry = e
    BY <1>7, <1>8 DEF Mapped
  <2>4. Target(Mapping(w.pt, g), g) = g
    BY <1>1, <1>3, <2>2, <2>3 DEF Target
  <2>5. QED
    BY <1>3, <2>1, <2>2, <2>3, <2>4
<1> HIDE DEF In
<1>9. MemInv(w.pt, w.heap, d, t)
  <2>1. EntriesIn(w.pt, DOMAIN d \cup AllDevicePages(t))
    <3> DEFINE S == DOMAIN d \cup AllDevicePages(t)
    <3>1. EntriesIn(p, S)
      BY DEF MemInv
    <3>2. CASE Aligned(mm)
      <4>1. e.ppn \in S
        BY <1>3, <1>4, <3>2 DEF AllDevicePages
      <4>2. QED
        BY <1>5, <3>1, <4>1 DEF Written
    <3>3. CASE ~Aligned(mm)
      <4>1. w.pt = p
        BY <3>3 DEF generate_page_table, Working, mm
      <4>2. QED
        BY <3>1, <4>1
    <3>4. QED
      BY <3>2, <3>3
  <2>2. Sound(w.pt, w.heap) /\ DOMAIN w.pt \cup w.heap = DOMAIN p \cup h
    BY <1>6 DEF Grown
  <2>3. PICK h0 \in Heaps : DOMAIN p \cup DOMAIN d \cup h \subseteq h0 \cup {ROOT}
    BY DEF MemInv
  <2>4. DOMAIN w.pt \cup DOMAIN d \cup w.heap \subseteq h0 \cup {ROOT}
    BY <2>2, <2>3
  <2>5. DOMAIN w.pt \cap DOMAIN d = {} /\ w.heap \cap DOMAIN d = {}
    <3>1. DOMAIN p \cap DOMAIN d = {} /\ h \cap DOMAIN d = {}
      BY DEF MemInv
    <3>2. QED
      BY <2>2, <3>1
  <2>6. QED
    BY <2>1, <2>2, <2>4, <2>5 DEF MemInv
<1>10. ASSUME NEW g \in GuestPages
       PROVE  /\ Backed(w.pt, d, g) => Backed(p, d, g) /\ Mapping(w.pt, g) = Mapping(p, g)
              /\ ~(w.end = "ok" /\ In(g)) => Mapping(w.pt, g) = Mapping(p, g)
  <2>1. CASE w.end = "ok" /\ In(g)
    <3>1. page \notin DOMAIN d
      BY <1>8, <2>1, DevicesOutsideHeap
    <3>2. ~Backed(w.pt, d, g)
      BY <1>8, <2>1, <3>1 DEF Backed
    <3>3. QED
      BY <2>1, <3>2
  <2>2. CASE ~(w.end = "ok" /\ In(g))
    BY <1>7, <2>2 DEF Backed
  <2>3. QED
    BY <2>1, <2>2
<1>11. MapInv(w.pt, d, t, i)
  <2>1. ASSUME NEW g \in GuestPages
        PROVE  Mapping(w.pt, g) = Unmapped \/ Backed(w.pt, d, g) \/ \E j \in 1..i : Passed(w.pt, t, j, g)
    <3>1. CASE w.end = "ok" /\ In(g)
      <4>1. Passed(w.pt, t, i, g)
        BY <1>8, <3>1 DEF Passed, l
      <4>2. QED
        BY <4>1
    <3>2. CASE ~(w.end = "ok" /\ In(g))
      <4>1. Mapping(w.pt, g) = Mapping(p, g)
        BY <1>10, <3>2
      <4>2. Mapping(p, g) = Unmapped \/ Backed(p, d, g) \/ \E j \in 1..n : Passed(p, t, j, g)
        BY DEF MapInv
      <4>3. \A j \in 1..n : Passed(p, t, j, g) => j \in 1..i /\ Passed(w.pt, t, j, g)
        BY <4>1 DEF Passed
      <4>4. QED
        BY <4>1, <4>2, <4>3 DEF Backed
    <3>3. QED
      BY <3>1, <3>2
  <2>2. ASSUME NEW g \in GuestPages, Backed(w.pt, d, g)
        PROVE  g \in OwnPages
    BY <1>10, <2>2 DEF MapInv
  <2>3. ASSUME NEW g \in GuestPages, NEW j \in GuestPages, Backed(w.pt, d, g), Backed(w.pt, d, j),
               Mapping(w.pt, g).entry.ppn = Mapping(w.pt, j).entry.ppn
        PROVE  g = j
    <3>1. Backed(p, d, g) /\ Backed(p, d, j) /\ Mapping(p, g).entry.ppn = Mapping(p, j).entry.ppn
      BY <1>10, <2>3
    <3>2. QED
      BY <3>1 DEF MapInv
  <2>4. QED
    BY <2>1, <2>2, <2>3 DEF MapInv
<1>12. ASSUME w.end = "ok", NEW g \in GuestPages, r.start + o <= g * PAGE_SIZE,
              g * PAGE_SIZE < r.start + o + size(l)
       PROVE  Target(Mapping(w.pt, g), g) = g
  <2> DEFINE P == PAGE_SIZE
             S == Span(l)
  <2>1. P \in Nat \ {0} /\ S \in Nat \ {0} /\ size(l) = P * S /\ g \in Nat
    BY <1>1, Sizes, SizeFacts
  <2>2. BlockInside(r, o, l, page)
    BY <1>4, <1>5, <1>12
  <2>3. page \in Nat /\ page * P = r.start + o
    BY <2>2 DEF BlockInside
  <2>4. page * P <= g * P /\ g * P < page * P + P * S
    BY <1>12, <2>1, <2>3
  <2> HIDE DEF P, S
  <2>5. page <= g
    BY <2>1, <2>3, <2>4
  <2>6. g < page + S
    <3>1. page * P + P * S = (page + S) * P
      BY <2>1, <2>3
    <3>2. QED
      BY <2>1, <2>3, <2>4, <3>1
  <2>7. \E k \in 0..(S - 1) : g = page + k
    <3>1. g - page \in 0..(S - 1) /\ g = page + (g - page)
      BY <2>1, <2>3, <2>5, <2>6
    <3>2. QED
      BY <3>1
  <2>8. In(g)
    BY <2>1, <2>2, <2>7 DEF BlockInside, In, S
  <2>9. QED
    BY <1>8, <1>12, <2>8
<1>13. ASSUME NEW g \in GuestPages, Target(Mapping(p, g), g) = g
       PROVE  Target(Mapping(w.pt, g), g) = g
  BY <1>8, <1>10, <1>13
<1>14. ASSUME w.end = "scribble"
       PROVE  ~LargerApart(t)
  <2>1. Mapping(p, page).level \in (l + 1)..2
    BY <1>5, <1>14 DEF Written
  <2>2. page \in GuestPages /\ page \in DeviceBlocks(t, i)
    BY <1>4, <1>5, <1>14
  <2>3. PICK j \in 1..n : Passed(p, t, j, page)
    <3>1. Mapping(p, page) # Unmapped /\ ~Backed(p, d, page)
      BY <1>1, <2>1 DEF Unmapped, Backed
    <3>2. QED
      BY <2>2, <3>1 DEF MapInv
  <2>4. page \in DeviceBlocks(t, j) /\ trans_page_level(create_device_map(t)[j].len) \in (l + 1)..2
    BY <2>1, <2>3 DEF Passed
  <2>5. l = trans_page_level(create_device_map(t)[i].len)
    BY DEF l
  <2>6. j # i
    BY <1>1, <2>4, <2>5
  <2>7. j \in 1..(i - 1)
    BY <2>3, <2>6
  <2>8. trans_page_level(create_device_map(t)[j].len) > trans_page_level(create_device_map(t)[i].len)
    BY <1>1, <2>4, <2>5
  <2>9. QED
    BY <2>2, <2>4, <2>7, <2>8 DEF LargerApart
<1>15. ASSUME NEW g \in GuestPages \ DeviceBlocks(t, i), NEW y, Contents(p, d, g, y)
       PROVE  Contents(w.pt, d, g, y)
  <2>1. ~(w.end = "ok" /\ In(g))
    BY <1>8, <1>15
  <2>2. Mapping(w.pt, g) = Mapping(p, g)
    BY <1>10, <2>1
  <2>3. QED
    BY <1>15, <2>2 DEF Contents, Backed
<1>16. QED
  <2>1. w.end = "ok" => \E x \in Nat : x * PAGE_SIZE = r.start + o
    BY <1>4, <1>5 DEF BlockInside
  <2>2. QED
    BY <1>6, <1>9, <1>11, <1>12, <1>13, <1>14, <1>15, <2>1 DEF BlockPlaced, l

----------------------------------------------------------------------------
(* The guest's memory                                                      *)

\* The address gpa is in a page of the guest, and a page of its memory starts
\* there.
LEMMA RamAddress ==
    ASSUME NEW gpa \in Nat, gpa < guest_memory_end
    PROVE  /\ gpa \div PAGE_SIZE \in GuestPages
           /\ gpa % PAGE_SIZE = 0 => gpa = (gpa \div PAGE_SIZE) * PAGE_SIZE
           /\ gpa % PAGE_SIZE = 0 /\ guest_memory_begin <= gpa => gpa \div PAGE_SIZE \in OwnPages
<1> DEFINE P == PAGE_SIZE
           F == FIRST_LV_PAGE_TABLE_LEN
           S == Span(2)
           q == gpa \div P
           m == gpa % P
<1>1. P \in Nat \ {0} /\ F \in Nat \ {0} /\ S \in Nat \ {0} /\ GuestPages = 0..(F * S - 1)
      /\ size(2) = P * S
  BY Sizes, SizeFacts
<1>2. guest_memory_begin \in Int /\ guest_memory_end \in Int /\ guest_memory_end <= F * (P * S)
  <2>1. HartId + 1 \in Nat /\ DRAM_SIZE_PER_GUEST \in Nat /\ DRAM_BASE \in Nat
    BY SizeAssumption
  <2>2. \A a, b, c \in Nat : c + a * b \in Int /\ c + a * b + b \in Int
    OBVIOUS
  <2>3. guest_memory_begin \in Int /\ guest_memory_end \in Int
    BY <2>1, <2>2 DEF guest_memory_end, guest_memory_begin, guest_id
  <2>4. guest_memory_end <= F * size(2)
    BY ElfAssumption
  <2>5. QED
    BY <1>1, <2>3, <2>4
<1>3. q \in Nat /\ m \in 0..(P - 1) /\ gpa = P * q + m
  BY <1>1, DivMod
<1> HIDE DEF P, F, S, q, m
<1>4. F * (P * S) = P * (F * S) /\ F * S \in Nat
  BY <1>1
<1>5. P * q < P * (F * S)
  BY <1>1, <1>2, <1>3, <1>4
<1>6. q < F * S
  <2> DEFINE N == F * S
  <2>1. N \in Nat /\ P * q < P * N
    BY <1>4, <1>5
  <2> HIDE DEF N
  <2>2. q < N
    BY <1>1, <1>3, <2>1
  <2>3. QED
    BY <2>2 DEF N
<1>7. q \in GuestPages
  BY <1>1, <1>3, <1>4, <1>6
<1>8. m = 0 => gpa = q * P
  BY <1>1, <1>3
<1>9. m = 0 /\ guest_memory_begin <= gpa => q \in OwnPages
  <2>1. SUFFICES ASSUME m = 0, guest_memory_begin <= gpa
                 PROVE  q \in RamPages
    BY DEF OwnPages
  <2>2. q * P \in guest_memory_begin..(guest_memory_end - 1)
    BY <1>2, <1>8, <2>1
  <2>3. QED
    BY <1>7, <2>2 DEF RamPages, P
<1>10. QED
  BY <1>7, <1>8, <1>9 DEF q, m, P

LEMMA GuestMemory ==
    /\ guest_memory_begin \in Nat /\ guest_memory_begin % PAGE_SIZE = 0
    /\ guest_memory_end = guest_memory_begin + DRAM_SIZE_PER_GUEST
    /\ guest_dtb_gpa \in Nat /\ aligned_dtb_size \in Nat
    /\ guest_dtb_gpa + aligned_dtb_size <= guest_memory_begin
    /\ \A o \in Nat : o % PAGE_SIZE = 0 /\ o < aligned_dtb_size => o + PAGE_SIZE <= aligned_dtb_size
<1> DEFINE P == PAGE_SIZE
           D == GUEST_DTB_SIZE_PER_HART
           M == DRAM_SIZE_PER_GUEST
           A == aligned_dtb_size
<1>1. P \in Nat \ {0} /\ D \in Nat /\ M \in Nat /\ HartId \in Nat /\ DRAM_BASE \in Nat
      /\ GuestDtbLen \in Nat /\ (HartId + 1) * D <= M /\ GuestDtbLen < D
      /\ D % P = 0 /\ M % P = 0 /\ DRAM_BASE % P = 0
  BY SizeAssumption
<1>2. /\ guest_memory_begin = DRAM_BASE + (HartId + 1) * M
      /\ guest_dtb_gpa = DRAM_BASE + HartId * D
      /\ guest_memory_end = guest_memory_begin + M
  BY DEF guest_memory_begin, guest_dtb_gpa, guest_memory_end, guest_id
<1>3. A \in Nat /\ A <= D /\ A % P = 0
  <2>1. A = RoundUp(GuestDtbLen, P)
    BY DEF aligned_dtb_size
  <2> HIDE DEF A, P, D
  <2>2. GuestDtbLen <= D
    BY <1>1
  <2>3. QED
    BY <1>1, <2>1, <2>2, RoundUpFacts, Zenon
<1> HIDE DEF P, D, M, A
<1>4. PICK b \in Nat, k \in Nat : DRAM_BASE = P * b /\ M = P * k
  <2>1. (\E b \in Nat : DRAM_BASE = P * b) /\ (\E k \in Nat : M = P * k)
    BY <1>1, Quotient
  <2>2. QED
    BY <2>1
<1>5. (HartId + 1) * M \in Nat /\ HartId * D \in Nat /\ HartId * M \in Nat
      /\ (HartId + 1) * M = HartId * M + M /\ (HartId + 1) * D = HartId * D + D
  BY <1>1
<1>6. guest_memory_begin \in Nat /\ guest_dtb_gpa \in Nat
      /\ guest_dtb_gpa + A <= guest_memory_begin
  BY <1>1, <1>2, <1>3, <1>5
<1>7. guest_memory_begin % P = 0
  <2> DEFINE c == b + (HartId + 1) * k
  <2>1. c \in Nat /\ guest_memory_begin = P * c
    BY <1>1, <1>2, <1>4
  <2> HIDE DEF c
  <2>2. (P * c) % P = 0
    BY <1>1, <2>1, Multiple
  <2>3. QED
    BY <2>1, <2>2
<1>8. ASSUME NEW o \in Nat, o % P = 0, o < A
      PROVE  o + P <= A
  <2>1. PICK x \in Nat : o = P * x
    BY <1>1, <1>8, Quotient
  <2>2. PICK y \in Nat : A = P * y
    BY <1>1, <1>3, Quotient
  <2>3. x < y
    BY <1>1, <1>8, <2>1, <2>2
  <2>4. QED
    BY <1>1, <2>1, <2>2, <2>3
<1>9. QED
  BY <1>2, <1>3, <1>6, <1>7, <1>8 DEF P, M, A

\* Addresses a page apart are in different pages.
LEMMA PagesApart ==
    ASSUME NEW a \in Nat, NEW b \in Nat, a + PAGE_SIZE <= b
    PROVE  a \div PAGE_SIZE # b \div PAGE_SIZE
<1> DEFINE P == PAGE_SIZE
           x == a \div P
           y == b \div P
           r == a % P
           s == b % P
<1>1. P \in Nat \ {0}
  BY Sizes
<1>2. x \in Nat /\ r \in 0..(P - 1) /\ a = P * x + r
  BY <1>1, DivMod
<1>3. y \in Nat /\ s \in 0..(P - 1) /\ b = P * y + s
  BY <1>1, DivMod
<1>4. a + P <= b
  OBVIOUS
<1> HIDE DEF P, x, y, r, s
<1>5. x # y
  BY <1>1, <1>2, <1>3, <1>4
<1>6. QED
  BY <1>5 DEF x, y, P

\* Whole pages follow each other.
LEMMA NextTurn ==
    ASSUME NEW o \in Nat, NEW Z \in Nat \ {0}, o % Z = 0
    PROVE  o + Z \in Nat /\ (o + Z) % Z = 0 /\ 0 % Z = 0
<1>1. PICK x \in Nat : o = Z * x
  BY Quotient
<1>2. x + 1 \in Nat /\ o + Z = Z * (x + 1) /\ 0 = Z * 0
  BY <1>1
<1>3. (Z * (x + 1)) % Z = 0 /\ (Z * 0) % Z = 0
  <2>1. 0 \in Nat
    OBVIOUS
  <2>2. QED
    BY <1>2, <2>1, Multiple, Zenon
<1>4. QED
  BY <1>2, <1>3

LEMMA TurnsFacts ==
    ASSUME NEW len \in Nat, NEW by \in Nat \ {0}
    PROVE  Turns(len, by) = {o \in Nat : o < len /\ o % by = 0}
BY DEF Turns

LEMMA DtbAddress ==
    ASSUME NEW o \in Nat, o % PAGE_SIZE = 0, o < aligned_dtb_size
    PROVE  /\ guest_dtb_gpa + o \in Nat /\ guest_dtb_gpa + o < guest_memory_end
           /\ guest_dtb_gpa + o + PAGE_SIZE <= guest_memory_begin
           /\ (guest_dtb_gpa + o) \div PAGE_SIZE \in GuestPages \cap OwnPages
<1>1. guest_dtb_gpa + o \in Nat /\ guest_dtb_gpa + o < guest_memory_end
      /\ guest_dtb_gpa + o + PAGE_SIZE <= guest_memory_begin
  <2>1. o + PAGE_SIZE <= aligned_dtb_size /\ PAGE_SIZE \in Nat /\ DRAM_SIZE_PER_GUEST \in Nat
        /\ PAGE_SIZE # 0
    BY GuestMemory, SizeAssumption
  <2>2. QED
    BY <2>1, GuestMemory
<1>2. (guest_dtb_gpa + o) \div PAGE_SIZE \in GuestPages
  BY <1>1, RamAddress, Zenon
<1>3. o \in Turns(aligned_dtb_size, PAGE_SIZE)
  BY TurnsFacts, GuestMemory, Sizes
<1>4. QED
  BY <1>1, <1>2, <1>3 DEF DtbPages, OwnPages

----------------------------------------------------------------------------
(* The invariant of vsmode_setup                                           *)

Early == step \in {"dtb", "elf", "fill"}

Scalars ==
    /\ step \in {"dtb", "elf", "fill", "devices", "guest", "panic", "scribble"}
    /\ idx \in Nat \ {0} /\ off \in Nat /\ elf_end \in Nat
    /\ elf \in Elfs /\ tree \in HostTrees

Memory == MemInv(pt, heap, data, tree)

Maps ==
    \E n \in 0..Len(create_device_map(tree)) :
        MapInv(pt, data, tree, n) /\ (Early => n = 0) /\ (step = "devices" => n <= idx)

\* The loops go by whole pages or blocks, and the image ends in the guest's memory.
Loops ==
    /\ step \in {"dtb", "fill"} => idx = 1
    /\ step \in {"dtb", "elf"} => off % PAGE_SIZE = 0
    /\ step = "elf" => \/ elf_end >= guest_memory_begin
                       \/ /\ off = 0
                          /\ \A i \in 1..Len(elf) : i < idx => elf[i].filesz = 0
    /\ step = "fill" => off >= elf_end /\ elf_end >= guest_memory_begin
    /\ step = "devices" /\ idx <= Len(create_device_map(tree))
          => off % size(trans_page_level(Device.len)) = 0

Unscribbled == step = "scribble" => ~LargerApart(tree)

\* The page g of the device i has been mapped.
Done(i, g) ==
    \/ i < idx
    \/ i = idx /\ step = "devices" /\ off > 0 /\ g * PAGE_SIZE < create_device_map(tree)[i].start + off

\* The pages of the devices lead to themselves from then on.
Passes ==
    /\ step = "guest" => idx > Len(create_device_map(tree))
    /\ step \in {"devices", "guest"} =>
          \A i \in 1..Len(create_device_map(tree)) :
             \A g \in PagesOf(create_device_map(tree)[i]) :
                Done(i, g) => Target(Mapping(pt, g), g) = g

IInv == Scalars /\ Memory /\ Maps /\ Loops /\ Unscribbled /\ Passes

\* A turn of a loop that places a page: what is left, and what was kept.
PageAdded(gpa, x) ==
    /\ step' \in {step, "panic"}
    /\ MemInv(pt', heap', data', tree) /\ MapInv(pt', data', tree, 0)
    /\ step' = step => gpa % PAGE_SIZE = 0 /\ Contents(pt', data', gpa \div PAGE_SIZE, x)
    /\ step' = step => \A g \in GuestPages \ {gpa \div PAGE_SIZE} : \A y :
          Contents(pt, data, g, y) => Contents(pt', data', g, y)

LEMMA MapNewPage ==
    ASSUME IInv, Early, NEW gpa \in Nat, gpa \div PAGE_SIZE \in GuestPages,
           gpa % PAGE_SIZE = 0 => gpa \div PAGE_SIZE \in OwnPages,
           NEW flags \in SUBSET Flags, {"R", "U", "V"} \subseteq flags, NEW x,
           map_new_page(gpa, x, flags)
    PROVE  PageAdded(gpa, x)
<1>1. MemInv(pt, heap, data, tree) /\ MapInv(pt, data, tree, 0) /\ step # "panic"
  BY DEF IInv, Memory, Maps, Early
<1>2. CASE heap = {}
  <2>1. step' = "panic" /\ heap' = heap /\ pt' = pt /\ data' = data
    BY <1>2 DEF map_new_page
  <2>2. QED
    BY <1>1, <2>1 DEF PageAdded
<1>3. CASE heap # {}
  <2> DEFINE b == alloc(heap)
             w == generate_page_table(pt, heap \ {b},
                      MemoryMap(gpa, PAGE_SIZE, b * PAGE_SIZE, flags), 0)
             q == WithTable(data, b, x)
  <2>1. pt' = w.pt /\ heap' = w.heap /\ data' = q /\ step' = IF w.end = "ok" THEN step ELSE w.end
    BY <1>3, Zenon DEF map_new_page
  <2>2. b \in heap
    <3>1. heap \in SUBSET Nat
      BY <1>1, SoundSets DEF MemInv
    <3>2. QED
      BY <1>3, <3>1, LowestPage
  <2> HIDE DEF b
  <2>3. PagePlaced(pt, data, tree, gpa \div PAGE_SIZE, x, w, q)
        /\ (w.end = "ok" => gpa % PAGE_SIZE = 0)
    BY <1>1, <2>2, PlacePage, Zenon
  <2> HIDE DEF w, q
  <2>4. step' = step => w.end = "ok"
    BY <1>1, <2>1, <2>3 DEF PagePlaced
  <2>5. QED
    BY <2>1, <2>3, <2>4 DEF PageAdded, PagePlaced
<1>4. QED
  BY <1>2, <1>3

LEMMA InitIInv == Init => IInv
<1> SUFFICES ASSUME Init PROVE IInv
  OBVIOUS
<1> DEFINE L == [t \in {ROOT} |-> 2]
<1>1. /\ step = "dtb" /\ idx = 1 /\ off = 0 /\ elf_end = 0 /\ heap \in Heaps
      /\ elf \in Elfs /\ tree \in HostTrees
      /\ pt = [t \in {ROOT} |-> [i \in Indices(ROOT) |-> Null]] /\ DOMAIN data = {}
  BY DEF Init, Indices
<1>2. ROOT \in Nat /\ heap \subseteq Nat /\ ROOT \notin heap
  BY <1>1, HeapAssumption
<1>3. DOMAIN pt = {ROOT} /\ pt[ROOT] = [i \in Indices(ROOT) |-> Null]
      /\ \A i \in Indices(ROOT) : pt[ROOT][i] = Null
  BY <1>1
<1>4. Null \in Entry /\ Null.ppn = 0 /\ ~IsTable(Null) /\ ~IsBlock(Null)
  BY EntryKinds DEF Null, Entry
<1>5. TablesOK(pt, L, heap)
  BY <1>1, <1>2, <1>3, <1>4 DEF TablesOK, EntryOK
<1>6. Sound(pt, heap)
  BY <1>3, <1>5 DEF Sound
<1>7. EntriesIn(pt, DOMAIN data \cup AllDevicePages(tree))
  BY <1>3, <1>4 DEF EntriesIn
<1>8. Memory
  BY <1>1, <1>2, <1>3, <1>6, <1>7 DEF Memory, MemInv
<1>9. ASSUME NEW g \in GuestPages
      PROVE  Mapping(pt, g) = Unmapped
  <2>1. vpn(g, 2) \in Indices(ROOT)
    BY <1>5, PathFacts
  <2>2. ~IsTable(pt[ROOT][vpn(g, 2)]) /\ ~IsBlock(pt[ROOT][vpn(g, 2)])
    BY <1>3, <1>4, <2>1
  <2>3. Table1(pt, g) = NoTable /\ Table0(pt, g) = NoTable
    BY <2>2 DEF Table1, Table0, Child
  <2>4. QED
    BY <2>2, <2>3 DEF Mapping, Holds
<1>10. MapInv(pt, data, tree, 0)
  BY <1>1, <1>9 DEF MapInv, Backed
<1>11. Len(create_device_map(tree)) \in Nat
  BY <1>1, DeviceAssumption
<1>12. Maps
  <2>1. 0 \in 0..Len(create_device_map(tree))
    BY <1>11
  <2>2. QED
    BY <1>1, <1>10, <2>1, Zenon DEF Maps, Early
<1>13. 0 % PAGE_SIZE = 0
  BY Sizes
<1>14. Scalars /\ Loops /\ Unscribbled /\ Passes
  BY <1>1, <1>13 DEF Scalars, Loops, Unscribbled, Passes
<1>15. QED
  BY <1>8, <1>12, <1>14 DEF IInv

\* A turn that places a page keeps the invariant, once its loop is seen to go on.
LEMMA PageAddedIInv ==
    ASSUME IInv, Early, NEW gpa, NEW x, PageAdded(gpa, x), UNCHANGED <<idx, inputs>>,
           off' \in Nat, elf_end' \in Nat, step' = step => Loops'
    PROVE  IInv'
<1>1. Scalars /\ Memory /\ Maps /\ Loops /\ step \in {"dtb", "elf", "fill"} /\ tree' = tree /\ elf' = elf
      /\ idx' = idx
  BY DEF IInv, Early, inputs
<1>2. step' \in {step, "panic"} /\ MemInv(pt', heap', data', tree) /\ MapInv(pt', data', tree, 0)
  BY DEF PageAdded
<1>3. Scalars' /\ Memory'
  BY <1>1, <1>2 DEF Scalars, Memory
<1>4. Maps'
  <2>1. 0 \in 0..Len(create_device_map(tree)')
    BY <1>1, DeviceAssumption DEF Scalars
  <2>2. MapInv(pt', data', tree', 0) /\ step' # "devices"
    BY <1>1, <1>2
  <2>3. QED
    BY <2>1, <2>2 DEF Maps
<1>5. Loops'
  BY <1>1, <1>2 DEF Loops
<1>6. Unscribbled' /\ Passes'
  BY <1>1, <1>2 DEF Unscribbled, Passes
<1>7. QED
  BY <1>3, <1>4, <1>5, <1>6 DEF IInv

LEMMA DtbAdded ==
    ASSUME IInv, map_guest_dtb
    PROVE  PageAdded(guest_dtb_gpa + off, <<"dtb", off>>) /\ Early
           /\ off \in Nat /\ off % PAGE_SIZE = 0 /\ off < aligned_dtb_size
           /\ off' = off + PAGE_SIZE /\ UNCHANGED <<idx, elf_end, inputs>>
<1>1. step = "dtb" /\ off < aligned_dtb_size /\ off \in Nat /\ off % PAGE_SIZE = 0
      /\ map_new_page(guest_dtb_gpa + off, <<"dtb", off>>, {"W", "R", "U", "V"})
      /\ off' = off + PAGE_SIZE /\ UNCHANGED <<idx, elf_end, inputs>>
  BY DEF map_guest_dtb, IInv, Scalars, Loops
<1>2. Early
  BY <1>1 DEF Early
<1>3. guest_dtb_gpa + off \in Nat
      /\ (guest_dtb_gpa + off) \div PAGE_SIZE \in GuestPages \cap OwnPages
  BY <1>1, DtbAddress
<1>4. {"W", "R", "U", "V"} \in SUBSET Flags /\ {"R", "U", "V"} \subseteq {"W", "R", "U", "V"}
  BY DEF Flags
<1>5. PageAdded(guest_dtb_gpa + off, <<"dtb", off>>)
  BY <1>1, <1>2, <1>3, <1>4, MapNewPage
<1>6. QED
  BY <1>1, <1>2, <1>5

LEMMA DtbIInv == IInv /\ map_guest_dtb => IInv'
<1> SUFFICES ASSUME IInv, map_guest_dtb PROVE IInv'
  OBVIOUS
<1>1. PageAdded(guest_dtb_gpa + off, <<"dtb", off>>) /\ Early /\ off \in Nat
      /\ off % PAGE_SIZE = 0 /\ off' = off + PAGE_SIZE /\ UNCHANGED <<idx, elf_end, inputs>>
  BY DtbAdded
<1>2. off' \in Nat /\ off' % PAGE_SIZE = 0
  BY <1>1, NextTurn, Sizes
<1>3. elf_end' \in Nat /\ step = "dtb" /\ idx' = 1
  BY <1>1 DEF IInv, Scalars, Loops, map_guest_dtb
<1>4. step' = step => Loops'
  BY <1>2, <1>3 DEF Loops
<1>5. QED
  BY <1>1, <1>2, <1>3, <1>4, PageAddedIInv

LEMMA SegmentFacts ==
    ASSUME NEW e \in Elfs, NEW i \in 1..Len(e)
    PROVE  e[i].paddr \in Nat /\ e[i].offset \in Nat /\ e[i].filesz \in Nat /\ e[i].align \in Nat
<1> DEFINE S == [paddr : Nat, offset : Nat, filesz : Nat, align : Nat, perm : STRING]
<1>1. e \in Seq(S)
  BY ElfAssumption
<1> HIDE DEF S
<1>2. e[i] \in S
  BY <1>1
<1>3. QED
  BY <1>2 DEF S

\* The address of an image page.
SegmentGpa(i, o) == guest_memory_begin + elf[i].paddr + o

\* An offset that the loop over a segment reaches is in the guest's memory.
LEMMA SegmentAddress ==
    ASSUME elf \in Elfs, NEW i \in 1..Len(elf), elf[i].align >= PAGE_SIZE,
           NEW o \in Nat, o < RoundUp(elf[i].filesz, elf[i].align)
    PROVE  /\ SegmentGpa(i, o) \in Nat /\ guest_memory_begin <= SegmentGpa(i, o)
           /\ SegmentGpa(i, o) < guest_memory_end
           /\ SegmentGpa(i, o) \div PAGE_SIZE \in GuestPages
           /\ SegmentGpa(i, o) % PAGE_SIZE = 0 => SegmentGpa(i, o) \div PAGE_SIZE \in OwnPages
<1> DEFINE N == RoundUp(elf[i].filesz, elf[i].align)
           A == elf[i].paddr
           B == guest_memory_begin
           gpa == SegmentGpa(i, o)
<1>1. A \in Nat /\ elf[i].filesz \in Nat /\ elf[i].align \in Nat
  BY SegmentFacts
<1>2. A + N <= DRAM_SIZE_PER_GUEST
  BY ElfAssumption
<1>3. elf[i].align \in Nat \ {0} /\ DRAM_SIZE_PER_GUEST \in Nat
  BY <1>1, SizeAssumption
<1>4. N \in Nat
  BY <1>1, <1>3, RoundUpFacts, Zenon
<1>5. B \in Nat /\ guest_memory_end = B + DRAM_SIZE_PER_GUEST
  BY GuestMemory
<1>6. gpa = B + A + o /\ o < N
  BY DEF SegmentGpa
<1> HIDE DEF N, A, B, gpa
<1>7. gpa \in Nat /\ B <= gpa /\ gpa < guest_memory_end
  BY <1>1, <1>2, <1>3, <1>4, <1>5, <1>6
<1>8. gpa \div PAGE_SIZE \in GuestPages
      /\ (gpa % PAGE_SIZE = 0 => gpa \div PAGE_SIZE \in OwnPages)
  BY <1>7, RamAddress DEF B
<1>9. QED
  BY <1>7, <1>8 DEF gpa, B

LEMMA ElfAdded ==
    ASSUME IInv, load_guest_elf
    PROVE  /\ PageAdded(SegmentGpa(idx, off), <<"elf", Segment.offset + off>>) /\ Early
           /\ step = "elf" /\ idx \in 1..Len(elf)
           /\ off \in Nat /\ off % PAGE_SIZE = 0 /\ off' = off + PAGE_SIZE
           /\ off < RoundUp(Segment.filesz, Segment.align)
           /\ SegmentGpa(idx, off) \in Nat /\ guest_memory_begin <= SegmentGpa(idx, off)
           /\ elf_end \in Nat /\ elf_end' \in Nat /\ elf_end' >= SegmentGpa(idx, off) + PAGE_SIZE
           /\ elf_end' >= elf_end /\ UNCHANGED <<idx, inputs>>
<1> DEFINE gpa == SegmentGpa(idx, off)
<1>1. /\ step = "elf" /\ idx <= Len(elf) /\ Segment.align >= PAGE_SIZE
      /\ off < RoundUp(Segment.filesz, Segment.align)
      /\ elf_end' = Max({elf_end, gpa + PAGE_SIZE})
      /\ map_new_page(gpa, <<"elf", Segment.offset + off>>, SegmentFlags(Segment.perm))
      /\ off' = off + PAGE_SIZE /\ UNCHANGED <<idx, inputs>>
  BY DEF load_guest_elf, SegmentGpa, Segment
<1>2. idx \in Nat \ {0} /\ off \in Nat /\ elf_end \in Nat /\ off % PAGE_SIZE = 0 /\ elf \in Elfs
  BY <1>1 DEF IInv, Scalars, Loops
<1>3. idx \in 1..Len(elf)
  <2>1. Len(elf) \in Nat
    BY <1>2, ElfAssumption
  <2>2. QED
    BY <1>1, <1>2, <2>1
<1>4. /\ gpa \in Nat /\ guest_memory_begin <= gpa /\ gpa \div PAGE_SIZE \in GuestPages
      /\ gpa % PAGE_SIZE = 0 => gpa \div PAGE_SIZE \in OwnPages
  BY <1>1, <1>2, <1>3, SegmentAddress DEF Segment
<1>5. SegmentFlags(Segment.perm) \in SUBSET Flags
      /\ {"R", "U", "V"} \subseteq SegmentFlags(Segment.perm)
  BY DEF SegmentFlags, Flags
<1>6. Early
  BY <1>1 DEF Early
<1> HIDE DEF gpa
<1>7. PageAdded(gpa, <<"elf", Segment.offset + off>>)
  BY <1>1, <1>4, <1>5, <1>6, MapNewPage
<1>8. elf_end' \in Nat /\ elf_end' >= gpa + PAGE_SIZE /\ elf_end' >= elf_end
  <2>1. gpa + PAGE_SIZE \in Nat
    BY <1>4, Sizes
  <2>2. ASSUME NEW a \in Nat, NEW b \in Nat
        PROVE  Max({a, b}) \in Nat /\ Max({a, b}) >= a /\ Max({a, b}) >= b
    <3>1. \E m \in {a, b} : \A y \in {a, b} : y <= m
      OBVIOUS
    <3>2. QED
      BY <3>1 DEF Max
  <2>3. QED
    BY <1>1, <1>2, <2>1, <2>2
<1>9. QED
  BY <1>1, <1>2, <1>3, <1>4, <1>6, <1>7, <1>8 DEF gpa

LEMMA ElfIInv == IInv /\ load_guest_elf => IInv'
<1> SUFFICES ASSUME IInv, load_guest_elf PROVE IInv'
  OBVIOUS
<1>1. /\ PageAdded(SegmentGpa(idx, off), <<"elf", Segment.offset + off>>) /\ Early
      /\ step = "elf" /\ off \in Nat /\ off % PAGE_SIZE = 0 /\ off' = off + PAGE_SIZE
      /\ SegmentGpa(idx, off) \in Nat /\ guest_memory_begin <= SegmentGpa(idx, off)
      /\ elf_end' \in Nat /\ elf_end' >= SegmentGpa(idx, off) + PAGE_SIZE
      /\ UNCHANGED <<idx, inputs>>
  BY ElfAdded
<1>2. off' \in Nat /\ off' % PAGE_SIZE = 0
  BY <1>1, NextTurn, Sizes
<1>3. elf_end' >= guest_memory_begin
  BY <1>1, GuestMemory, Sizes
<1>4. step' = step => Loops'
  BY <1>1, <1>2, <1>3 DEF Loops
<1>5. QED
  BY <1>1, <1>2, <1>4, PageAddedIInv

LEMMA FillAdded ==
    ASSUME IInv, filling_memory_region
    PROVE  /\ PageAdded(off, <<"any", 0>>) /\ Early /\ step = "fill"
           /\ off \in Nat /\ off >= elf_end /\ elf_end >= guest_memory_begin /\ elf_end \in Nat
           /\ off' = off + PAGE_SIZE /\ UNCHANGED <<idx, elf_end, inputs>>
<1>1. /\ step = "fill" /\ off < guest_memory_end
      /\ map_new_page(off, <<"any", 0>>, {"X", "W", "R", "U", "V"})
      /\ off' = off + PAGE_SIZE /\ UNCHANGED <<idx, elf_end, inputs>>
  BY DEF filling_memory_region
<1>2. off \in Nat /\ elf_end \in Nat /\ off >= elf_end /\ elf_end >= guest_memory_begin
  BY <1>1 DEF IInv, Scalars, Loops
<1>3. /\ off \div PAGE_SIZE \in GuestPages
      /\ off % PAGE_SIZE = 0 => off \div PAGE_SIZE \in OwnPages
  <2>1. guest_memory_begin <= off
    BY <1>2, GuestMemory
  <2>2. QED
    BY <1>1, <1>2, <2>1, RamAddress
<1>4. {"X", "W", "R", "U", "V"} \in SUBSET Flags
      /\ {"R", "U", "V"} \subseteq {"X", "W", "R", "U", "V"} /\ Early
  BY <1>1 DEF Flags, Early
<1>5. PageAdded(off, <<"any", 0>>)
  BY <1>1, <1>2, <1>3, <1>4, MapNewPage
<1>6. QED
  BY <1>1, <1>2, <1>4, <1>5

LEMMA FillIInv == IInv /\ filling_memory_region => IInv'
<1> SUFFICES ASSUME IInv, filling_memory_region PROVE IInv'
  OBVIOUS
<1>1. /\ PageAdded(off, <<"any", 0>>) /\ Early /\ step = "fill"
      /\ off \in Nat /\ off >= elf_end /\ elf_end >= guest_memory_begin /\ elf_end \in Nat
      /\ off' = off + PAGE_SIZE /\ UNCHANGED <<idx, elf_end, inputs>>
  BY FillAdded
<1>2. off' \in Nat /\ off' >= elf_end' /\ elf_end' >= guest_memory_begin /\ elf_end' \in Nat
  BY <1>1, Sizes
<1>3. step' = step => Loops'
  <2>1. idx' = 1
    BY <1>1 DEF IInv, Loops
  <2>2. QED
    BY <1>1, <1>2, <2>1 DEF Loops
<1>4. QED
  BY <1>1, <1>2, <1>3, PageAddedIInv

LEMMA DeviceMapTyped ==
    ASSUME IInv
    PROVE  /\ tree \in HostTrees /\ Len(create_device_map(tree)) \in Nat
           /\ Len(elf) \in Nat
<1>1. tree \in HostTrees /\ elf \in Elfs
  BY DEF IInv, Scalars
<1>2. QED
  BY <1>1, DeviceAssumption, ElfAssumption

\* A step that maps nothing keeps the memory and the mapping.
LEMMA NothingMapped ==
    ASSUME IInv, UNCHANGED <<heap, pt, data, inputs>>,
           \/ step' = step /\ idx' >= idx
           \/ step' = "devices" /\ Early
           \/ step' \in {"elf", "fill"} /\ Early
           \/ step' \in {"panic", "guest"},
           idx' \in Nat
    PROVE  Memory' /\ Maps' /\ Unscribbled'
<1>1. tree' = tree /\ heap' = heap /\ pt' = pt /\ data' = data
  BY DEF inputs
<1>2. Memory'
  BY <1>1 DEF IInv, Memory
<1>3. PICK n \in 0..Len(create_device_map(tree)) :
         MapInv(pt, data, tree, n) /\ (Early => n = 0) /\ (step = "devices" => n <= idx)
  BY DEF IInv, Maps
<1>4. (Early' => n = 0) /\ (step' = "devices" => n <= idx')
  BY <1>3 DEF IInv, Scalars, Early
<1>5. Maps'
  BY <1>1, <1>3, <1>4 DEF Maps
<1>6. Unscribbled'
  BY <1>1 DEF IInv, Unscribbled, Early
<1>7. QED
  BY <1>2, <1>5, <1>6

LEMMA GuestCreatedIInv == IInv /\ guest_created => IInv'
<1> SUFFICES ASSUME IInv, guest_created PROVE IInv'
  OBVIOUS
<1>1. step = "dtb" /\ step' = "elf" /\ off' = 0
      /\ UNCHANGED <<idx, elf_end, heap, pt, data, inputs>> /\ Early
  BY DEF guest_created, Early
<1>2. idx = 1 /\ Scalars
  BY <1>1 DEF IInv, Loops
<1>3. Memory' /\ Maps' /\ Unscribbled'
  BY <1>1, <1>2, NothingMapped
<1>4. 0 % PAGE_SIZE = 0
  BY Sizes
<1>5. Scalars' /\ Loops' /\ Passes'
  BY <1>1, <1>2, <1>4 DEF Scalars, Loops, Passes, inputs
<1>6. QED
  BY <1>3, <1>5 DEF IInv

LEMMA ElfPanicIInv == IInv /\ load_guest_elf_panic => IInv'
<1> SUFFICES ASSUME IInv, load_guest_elf_panic PROVE IInv'
  OBVIOUS
<1>1. step' = "panic" /\ UNCHANGED <<idx, off, elf_end, heap, pt, data, inputs>> /\ Scalars
  BY DEF load_guest_elf_panic, IInv
<1>2. Memory' /\ Maps' /\ Unscribbled'
  BY <1>1, NothingMapped DEF Scalars
<1>3. Scalars' /\ Loops' /\ Passes'
  BY <1>1 DEF Scalars, Loops, Passes, inputs
<1>4. QED
  BY <1>2, <1>3 DEF IInv

LEMMA NextSegmentIInv == IInv /\ next_segment => IInv'
<1> SUFFICES ASSUME IInv, next_segment PROVE IInv'
  OBVIOUS
<1>1. /\ step = "elf" /\ idx <= Len(elf) /\ idx' = idx + 1 /\ off' = 0 /\ Scalars
      /\ \/ Segment.filesz = 0
         \/ Segment.align >= PAGE_SIZE /\ off >= RoundUp(Segment.filesz, Segment.align)
      /\ UNCHANGED <<step, elf_end, heap, pt, data, inputs>>
  BY DEF next_segment, IInv
<1>2. Memory' /\ Maps' /\ Unscribbled'
  BY <1>1, NothingMapped DEF Scalars
<1>3. 0 % PAGE_SIZE = 0 /\ PAGE_SIZE \in Nat \ {0}
  BY Sizes
<1>4. idx \in 1..Len(elf) /\ Segment = elf[idx] /\ off \in Nat /\ elf \in Elfs
  BY <1>1, DeviceMapTyped DEF Scalars, Segment
<1>5. off = 0 => Segment.filesz = 0
  <2>1. elf[idx].filesz \in Nat /\ elf[idx].align \in Nat
    BY <1>4, SegmentFacts
  <2>2. ASSUME elf[idx].align >= PAGE_SIZE, off >= RoundUp(elf[idx].filesz, elf[idx].align), off = 0
        PROVE  elf[idx].filesz = 0
    <3>1. elf[idx].align \in Nat \ {0}
      BY <1>3, <2>1, <2>2
    <3>2. RoundUp(elf[idx].filesz, elf[idx].align) \in Nat
          /\ elf[idx].filesz <= RoundUp(elf[idx].filesz, elf[idx].align)
      BY <2>1, <3>1, RoundUpFacts, Zenon
    <3>3. QED
      BY <2>1, <2>2, <3>2
  <2>3. QED
    BY <1>1, <1>4, <2>2
<1>6. \/ elf_end >= guest_memory_begin
      \/ \A i \in 1..Len(elf) : i < idx + 1 => elf[i].filesz = 0
  <2>1. CASE elf_end >= guest_memory_begin
    BY <2>1
  <2>2. CASE off = 0 /\ \A i \in 1..Len(elf) : i < idx => elf[i].filesz = 0
    BY <1>4, <1>5, <2>2
  <2>3. QED
    BY <1>1, <2>1, <2>2 DEF IInv, Loops
<1>7. Loops'
  BY <1>1, <1>3, <1>6 DEF Loops, inputs
<1>8. Scalars' /\ Passes'
  BY <1>1 DEF Scalars, Passes, inputs
<1>9. QED
  BY <1>2, <1>7, <1>8 DEF IInv

LEMMA ElfLoadedIInv == IInv /\ elf_loaded => IInv'
<1> SUFFICES ASSUME IInv, elf_loaded PROVE IInv'
  OBVIOUS
<1>1. /\ step = "elf" /\ idx > Len(elf) /\ step' = "fill" /\ idx' = 1 /\ off' = elf_end
      /\ UNCHANGED <<elf_end, heap, pt, data, inputs>> /\ Early /\ Scalars
  BY DEF elf_loaded, Early, IInv
<1>2. Memory' /\ Maps' /\ Unscribbled'
  BY <1>1, NothingMapped
<1>3. elf_end >= guest_memory_begin
  <2>1. \/ elf_end >= guest_memory_begin
        \/ \A i \in 1..Len(elf) : i < idx => elf[i].filesz = 0
    BY <1>1 DEF IInv, Loops
  <2>2. elf \in Elfs /\ \E i \in 1..Len(elf) : elf[i].filesz > 0
    BY <1>1, ElfAssumption DEF Scalars
  <2>3. \A i \in 1..Len(elf) : i < idx /\ elf[i].filesz \in Nat
    BY <1>1, <2>2, DeviceMapTyped, SegmentFacts DEF Scalars
  <2>4. QED
    BY <2>1, <2>2, <2>3
<1>4. Scalars' /\ Loops' /\ Passes'
  BY <1>1, <1>3 DEF Scalars, Loops, Passes, inputs
<1>5. QED
  BY <1>2, <1>4 DEF IInv

LEMMA MemoryFilledIInv == IInv /\ memory_filled => IInv'
<1> SUFFICES ASSUME IInv, memory_filled PROVE IInv'
  OBVIOUS
<1>1. /\ step = "fill" /\ step' = "devices" /\ off' = 0 /\ Early /\ Scalars
      /\ UNCHANGED <<idx, elf_end, heap, pt, data, inputs>>
  BY DEF memory_filled, Early, IInv
<1>2. idx = 1
  BY <1>1 DEF IInv, Loops
<1>3. Memory' /\ Maps' /\ Unscribbled'
  BY <1>1, <1>2, NothingMapped
<1>4. \A n : size(trans_page_level(n)) \in Nat \ {0}
  BY LevelRange, SizeFacts
<1>5. \A n : 0 % size(trans_page_level(n)) = 0
  BY <1>4
<1>6. Loops'
  BY <1>1, <1>5 DEF Loops
<1>7. Scalars' /\ Passes'
  BY <1>1, <1>2 DEF Scalars, Passes, Done, inputs
<1>8. QED
  BY <1>3, <1>6, <1>7 DEF IInv

\* The pages of a region lie between its ends.
LEMMA PagesOfRange ==
    ASSUME NEW r, r.start \in Nat, r.len \in Nat, NEW g \in PagesOf(r)
    PROVE  /\ g \in GuestPages /\ g \in Nat /\ r.len > 0
           /\ g * PAGE_SIZE < r.start + r.len
           /\ \A x \in Nat : x * PAGE_SIZE = r.start => r.start <= g * PAGE_SIZE
<1> DEFINE P == PAGE_SIZE
<1>1. P \in Nat \ {0} /\ g \in GuestPages /\ g \in Nat
  BY Sizes DEF PagesOf
<1>2. PICK a \in r.start..(r.start + r.len - 1) : g = a \div P
  BY DEF PagesOf, HostPages
<1>3. a \in Nat /\ r.len > 0 /\ r.start <= a /\ a < r.start + r.len
  BY <1>2
<1> DEFINE m == a % P
<1>4. m \in 0..(P - 1) /\ a = P * g + m
  BY <1>1, <1>2, <1>3, DivMod
<1> HIDE DEF P, m
<1>5. g * P <= a
  BY <1>1, <1>3, <1>4
<1>6. ASSUME NEW x \in Nat, x * P = r.start
      PROVE  r.start <= g * P
  <2>1. x * P < g * P + P
    BY <1>1, <1>3, <1>4, <1>6
  <2>2. x < g + 1
    BY <1>1, <2>1
  <2>3. x <= g
    BY <1>1, <2>2
  <2>4. x * P <= g * P
    BY <1>1, <2>3
  <2>5. QED
    BY <1>6, <2>4
<1>7. g * P < r.start + r.len
  BY <1>1, <1>3, <1>5
<1>8. QED
  BY <1>1, <1>3, <1>6, <1>7 DEF P

\* A turn of the device loop.
LEMMA DeviceAdded ==
    ASSUME IInv, device_mapping_g_stage
    PROVE  \E w : /\ BlockPlaced(pt, data, tree, idx, off, w)
                  /\ pt' = w.pt /\ heap' = w.heap /\ step' = (IF w.end = "ok" THEN step ELSE w.end)
                  /\ step = "devices" /\ idx \in 1..Len(create_device_map(tree))
                  /\ off \in Nat /\ off < Device.len
                  /\ off' = off + size(trans_page_level(Device.len))
                  /\ off % size(trans_page_level(Device.len)) = 0
                  /\ UNCHANGED <<idx, elf_end, data, inputs>>
<1> DEFINE r == Device
           mm == MemoryMap(r.start, r.len, r.start, PTE_FLAGS_FOR_DEVICE)
           w == generate_page_table(pt, heap, mm, off)
<1>1. /\ step = "devices" /\ idx <= Len(create_device_map(tree)) /\ off < r.len
      /\ pt' = w.pt /\ heap' = w.heap /\ step' = (IF w.end = "ok" THEN step ELSE w.end)
      /\ off' = off + size(trans_page_level(r.len)) /\ UNCHANGED <<idx, elf_end, data, inputs>>
  BY Zenon DEF device_mapping_g_stage
<1>2. idx \in Nat \ {0} /\ off \in Nat /\ tree \in HostTrees
      /\ off % size(trans_page_level(r.len)) = 0
  BY <1>1 DEF IInv, Scalars, Loops
<1>3. idx \in 1..Len(create_device_map(tree)) /\ r = create_device_map(tree)[idx]
  BY <1>1, <1>2, DeviceMapTyped DEF Device
<1>4. PICK n \in Nat : n <= idx /\ MapInv(pt, data, tree, n)
  BY <1>1, DeviceMapTyped DEF IInv, Maps
<1>5. MemInv(pt, heap, data, tree)
  BY DEF IInv, Memory
<1> HIDE DEF r
<1>6. BlockPlaced(pt, data, tree, idx, off, w)
  BY <1>1, <1>2, <1>3, <1>4, <1>5, PlaceBlock, Zenon
<1> HIDE DEF w
<1>7. QED
  BY <1>1, <1>2, <1>3, <1>6 DEF r

LEMMA DeviceIInv == IInv /\ device_mapping_g_stage => IInv'
<1> SUFFICES ASSUME IInv, device_mapping_g_stage PROVE IInv'
  OBVIOUS
<1> DEFINE ds == create_device_map(tree)
           Z == size(trans_page_level(Device.len))
<1>1. PICK w : /\ BlockPlaced(pt, data, tree, idx, off, w)
               /\ pt' = w.pt /\ heap' = w.heap /\ step' = (IF w.end = "ok" THEN step ELSE w.end)
               /\ step = "devices" /\ idx \in 1..Len(ds)
               /\ off \in Nat /\ off < Device.len /\ off' = off + Z /\ off % Z = 0
               /\ UNCHANGED <<idx, elf_end, data, inputs>>
  BY DeviceAdded
<1>2. Scalars /\ tree' = tree /\ elf' = elf /\ idx' = idx /\ data' = data /\ Device = ds[idx]
      /\ tree \in HostTrees /\ Len(ds) \in Nat
  BY <1>1, DeviceMapTyped DEF IInv, inputs, Device
<1>3. Z \in Nat \ {0}
  BY LevelRange, SizeFacts
<1>4. off' \in Nat /\ off' % Z = 0 /\ off' > 0
  BY <1>1, <1>3, NextTurn
<1>5. /\ MemInv(w.pt, w.heap, data, tree) /\ MapInv(w.pt, data, tree, idx)
      /\ w.end \in {"ok", "panic", "scribble"}
      /\ w.end = "ok" => \E x \in Nat : x * PAGE_SIZE = Device.start + off
      /\ w.end = "ok" => \A g \in GuestPages :
            Device.start + off <= g * PAGE_SIZE /\ g * PAGE_SIZE < Device.start + off + Z
               => Target(Mapping(w.pt, g), g) = g
      /\ \A g \in GuestPages : Target(Mapping(pt, g), g) = g => Target(Mapping(w.pt, g), g) = g
      /\ w.end = "scribble" => ~LargerApart(tree)
  BY <1>1, <1>2 DEF BlockPlaced
<1>6. Scalars' /\ Memory'
  BY <1>1, <1>2, <1>4, <1>5 DEF Scalars, Memory
<1>7. Maps'
  <2>1. idx \in 0..Len(ds) /\ ~Early'
    BY <1>1, <1>2, <1>5 DEF Early
  <2>2. MapInv(pt', data', tree', idx')
    BY <1>1, <1>2, <1>5
  <2>3. QED
    BY <1>2, <2>1, <2>2 DEF Maps, Scalars
<1>8. Loops'
  <2>1. Device' = Device
    BY <1>2 DEF Device
  <2>2. step' \notin {"dtb", "elf", "fill"}
    BY <1>1, <1>5
  <2> HIDE DEF Z
  <2>3. off' % size(trans_page_level(Device'.len)) = 0
    BY <1>4, <2>1 DEF Z
  <2>4. QED
    BY <2>2, <2>3 DEF Loops
<1>9. Unscribbled'
  BY <1>1, <1>2, <1>5 DEF Unscribbled
<1>10. Passes'
  <2>1. CASE w.end # "ok"
    BY <1>1, <1>5, <2>1 DEF Passes
  <2>2. CASE w.end = "ok"
    <3>1. step' = "devices"
      BY <1>1, <2>2
    <3>2. ASSUME NEW i \in 1..Len(ds), NEW g \in PagesOf(ds[i]), Done(i, g)'
          PROVE  Target(Mapping(w.pt, g), g) = g
      <4>1. ds[i].start \in Nat /\ ds[i].len \in Nat
        BY <1>2, DeviceFacts
      <4>2. g \in GuestPages /\ g \in Nat
        BY <4>1, PagesOfRange
      <4>3. CASE Done(i, g)
        <5>1. Target(Mapping(pt, g), g) = g
          BY <1>1, <4>3 DEF IInv, Passes
        <5>2. QED
          BY <1>5, <4>2, <5>1
      <4>4. CASE ~Done(i, g)
        <5>1. i = idx /\ g * PAGE_SIZE < ds[i].start + off + Z
              /\ (off > 0 => ~(g * PAGE_SIZE < ds[i].start + off))
          <6>1. i = idx /\ g * PAGE_SIZE < ds[i].start + off'
            BY <1>2, <3>2, <4>4 DEF Done
          <6>2. QED
            BY <1>1, <1>3, <4>1, <4>4, <6>1 DEF Done
        <5>2. ds[i].start + off <= g * PAGE_SIZE
          <6>1. CASE off = 0
            <7>1. PICK x \in Nat : x * PAGE_SIZE = ds[i].start + off
              BY <1>2, <1>5, <2>2, <5>1
            <7>2. x * PAGE_SIZE = ds[i].start
              BY <4>1, <6>1, <7>1
            <7>3. QED
              BY <4>1, <6>1, <7>2, PagesOfRange
          <6>2. CASE off > 0
            <7>1. g * PAGE_SIZE \in Nat
              BY <4>2, Sizes
            <7>2. QED
              BY <1>1, <4>1, <5>1, <6>2, <7>1
          <6>3. QED
            BY <1>1, <6>1, <6>2
        <5>3. QED
          BY <1>2, <1>5, <2>2, <4>2, <5>1, <5>2
      <4>5. QED
        BY <4>3, <4>4
    <3>3. QED
      BY <1>1, <1>2, <3>1, <3>2 DEF Passes
  <2>3. QED
    BY <2>1, <2>2
<1>11. QED
  BY <1>6, <1>7, <1>8, <1>9, <1>10 DEF IInv

LEMMA NextDeviceIInv == IInv /\ next_device => IInv'
<1> SUFFICES ASSUME IInv, next_device PROVE IInv'
  OBVIOUS
<1> DEFINE ds == create_device_map(tree)
<1>1. /\ step = "devices" /\ idx <= Len(ds) /\ off >= Device.len /\ Scalars
      /\ idx' = idx + 1 /\ off' = 0 /\ UNCHANGED <<step, elf_end, heap, pt, data, inputs>>
  BY DEF next_device, IInv
<1>2. Memory' /\ Maps' /\ Unscribbled'
  BY <1>1, NothingMapped DEF Scalars
<1>3. \A n : size(trans_page_level(n)) \in Nat \ {0}
  BY LevelRange, SizeFacts
<1>4. \A n : 0 % size(trans_page_level(n)) = 0
  BY <1>3
<1>5. Loops'
  BY <1>1, <1>4 DEF Loops
<1>6. ASSUME NEW i \in 1..Len(ds), NEW g \in PagesOf(ds[i]), Done(i, g)'
      PROVE  Target(Mapping(pt, g), g) = g
  <2>1. ds[i].start \in Nat /\ ds[i].len \in Nat /\ Len(ds) \in Nat
    BY <1>1, DeviceFacts, DeviceMapTyped DEF Scalars
  <2>2. i < idx + 1
    BY <1>1, <1>6 DEF Done
  <2>3. CASE i < idx
    BY <1>1, <2>3 DEF Done, IInv, Passes
  <2>4. CASE i = idx
    <3>1. ds[i].len > 0 /\ g * PAGE_SIZE < ds[i].start + ds[i].len /\ g \in Nat
      BY <2>1, PagesOfRange
    <3>2. g * PAGE_SIZE \in Nat
      BY <3>1, Sizes
    <3>3. off > 0 /\ g * PAGE_SIZE < ds[i].start + off
      BY <1>1, <2>1, <2>4, <3>1, <3>2 DEF Device, Scalars
    <3>4. Done(i, g)
      BY <1>1, <2>4, <3>3 DEF Done
    <3>5. QED
      BY <1>1, <3>4 DEF IInv, Passes
  <2>5. QED
    BY <1>1, <2>1, <2>2, <2>3, <2>4 DEF Scalars
<1>7. Passes'
  BY <1>1, <1>6 DEF Passes, inputs
<1>8. Scalars'
  BY <1>1 DEF Scalars, inputs
<1>9. QED
  BY <1>2, <1>5, <1>7, <1>8 DEF IInv

LEMMA DevicesMappedIInv == IInv /\ devices_mapped => IInv'
<1> SUFFICES ASSUME IInv, devices_mapped PROVE IInv'
  OBVIOUS
<1>1. /\ step = "devices" /\ idx > Len(create_device_map(tree)) /\ step' = "guest" /\ Scalars
      /\ UNCHANGED <<idx, off, elf_end, heap, pt, data, inputs>>
  BY DEF devices_mapped, IInv
<1>2. Memory' /\ Maps' /\ Unscribbled'
  BY <1>1, NothingMapped DEF Scalars
<1>3. \A i \in 1..Len(create_device_map(tree)) : \A g : Done(i, g)
  BY <1>1, DeviceMapTyped DEF Done, Scalars
<1>4. Passes'
  BY <1>1, <1>3 DEF Passes, IInv, inputs
<1>5. Scalars' /\ Loops'
  BY <1>1 DEF Scalars, Loops, inputs
<1>6. QED
  BY <1>2, <1>4, <1>5 DEF IInv

LEMMA StutterIInv == IInv /\ UNCHANGED vars => IInv'
<1> SUFFICES ASSUME IInv, UNCHANGED vars PROVE IInv'
  OBVIOUS
<1>1. step' = step /\ idx' = idx /\ off' = off /\ elf_end' = elf_end /\ heap' = heap /\ pt' = pt
      /\ data' = data /\ elf' = elf /\ tree' = tree
  BY DEF vars
<1>2. QED
  BY <1>1 DEF IInv, Scalars, Memory, Maps, Loops, Unscribbled, Passes, Done, Early, Device

\* vsmode_setup keeps the tables a tree over memory of its own, gives the guest
\* nothing but its pages and the devices, and goes by whole pages and blocks.
THEOREM GStageIInvariant == Spec => []IInv
<1>1. Init => IInv
  BY InitIInv
<1>2. IInv /\ [Next]_vars => IInv'
  BY DtbIInv, GuestCreatedIInv, ElfIInv, ElfPanicIInv, NextSegmentIInv, ElfLoadedIInv,
     FillIInv, MemoryFilledIInv, DeviceIInv, NextDeviceIInv, DevicesMappedIInv, StutterIInv
     DEF Next
<1>3. QED
  BY <1>1, <1>2, PTL DEF Spec

----------------------------------------------------------------------------
(* What the guest reaches                                                  *)

LEMMA DataPages ==
    ASSUME NEW p, NEW h, NEW d, NEW t, MemInv(p, h, d, t)
    PROVE  DOMAIN d \subseteq Nat
<1>1. PICK h0 \in Heaps : DOMAIN p \cup DOMAIN d \cup h \subseteq h0 \cup {ROOT}
  BY DEF MemInv
<1>2. h0 \subseteq Nat /\ ROOT \in Nat
  BY HeapAssumption
<1>3. QED
  BY <1>1, <1>2

\* Every guest page faults, leads to a page of the guest, or to itself in a device.
Reach(g) ==
    \/ hw_walk(pt, g) = Fault
    \/ /\ Backed(pt, data, g) /\ hw_walk(pt, g) = Mapping(pt, g).entry.ppn
       /\ hw_walk(pt, g) \in DOMAIN data
    \/ /\ hw_walk(pt, g) = g
       /\ \E i \in 1..Len(create_device_map(tree)) : g \in DeviceBlocks(tree, i)

LEMMA Reached ==
    ASSUME IInv, NEW g \in GuestPages
    PROVE  Reach(g)
<1>1. hw_walk(pt, g) = Target(Mapping(pt, g), g)
  BY WalkFacts DEF IInv, Memory, MemInv
<1>2. PICK n \in 0..Len(create_device_map(tree)) : MapInv(pt, data, tree, n)
  BY DEF IInv, Maps
<1>3. Mapping(pt, g) = Unmapped \/ Backed(pt, data, g) \/ \E i \in 1..n : Passed(pt, tree, i, g)
  BY <1>2 DEF MapInv
<1>4. CASE Mapping(pt, g) = Unmapped
  BY <1>1, <1>4 DEF Target, Unmapped, Reach
<1>5. CASE Backed(pt, data, g)
  <2> DEFINE x == Mapping(pt, g).entry.ppn
  <2>1. x \in DOMAIN data /\ Mapping(pt, g).level = 0
    BY <1>5 DEF Backed
  <2>2. x \in Nat /\ g \in Nat
    BY <2>1, DataPages, Sizes DEF IInv, Memory
  <2>3. Target(Mapping(pt, g), g) = x
    BY <2>1, <2>2, Sizes DEF Target
  <2>4. QED
    BY <1>1, <1>5, <2>1, <2>3 DEF Reach
<1>6. CASE \E i \in 1..n : Passed(pt, tree, i, g)
  <2>1. PICK i \in 1..n : Passed(pt, tree, i, g)
    BY <1>6
  <2>2. i \in 1..Len(create_device_map(tree))
    BY <1>2, <2>1, DeviceMapTyped
  <2>3. QED
    BY <1>1, <2>1, <2>2 DEF Passed, Reach
<1>7. QED
  BY <1>3, <1>4, <1>5, <1>6

LEMMA DeviceReach ==
    ASSUME IInv, NEW i \in 1..Len(create_device_map(tree)), NEW g \in DeviceBlocks(tree, i)
    PROVE  /\ g \notin DOMAIN pt /\ g \notin heap /\ g \notin DOMAIN data
           /\ \E r \in DeviceRange : g \in PagesOf(Blocks(r))
           /\ g \in DevicePages
<1>1. tree \in HostTrees /\ MemInv(pt, heap, data, tree)
  BY DEF IInv, Scalars, Memory
<1>2. g \in GuestPages
  BY <1>1, DeviceFacts
<1>3. create_device_map(tree)[i] \in DeviceRange
      /\ g \in HostPages(Blocks(create_device_map(tree)[i]))
  BY DEF DeviceRange, DeviceBlocks
<1>4. QED
  BY <1>1, <1>2, <1>3, DevicesOutsideHeap DEF PagesOf, DevicePages

\* Types, and for every entry of every table: the page number is that of a
\* table, of a page given to the guest or of a device.
THEOREM GStageTypeOK == Spec => []TypeOK
<1>1. IInv => TypeOK
  <2> SUFFICES ASSUME IInv PROVE TypeOK
    OBVIOUS
  <2> DEFINE pages == {0} \cup DOMAIN pt \cup DOMAIN data \cup DevicePages
  <2>1. Scalars /\ MemInv(pt, heap, data, tree)
    BY DEF IInv, Memory
  <2>2. PICK L \in [DOMAIN pt -> 0..2] : TablesOK(pt, L, heap)
    BY <2>1 DEF MemInv, Sound
  <2>3. AllDevicePages(tree) \subseteq DevicePages
    BY DeviceReach DEF AllDevicePages
  <2>4. ASSUME NEW t \in DOMAIN pt
        PROVE  pt[t] \in [Indices(t) -> [ppn : pages, flags : SUBSET Flags]]
    <3>1. pt[t] \in [Indices(t) -> Entry]
      BY <2>2 DEF TablesOK
    <3>2. \A i \in Indices(t) : pt[t][i].ppn \in pages
      BY <2>1, <2>3 DEF MemInv, EntriesIn
    <3> HIDE DEF pages
    <3>3. ASSUME NEW i \in Indices(t)
          PROVE  pt[t][i] \in [ppn : pages, flags : SUBSET Flags]
      <4>1. pt[t][i] \in Entry /\ pt[t][i].ppn \in pages
        BY <3>1, <3>2
      <4>2. QED
        BY <4>1 DEF Entry
    <3>4. QED
      BY <3>1, <3>3
  <2>5. \A t \in DOMAIN pt :
           pt[t] \in [0..((IF t = ROOT THEN FIRST_LV_PAGE_TABLE_LEN ELSE PAGE_TABLE_LEN) - 1)
                        -> [ppn : pages, flags : SUBSET Flags]]
    BY <2>4 DEF Indices
  <2>6. heap \subseteq Nat /\ ROOT \in DOMAIN pt
    BY <2>2 DEF TablesOK
  <2> HIDE DEF pages
  <2>7. QED
    BY <2>1, <2>5, <2>6 DEF TypeOK, Scalars, pages
<1>2. QED
  BY <1>1, GStageIInvariant, PTL

\* No table is free or the guest's, however the loops and the walks allocate
\* (map_new_page and next_table take from the same heap).
THEOREM TablesStayApart == Spec => []OwnersDisjoint
<1>1. IInv => OwnersDisjoint
  <2> SUFFICES ASSUME IInv PROVE OwnersDisjoint
    OBVIOUS
  <2>1. DOMAIN pt \cap DOMAIN data = {} /\ heap \cap DOMAIN data = {} /\ DOMAIN pt \cap heap = {}
    BY SoundSets DEF IInv, Memory, MemInv
  <2>2. QED
    BY <2>1 DEF OwnersDisjoint
<1>2. QED
  BY <1>1, GStageIInvariant, PTL

\* At every moment of the construction, whatever guest address is used, the
\* hardware's walk ends in no page table and in no page the heap may hand out.
THEOREM GuestStaysIsolated == Spec => []GuestIsolated
<1>1. IInv => GuestIsolated
  <2> SUFFICES ASSUME IInv, NEW g \in GuestPages
               PROVE  hw_walk(pt, g) \notin DOMAIN pt \cup heap
    BY DEF GuestIsolated
  <2>1. DOMAIN pt \cap DOMAIN data = {} /\ heap \cap DOMAIN data = {}
        /\ DOMAIN pt \subseteq Nat /\ heap \subseteq Nat
    BY SoundSets DEF IInv, Memory, MemInv
  <2>2. Reach(g)
    BY Reached
  <2>3. QED
    BY <2>1, <2>2, DeviceReach DEF Reach, Fault
<1>2. QED
  BY <1>1, GStageIInvariant, PTL

\* trans_addr, which looks at no V bit, agrees with the hardware on every page
\* that is mapped, at every page size.
THEOREM SoftwareWalkAgrees == Spec => []WalksAgree
<1>1. IInv => WalksAgree
  BY WalkFacts DEF IInv, Memory, MemInv, WalksAgree
<1>2. QED
  BY <1>1, GStageIInvariant, PTL

\* Two pages of the guest's memory or of its device tree never share a host page.
THEOREM RamStaysPrivate == Spec => []RamPrivate
<1>1. IInv => RamPrivate
  <2> SUFFICES ASSUME IInv, NEW a \in RamPages \cup DtbPages, NEW b \in RamPages \cup DtbPages,
                      a # b, hw_walk(pt, a) # Fault, hw_walk(pt, a) = hw_walk(pt, b)
               PROVE  FALSE
    BY DEF RamPrivate
  <2>1. \A x \in RamPages \cup DtbPages : x \in GuestPages
    <3>1. ASSUME NEW o \in Turns(aligned_dtb_size, PAGE_SIZE)
          PROVE  (guest_dtb_gpa + o) \div PAGE_SIZE \in GuestPages
      <4>1. o \in Nat /\ o < aligned_dtb_size /\ o % PAGE_SIZE = 0
        BY GuestMemory DEF Turns
      <4>2. QED
        BY <4>1, DtbAddress
    <3>2. QED
      BY <3>1 DEF RamPages, DtbPages
  <2>2. Reach(a) /\ Reach(b)
    BY <2>1, Reached
  <2>3. PICK n \in 0..Len(create_device_map(tree)) : MapInv(pt, data, tree, n)
    BY DEF IInv, Maps
  <2>4. ~(Backed(pt, data, a) /\ Backed(pt, data, b)
          /\ Mapping(pt, a).entry.ppn = Mapping(pt, b).entry.ppn)
    BY <2>1, <2>3 DEF MapInv
  <2>5. QED
    BY <2>2, <2>4, DeviceReach DEF Reach
<1>2. QED
  BY <1>1, GStageIInvariant, PTL

\* The guest reaches its own memory, its device tree and whole blocks of
\* devices, and nothing else.
THEOREM NothingElseIsMapped == Spec => []NothingElseMapped
<1>1. IInv => NothingElseMapped
  <2> SUFFICES ASSUME IInv, NEW g \in GuestPages, hw_walk(pt, g) # Fault
               PROVE  \/ g \in RamPages \cup DtbPages
                      \/ \E r \in DeviceRange : g \in PagesOf(Blocks(r))
    BY DEF NothingElseMapped
  <2>1. Reach(g)
    BY Reached
  <2>2. CASE Backed(pt, data, g)
    <3>1. PICK n \in 0..Len(create_device_map(tree)) : MapInv(pt, data, tree, n)
      BY DEF IInv, Maps
    <3>2. QED
      BY <2>2, <3>1 DEF MapInv, OwnPages
  <2>3. CASE \E i \in 1..Len(create_device_map(tree)) : g \in DeviceBlocks(tree, i)
    BY <2>3, DeviceReach
  <2>4. QED
    BY <2>1, <2>2, <2>3 DEF Reach
<1>2. QED
  BY <1>1, GStageIInvariant, PTL

\* When the guest starts, every page of every device is mapped one to one,
\* whichever page sizes its length selects and in whatever order the device
\* regions overlap.
THEOREM DevicesArePassedThrough == Spec => []DevicesPassThrough
<1>1. IInv => DevicesPassThrough
  <2> SUFFICES ASSUME IInv, step = "guest", NEW r \in DeviceRange, NEW g \in PagesOf(r)
               PROVE  hw_walk(pt, g) = g
    BY DEF DevicesPassThrough
  <2>1. PICK i \in 1..Len(create_device_map(tree)) : r = create_device_map(tree)[i]
    BY DEF DeviceRange
  <2>2. Done(i, g)
    BY <2>1, DeviceMapTyped DEF IInv, Passes, Done, Scalars
  <2>3. Target(Mapping(pt, g), g) = g
    BY <2>1, <2>2 DEF IInv, Passes
  <2>4. g \in GuestPages
    BY DEF PagesOf
  <2>5. QED
    BY <2>3, <2>4, WalkFacts DEF IInv, Memory, MemInv
<1>2. QED
  BY <1>1, GStageIInvariant, PTL

\* generate_page_table never walks through a superpage, provided that no device
\* is covered by the superpages of one before it: already_created itself does
\* not tell a table from a leaf.
THEOREM NeverScribblesWhenApart == Spec => [](LargerApart(tree) => NeverScribbles)
<1>1. IInv => (LargerApart(tree) => NeverScribbles)
  BY DEF IInv, Unscribbled, NeverScribbles
<1>2. QED
  BY <1>1, GStageIInvariant, PTL

\* The pages of the context registers that nothing else covers.
ContextPages(t) ==
    PagesOf([start |-> t.plic.start + CONTEXT_BASE, len |-> t.plic.len - CONTEXT_BASE])
ContextApart(t) ==
    /\ ContextPages(t) \cap OwnPages = {}
    /\ \A i \in 1..Len(create_device_map(t)) : ContextPages(t) \cap DeviceBlocks(t, i) = {}

\* The PLIC's context registers trap, from the first moment on, when no other
\* region covers them; the blocks that map the rest of the PLIC count as one.
THEOREM ContextRegistersAlwaysTrap == Spec => [](ContextApart(tree) => ContextRegistersTrap)
<1>1. IInv => (ContextApart(tree) => ContextRegistersTrap)
  <2> SUFFICES ASSUME IInv, ContextApart(tree), NEW g \in ContextPages(tree)
               PROVE  hw_walk(pt, g) = Fault
    BY DEF ContextRegistersTrap, ContextPages
  <2>1. g \in GuestPages
    BY DEF ContextPages, PagesOf
  <2>2. Reach(g)
    BY <2>1, Reached
  <2>3. ~Backed(pt, data, g)
    <3>1. PICK n \in 0..Len(create_device_map(tree)) : MapInv(pt, data, tree, n)
      BY DEF IInv, Maps
    <3>2. QED
      BY <2>1, <3>1 DEF MapInv, ContextApart
  <2>4. ~\E i \in 1..Len(create_device_map(tree)) : g \in DeviceBlocks(tree, i)
    BY DEF ContextApart
  <2>5. QED
    BY <2>2, <2>3, <2>4 DEF Reach
<1>2. QED
  BY <1>1, GStageIInvariant, PTL

----------------------------------------------------------------------------
(* The image and the device tree are there when the guest starts           *)

\* No device block covers the guest's memory or its device tree.
DevicesApart(t) ==
    \A i \in 1..Len(create_device_map(t)) : DeviceBlocks(t, i) \cap OwnPages = {}

\* No segment, rounded up to its alignment, covers a page that holds file
\* contents of a segment before it.
SegmentsApart(e) ==
    \A j \in 1..Len(e) : \A i \in 1..(j - 1) :
        \A o \in Turns(e[i].filesz, PAGE_SIZE) :
           \A x \in Turns(RoundUp(e[j].filesz, e[j].align), PAGE_SIZE) :
              (guest_memory_begin + e[i].paddr + o) \div PAGE_SIZE
                 # (guest_memory_begin + e[j].paddr + x) \div PAGE_SIZE

\* The pages done so far.
DtbDone(o) == step \in {"elf", "fill", "devices", "guest"} \/ (step = "dtb" /\ o < off)
ElfDone(i, o) ==
    \/ step \in {"fill", "devices", "guest"}
    \/ step = "elf" /\ (i < idx \/ (i = idx /\ o < off))

DtbPage(o) == (guest_dtb_gpa + o) \div PAGE_SIZE
ElfPage(i, o) == SegmentGpa(i, o) \div PAGE_SIZE

DtbPlaced ==
    \A o \in Turns(aligned_dtb_size, PAGE_SIZE) :
        DtbDone(o) => Contents(pt, data, DtbPage(o), <<"dtb", o>>)
ElfPlaced ==
    \A i \in 1..Len(elf) : \A o \in Turns(elf[i].filesz, PAGE_SIZE) :
        ElfDone(i, o) =>
            /\ ElfPage(i, o) \in GuestPages
            /\ Contents(pt, data, ElfPage(i, o), <<"elf", elf[i].offset + o>>)
            /\ step \in {"elf", "fill"} => SegmentGpa(i, o) + PAGE_SIZE <= elf_end

Apart == DevicesApart(tree) /\ SegmentsApart(elf)
ImageInv == Apart => DtbPlaced /\ ElfPlaced

LEMMA TurnFacts ==
    ASSUME NEW len \in Nat, NEW o
    PROVE  o \in Turns(len, PAGE_SIZE) <=> o \in Nat /\ o < len /\ o % PAGE_SIZE = 0
BY DEF Turns

\* Two whole pages: one is before the other, or they are the same.
LEMMA TurnsApart ==
    ASSUME NEW o \in Nat, NEW x \in Nat, o % PAGE_SIZE = 0, x % PAGE_SIZE = 0
    PROVE  /\ o < x => o + PAGE_SIZE <= x
           /\ o < x + PAGE_SIZE => o < x \/ o = x
<1> DEFINE P == PAGE_SIZE
<1>1. P \in Nat \ {0} /\ o % P = 0 /\ x % P = 0
  BY Sizes
<1>2. PICK a \in Nat : o = P * a
  BY <1>1, Quotient
<1>3. PICK b \in Nat : x = P * b
  BY <1>1, Quotient
<1> HIDE DEF P
<1>4. o < x => o + P <= x
  <2>1. SUFFICES ASSUME o < x PROVE o + P <= x
    OBVIOUS
  <2>2. a < b
    BY <1>1, <1>2, <1>3, <2>1
  <2>3. QED
    BY <1>1, <1>2, <1>3, <2>2
<1>5. o < x + P => o < x \/ o = x
  <2>1. SUFFICES ASSUME o < x + P PROVE o < x \/ o = x
    OBVIOUS
  <2>2. x + P = P * (b + 1)
    BY <1>1, <1>3
  <2>3. a < b + 1
    BY <1>1, <1>2, <1>3, <2>1, <2>2
  <2>4. CASE a = b
    BY <1>2, <1>3, <2>4
  <2>5. CASE a < b
    <3>1. P * a < P * b
      BY <1>1, <2>5
    <3>2. QED
      BY <1>2, <1>3, <3>1
  <2>6. QED
    BY <2>3, <2>4, <2>5
<1>6. QED
  BY <1>4, <1>5 DEF P

LEMMA DtbTurn ==
    ASSUME NEW o \in Turns(aligned_dtb_size, PAGE_SIZE)
    PROVE  /\ o \in Nat /\ o < aligned_dtb_size /\ o % PAGE_SIZE = 0
           /\ guest_dtb_gpa + o \in Nat /\ guest_dtb_gpa + o + PAGE_SIZE <= guest_memory_begin
           /\ DtbPage(o) \in GuestPages /\ DtbPage(o) \in OwnPages
<1>1. o \in Nat /\ o < aligned_dtb_size /\ o % PAGE_SIZE = 0
  BY GuestMemory, TurnFacts
<1>2. QED
  BY <1>1, DtbAddress DEF DtbPage

\* The device tree stays while pages of the guest's memory are added.
LEMMA DtbKept ==
    ASSUME DtbPlaced, NEW gpa \in Nat, guest_memory_begin <= gpa, NEW x, PageAdded(gpa, x),
           step' = step, step \in {"elf", "fill"}
    PROVE  DtbPlaced'
<1> SUFFICES ASSUME NEW o \in Turns(aligned_dtb_size, PAGE_SIZE)
             PROVE  Contents(pt', data', DtbPage(o), <<"dtb", o>>)
  BY DEF DtbPlaced, DtbPage
<1>1. Contents(pt, data, DtbPage(o), <<"dtb", o>>)
  BY DEF DtbPlaced, DtbDone
<1>2. guest_dtb_gpa + o \in Nat /\ guest_dtb_gpa + o + PAGE_SIZE <= gpa /\ DtbPage(o) \in GuestPages
  <2> DEFINE a == guest_dtb_gpa + o
  <2>1. a \in Nat /\ a + PAGE_SIZE <= guest_memory_begin /\ DtbPage(o) \in GuestPages
    BY DtbTurn
  <2>2. guest_memory_begin \in Nat /\ PAGE_SIZE \in Nat
    BY GuestMemory, Sizes
  <2> HIDE DEF a
  <2>3. a + PAGE_SIZE <= gpa
    BY <2>1, <2>2
  <2>4. QED
    BY <2>1, <2>3 DEF a
<1>3. DtbPage(o) # gpa \div PAGE_SIZE
  BY <1>2, PagesApart DEF DtbPage
<1>4. QED
  BY <1>1, <1>2, <1>3 DEF PageAdded

LEMMA ImageDtb == IInv /\ ImageInv /\ map_guest_dtb => ImageInv'
<1> SUFFICES ASSUME IInv, ImageInv, map_guest_dtb, Apart' PROVE DtbPlaced' /\ ElfPlaced'
  BY DEF ImageInv
<1>1. /\ PageAdded(guest_dtb_gpa + off, <<"dtb", off>>) /\ step = "dtb"
      /\ off \in Nat /\ off % PAGE_SIZE = 0 /\ off < aligned_dtb_size
      /\ off' = off + PAGE_SIZE /\ UNCHANGED <<idx, elf_end, inputs>>
  BY DtbAdded DEF map_guest_dtb
<1>2. DtbPlaced /\ step' \in {"dtb", "panic"}
  BY <1>1 DEF ImageInv, Apart, inputs, PageAdded
<1>3. ElfPlaced'
  BY <1>2 DEF ElfPlaced, ElfDone
<1>4. ASSUME NEW o \in Turns(aligned_dtb_size, PAGE_SIZE), DtbDone(o)'
      PROVE  Contents(pt', data', DtbPage(o), <<"dtb", o>>)
  <2>1. step' = step /\ o < off + PAGE_SIZE
    BY <1>1, <1>2, <1>4 DEF DtbDone
  <2>2. o \in Nat /\ o % PAGE_SIZE = 0 /\ guest_dtb_gpa + o \in Nat /\ DtbPage(o) \in GuestPages
    BY DtbTurn
  <2>3. CASE o < off
    <3>1. o + PAGE_SIZE <= off /\ guest_dtb_gpa \in Nat /\ PAGE_SIZE \in Nat
      BY <1>1, <2>2, <2>3, TurnsApart, GuestMemory, Sizes
    <3>2. guest_dtb_gpa + o + PAGE_SIZE <= guest_dtb_gpa + off /\ guest_dtb_gpa + off \in Nat
      BY <1>1, <2>2, <3>1
    <3>3. DtbPage(o) # (guest_dtb_gpa + off) \div PAGE_SIZE
      BY <2>2, <3>2, PagesApart DEF DtbPage
    <3>4. Contents(pt, data, DtbPage(o), <<"dtb", o>>)
      BY <1>1, <1>2, <2>3 DEF DtbPlaced, DtbDone
    <3>5. QED
      BY <1>1, <2>1, <2>2, <3>3, <3>4 DEF PageAdded
  <2>4. CASE o = off
    BY <1>1, <2>1, <2>4 DEF PageAdded, DtbPage
  <2>5. QED
    BY <1>1, <2>1, <2>2, <2>3, <2>4, TurnsApart
<1>5. DtbPlaced'
  BY <1>4 DEF DtbPlaced, DtbPage
<1>6. QED
  BY <1>3, <1>5

LEMMA ImageCreated == IInv /\ ImageInv /\ guest_created => ImageInv'
<1> SUFFICES ASSUME IInv, ImageInv, guest_created, Apart' PROVE DtbPlaced' /\ ElfPlaced'
  BY DEF ImageInv
<1>1. step = "dtb" /\ off >= aligned_dtb_size /\ step' = "elf" /\ off' = 0 /\ idx' = 1
      /\ pt' = pt /\ data' = data /\ elf' = elf /\ tree' = tree /\ off \in Nat
  BY DEF guest_created, inputs, IInv, Loops, Scalars
<1>2. DtbPlaced
  BY <1>1 DEF ImageInv, Apart
<1>3. \A o \in Turns(aligned_dtb_size, PAGE_SIZE) : DtbDone(o)
  BY <1>1, DtbTurn, GuestMemory DEF DtbDone
<1>4. DtbPlaced'
  BY <1>1, <1>2, <1>3 DEF DtbPlaced, DtbPage
<1>5. \A i \in 1..Len(elf) : \A o \in Turns(elf[i].filesz, PAGE_SIZE) : ~ElfDone(i, o)'
  BY <1>1 DEF ElfDone, Turns
<1>6. ElfPlaced'
  BY <1>1, <1>5 DEF ElfPlaced
<1>7. QED
  BY <1>4, <1>6

LEMMA ImageElf == IInv /\ ImageInv /\ load_guest_elf => ImageInv'
<1> SUFFICES ASSUME IInv, ImageInv, load_guest_elf, Apart' PROVE DtbPlaced' /\ ElfPlaced'
  BY DEF ImageInv
<1> DEFINE gpa == SegmentGpa(idx, off)
<1>1. /\ PageAdded(gpa, <<"elf", elf[idx].offset + off>>)
      /\ step = "elf" /\ idx \in 1..Len(elf)
      /\ off \in Nat /\ off % PAGE_SIZE = 0 /\ off' = off + PAGE_SIZE
      /\ off < RoundUp(elf[idx].filesz, elf[idx].align)
      /\ gpa \in Nat /\ guest_memory_begin <= gpa
      /\ elf_end \in Nat /\ elf_end' \in Nat /\ elf_end' >= gpa + PAGE_SIZE
      /\ elf_end' >= elf_end /\ idx' = idx /\ elf' = elf /\ tree' = tree
  BY ElfAdded DEF Segment, inputs
<1>2. DtbPlaced /\ ElfPlaced /\ step' \in {"elf", "panic"} /\ SegmentsApart(elf) /\ elf \in Elfs
  BY <1>1 DEF ImageInv, Apart, PageAdded, IInv, Scalars
<1>3. CASE step' = "panic"
  BY <1>3 DEF DtbPlaced, ElfPlaced, DtbDone, ElfDone
<1>4. CASE step' = step
  <2>1. DtbPlaced'
    BY <1>1, <1>2, <1>4, DtbKept
  <2>p. PAGE_SIZE \in Nat \ {0} /\ guest_memory_begin \in Nat
    BY Sizes, GuestMemory
  <2>2. elf[idx].align >= PAGE_SIZE /\ elf[idx].align \in Nat /\ elf[idx].filesz \in Nat
    BY <1>1, <1>2, SegmentFacts DEF load_guest_elf, Segment
  <2>3. gpa \div PAGE_SIZE \in GuestPages
    BY <1>1, <1>2, <2>2, SegmentAddress
  <2>4. off \in Turns(RoundUp(elf[idx].filesz, elf[idx].align), PAGE_SIZE)
    <3>1. elf[idx].align \in Nat \ {0}
      BY <2>2, <2>p
    <3>2. RoundUp(elf[idx].filesz, elf[idx].align) \in Nat
      BY <2>2, <3>1, RoundUpFacts, Zenon
    <3>3. QED
      BY <1>1, <3>2, TurnFacts
  <2>5. ASSUME NEW i \in 1..Len(elf), NEW o \in Turns(elf[i].filesz, PAGE_SIZE), ElfDone(i, o)'
        PROVE  /\ ElfPage(i, o) \in GuestPages
               /\ Contents(pt', data', ElfPage(i, o), <<"elf", elf[i].offset + o>>)
               /\ SegmentGpa(i, o) + PAGE_SIZE <= elf_end'
    <3>1. elf[i].filesz \in Nat /\ elf[i].paddr \in Nat
      BY <1>2, SegmentFacts
    <3>2. o \in Nat /\ o % PAGE_SIZE = 0
      BY <3>1, TurnFacts
    <3>3. SegmentGpa(i, o) \in Nat
      BY <3>1, <3>2, <2>p DEF SegmentGpa
    <3>4. CASE ElfDone(i, o)
      <4>1. /\ ElfPage(i, o) \in GuestPages
            /\ Contents(pt, data, ElfPage(i, o), <<"elf", elf[i].offset + o>>)
            /\ SegmentGpa(i, o) + PAGE_SIZE <= elf_end
        BY <1>1, <1>2, <3>4 DEF ElfPlaced
      <4>2. ElfPage(i, o) # gpa \div PAGE_SIZE
        <5>1. CASE i = idx
          <6>1. o < off
            BY <1>1, <3>4, <5>1 DEF ElfDone
          <6>2. o + PAGE_SIZE <= off
            BY <1>1, <3>2, <6>1, TurnsApart
          <6>3. SegmentGpa(i, o) + PAGE_SIZE <= gpa
            <7> DEFINE A == elf[i].paddr
                       B == guest_memory_begin
            <7>1. SegmentGpa(i, o) = B + A + o /\ gpa = B + A + off
              BY <5>1 DEF SegmentGpa
            <7>2. A \in Nat /\ B \in Nat /\ PAGE_SIZE \in Nat /\ off \in Nat
              BY <1>1, <2>p, <3>1
            <7> HIDE DEF A, B, gpa
            <7>3. QED
              BY <3>2, <6>2, <7>1, <7>2
          <6> HIDE DEF gpa
          <6>4. QED
            BY <1>1, <3>3, <6>3, PagesApart DEF ElfPage
        <5>2. CASE i # idx
          <6>1. i \in 1..(idx - 1)
            BY <1>1, <3>4, <5>2 DEF ElfDone
          <6>2. QED
            BY <1>1, <1>2, <2>4, <6>1 DEF SegmentsApart, ElfPage, SegmentGpa
        <5>3. QED
          BY <5>1, <5>2
      <4>3. SegmentGpa(i, o) + PAGE_SIZE <= elf_end'
        BY <1>1, <2>p, <3>3, <4>1
      <4> HIDE DEF gpa
      <4>4. QED
        BY <1>1, <1>4, <4>1, <4>2, <4>3 DEF PageAdded
    <3>5. CASE ~ElfDone(i, o)
      <4>1. i = idx /\ o < off + PAGE_SIZE /\ ~(o < off)
        BY <1>1, <1>4, <2>5, <3>5 DEF ElfDone
      <4>2. o = off
        BY <1>1, <3>2, <4>1, TurnsApart
      <4>3. ElfPage(i, o) = gpa \div PAGE_SIZE /\ SegmentGpa(i, o) = gpa
        BY <4>1, <4>2 DEF ElfPage
      <4> HIDE DEF gpa
      <4>4. QED
        BY <1>1, <1>4, <2>3, <4>1, <4>2, <4>3 DEF PageAdded
    <3>6. QED
      BY <3>4, <3>5
  <2>6. ElfPlaced'
    BY <1>1, <2>5 DEF ElfPlaced, ElfPage, SegmentGpa
  <2>7. QED
    BY <2>1, <2>6
<1>5. QED
  BY <1>1, <1>2, <1>3, <1>4

LEMMA ImagePanic == IInv /\ ImageInv /\ load_guest_elf_panic => ImageInv'
BY DEF load_guest_elf_panic, ImageInv, DtbPlaced, ElfPlaced, DtbDone, ElfDone

\* What has been placed stays when only the loops move on.
LEMMA ImageKept ==
    ASSUME IInv, ImageInv, UNCHANGED <<pt, data, elf_end, inputs>>,
           step \in {"elf", "fill", "devices", "guest"}, step' \in {"elf", "fill", "devices", "guest"},
           step' \in {"elf", "fill"} => step \in {"elf", "fill"},
           \A i \in 1..Len(elf) : \A o \in Turns(elf[i].filesz, PAGE_SIZE) : ElfDone(i, o)' => ElfDone(i, o)
    PROVE  ImageInv'
<1>1. pt' = pt /\ data' = data /\ elf_end' = elf_end /\ elf' = elf /\ tree' = tree
  BY DEF inputs
<1> SUFFICES ASSUME DtbPlaced, ElfPlaced PROVE DtbPlaced' /\ ElfPlaced'
  BY <1>1 DEF ImageInv, Apart
<1>2. DtbPlaced'
  BY <1>1 DEF DtbPlaced, DtbDone, DtbPage
<1>3. ElfPlaced'
  <2> SUFFICES ASSUME NEW i \in 1..Len(elf), NEW o \in Turns(elf[i].filesz, PAGE_SIZE), ElfDone(i, o)
               PROVE  /\ ElfPage(i, o) \in GuestPages
                      /\ Contents(pt, data, ElfPage(i, o), <<"elf", elf[i].offset + o>>)
                      /\ step' \in {"elf", "fill"} => SegmentGpa(i, o) + PAGE_SIZE <= elf_end
    BY <1>1 DEF ElfPlaced, ElfPage, SegmentGpa
  <2>1. QED
    BY DEF ElfPlaced
<1>4. QED
  BY <1>2, <1>3

LEMMA ImageNextSegment == IInv /\ ImageInv /\ next_segment => ImageInv'
<1> SUFFICES ASSUME IInv, ImageInv, next_segment PROVE ImageInv'
  OBVIOUS
<1>1. /\ step = "elf" /\ step' = step /\ idx <= Len(elf) /\ idx' = idx + 1 /\ off' = 0
      /\ \/ elf[idx].filesz = 0
         \/ elf[idx].align >= PAGE_SIZE /\ off >= RoundUp(elf[idx].filesz, elf[idx].align)
      /\ UNCHANGED <<pt, data, elf_end, inputs>>
  BY DEF next_segment, Segment
<1>2. idx \in Nat \ {0} /\ off \in Nat /\ elf \in Elfs /\ Len(elf) \in Nat
  BY DeviceMapTyped DEF IInv, Scalars
<1>3. ASSUME NEW i \in 1..Len(elf), NEW o \in Turns(elf[i].filesz, PAGE_SIZE), ElfDone(i, o)'
      PROVE  ElfDone(i, o)
  <2>1. elf[i].filesz \in Nat /\ elf[i].align \in Nat /\ PAGE_SIZE \in Nat \ {0}
    BY <1>2, SegmentFacts, Sizes
  <2>2. o \in Nat /\ o < elf[i].filesz
    BY <2>1, TurnFacts
  <2>3. i <= idx
    BY <1>1, <1>2, <1>3, <2>2 DEF ElfDone
  <2>4. CASE i < idx
    BY <1>1, <2>4 DEF ElfDone
  <2>5. CASE i = idx
    <3>1. elf[i].align >= PAGE_SIZE /\ off >= RoundUp(elf[i].filesz, elf[i].align)
      BY <1>1, <2>2, <2>1, <2>5
    <3>2. elf[i].align \in Nat \ {0}
      BY <2>1, <3>1
    <3>3. RoundUp(elf[i].filesz, elf[i].align) \in Nat
          /\ elf[i].filesz <= RoundUp(elf[i].filesz, elf[i].align)
      BY <2>1, <3>2, RoundUpFacts, Zenon
    <3>4. o < off
      BY <1>2, <2>1, <2>2, <3>1, <3>3
    <3>5. QED
      BY <1>1, <2>5, <3>4 DEF ElfDone
  <2>6. QED
    BY <1>2, <2>3, <2>4, <2>5
<1>4. QED
  BY <1>1, <1>3, ImageKept

LEMMA ImageElfLoaded == IInv /\ ImageInv /\ elf_loaded => ImageInv'
<1> SUFFICES ASSUME IInv, ImageInv, elf_loaded PROVE ImageInv'
  OBVIOUS
<1>1. step = "elf" /\ step' = "fill" /\ idx > Len(elf) /\ UNCHANGED <<pt, data, elf_end, inputs>>
  BY DEF elf_loaded
<1>2. idx \in Nat /\ Len(elf) \in Nat
  BY DeviceMapTyped DEF IInv, Scalars
<1>3. \A i \in 1..Len(elf) : \A o : ElfDone(i, o)
  BY <1>1, <1>2 DEF ElfDone
<1>4. QED
  BY <1>1, <1>3, ImageKept

LEMMA ImageFill == IInv /\ ImageInv /\ filling_memory_region => ImageInv'
<1> SUFFICES ASSUME IInv, ImageInv, filling_memory_region, Apart' PROVE DtbPlaced' /\ ElfPlaced'
  BY DEF ImageInv
<1>1. /\ PageAdded(off, <<"any", 0>>) /\ step = "fill"
      /\ off \in Nat /\ off >= elf_end /\ elf_end >= guest_memory_begin /\ elf_end \in Nat
      /\ elf' = elf /\ tree' = tree /\ elf_end' = elf_end
  BY FillAdded DEF inputs
<1>2. DtbPlaced /\ ElfPlaced /\ step' \in {step, "panic"} /\ elf \in Elfs
      /\ PAGE_SIZE \in Nat \ {0} /\ guest_memory_begin \in Nat
  BY <1>1, Sizes, GuestMemory DEF ImageInv, Apart, PageAdded, IInv, Scalars
<1>3. CASE step' = "panic"
  BY <1>3 DEF DtbPlaced, ElfPlaced, DtbDone, ElfDone
<1>4. CASE step' = step
  <2>1. DtbPlaced'
    <3>1. guest_memory_begin <= off
      BY <1>1, <1>2
    <3>2. QED
      BY <1>1, <1>2, <1>4, <3>1, DtbKept
  <2>2. ASSUME NEW i \in 1..Len(elf), NEW o \in Turns(elf[i].filesz, PAGE_SIZE)
        PROVE  /\ ElfPage(i, o) \in GuestPages
               /\ Contents(pt', data', ElfPage(i, o), <<"elf", elf[i].offset + o>>)
               /\ SegmentGpa(i, o) + PAGE_SIZE <= elf_end
    <3>1. elf[i].filesz \in Nat /\ elf[i].paddr \in Nat
      BY <1>2, SegmentFacts
    <3>2. o \in Nat
      BY <3>1, TurnFacts
    <3>3. SegmentGpa(i, o) \in Nat
      BY <1>2, <3>1, <3>2 DEF SegmentGpa
    <3>4. /\ ElfPage(i, o) \in GuestPages
          /\ Contents(pt, data, ElfPage(i, o), <<"elf", elf[i].offset + o>>)
          /\ SegmentGpa(i, o) + PAGE_SIZE <= elf_end
      BY <1>1, <1>2 DEF ElfPlaced, ElfDone
    <3>5. SegmentGpa(i, o) + PAGE_SIZE <= off
      BY <1>1, <1>2, <3>3, <3>4
    <3>6. ElfPage(i, o) # off \div PAGE_SIZE
      BY <1>1, <3>3, <3>5, PagesApart DEF ElfPage
    <3>7. QED
      BY <1>1, <1>4, <3>4, <3>6 DEF PageAdded
  <2>3. ElfPlaced'
    BY <1>1, <2>2 DEF ElfPlaced, ElfPage, SegmentGpa
  <2>4. QED
    BY <2>1, <2>3
<1>5. QED
  BY <1>2, <1>3, <1>4

LEMMA ImageFilled == IInv /\ ImageInv /\ memory_filled => ImageInv'
<1> SUFFICES ASSUME IInv, ImageInv, memory_filled PROVE ImageInv'
  OBVIOUS
<1>1. step = "fill" /\ step' = "devices" /\ UNCHANGED <<pt, data, elf_end, inputs>>
  BY DEF memory_filled
<1>2. \A i, o : ElfDone(i, o)
  BY <1>1 DEF ElfDone
<1>3. QED
  BY <1>1, <1>2, ImageKept

LEMMA ImageDevice == IInv /\ ImageInv /\ device_mapping_g_stage => ImageInv'
<1> SUFFICES ASSUME IInv, ImageInv, device_mapping_g_stage, Apart' PROVE DtbPlaced' /\ ElfPlaced'
  BY DEF ImageInv
<1>1. PICK w : /\ BlockPlaced(pt, data, tree, idx, off, w) /\ pt' = w.pt
               /\ step' = (IF w.end = "ok" THEN step ELSE w.end)
               /\ step = "devices" /\ idx \in 1..Len(create_device_map(tree))
               /\ UNCHANGED <<idx, elf_end, data, inputs>>
  BY DeviceAdded
<1>2. tree' = tree /\ elf' = elf /\ data' = data
  BY <1>1 DEF inputs
<1>3. DtbPlaced /\ ElfPlaced /\ DevicesApart(tree)
  BY <1>2 DEF ImageInv, Apart
<1>4. PICK n \in 0..Len(create_device_map(tree)) : MapInv(pt, data, tree, n)
  BY DEF IInv, Maps
<1>5. ASSUME NEW g \in GuestPages, NEW y, Contents(pt, data, g, y)
      PROVE  Contents(pt', data', g, y)
  <2>1. g \in OwnPages
    BY <1>4, <1>5 DEF Contents, MapInv
  <2>2. g \notin DeviceBlocks(tree, idx)
    BY <1>1, <1>3, <2>1 DEF DevicesApart
  <2>3. QED
    BY <1>1, <1>2, <1>5, <2>2 DEF BlockPlaced
<1>6. DtbPlaced'
  <2>1. ASSUME NEW o \in Turns(aligned_dtb_size, PAGE_SIZE)
        PROVE  Contents(pt', data', DtbPage(o), <<"dtb", o>>)
    <3>1. Contents(pt, data, DtbPage(o), <<"dtb", o>>)
      BY <1>1, <1>3 DEF DtbPlaced, DtbDone
    <3>2. QED
      BY <1>5, <3>1, DtbTurn
  <2>2. QED
    BY <2>1 DEF DtbPlaced, DtbPage
<1>7. ElfPlaced'
  <2>1. ASSUME NEW i \in 1..Len(elf), NEW o \in Turns(elf[i].filesz, PAGE_SIZE)
        PROVE  /\ ElfPage(i, o) \in GuestPages
               /\ Contents(pt', data', ElfPage(i, o), <<"elf", elf[i].offset + o>>)
    <3>1. /\ ElfPage(i, o) \in GuestPages
          /\ Contents(pt, data, ElfPage(i, o), <<"elf", elf[i].offset + o>>)
      BY <1>1, <1>3 DEF ElfPlaced, ElfDone
    <3>2. QED
      BY <1>5, <3>1
  <2>2. step' \notin {"elf", "fill"}
    BY <1>1 DEF BlockPlaced
  <2>3. QED
    BY <1>2, <2>1, <2>2 DEF ElfPlaced, ElfPage, SegmentGpa
<1>8. QED
  BY <1>6, <1>7

LEMMA ImageDevices == IInv /\ ImageInv /\ (next_device \/ devices_mapped) => ImageInv'
<1> SUFFICES ASSUME IInv, ImageInv, next_device \/ devices_mapped PROVE ImageInv'
  OBVIOUS
<1>1. step = "devices" /\ step' \in {"devices", "guest"} /\ UNCHANGED <<pt, data, elf_end, inputs>>
  BY DEF next_device, devices_mapped
<1>2. \A i, o : ElfDone(i, o)
  BY <1>1 DEF ElfDone
<1>3. QED
  BY <1>1, <1>2, ImageKept

LEMMA ImageInit == Init => ImageInv
<1> SUFFICES ASSUME Init PROVE DtbPlaced /\ ElfPlaced
  BY DEF ImageInv
<1>1. step = "dtb" /\ off = 0
  BY DEF Init
<1>2. \A o \in Turns(aligned_dtb_size, PAGE_SIZE) : ~DtbDone(o)
  BY <1>1, DtbTurn DEF DtbDone
<1>3. QED
  BY <1>1, <1>2 DEF DtbPlaced, ElfPlaced, ElfDone

LEMMA ImageStutter == ImageInv /\ UNCHANGED vars => ImageInv'
<1> SUFFICES ASSUME ImageInv, UNCHANGED vars PROVE ImageInv'
  OBVIOUS
<1>1. step' = step /\ idx' = idx /\ off' = off /\ elf_end' = elf_end /\ pt' = pt
      /\ data' = data /\ elf' = elf /\ tree' = tree
  BY DEF vars
<1>2. QED
  BY <1>1 DEF ImageInv, Apart, DtbPlaced, ElfPlaced, DtbDone, ElfDone, DtbPage, ElfPage, SegmentGpa

\* Contents are what the guest's own walk finds.
LEMMA ContentsReached ==
    ASSUME IInv, NEW g \in GuestPages, NEW x, Contents(pt, data, g, x)
    PROVE  hw_walk(pt, g) \in DOMAIN data /\ data[hw_walk(pt, g)] = x
<1> DEFINE h == Mapping(pt, g).entry.ppn
<1>1. h \in DOMAIN data /\ data[h] = x /\ Mapping(pt, g).level = 0
  BY DEF Contents, Backed
<1>2. h \in Nat /\ g \in Nat
  BY <1>1, DataPages, Sizes DEF IInv, Memory
<1>3. Target(Mapping(pt, g), g) = h
  BY <1>1, <1>2, Sizes DEF Target
<1>4. hw_walk(pt, g) = h
  BY <1>3, WalkFacts DEF IInv, Memory, MemInv
<1>5. QED
  BY <1>1, <1>4

\* When the guest starts, every page of its image and of its device tree is
\* mapped to a page that holds those bytes, provided that no device covers them
\* and no segment covers one before it: load_guest_elf and
\* device_mapping_g_stage replace whatever was mapped.
THEOREM ImageStaysLoaded == Spec => [](Apart => ImageLoaded)
<1>1. Init => ImageInv
  BY ImageInit
<1>2. IInv /\ ImageInv /\ [Next]_vars => ImageInv'
  BY ImageDtb, ImageCreated, ImageElf, ImagePanic, ImageNextSegment, ImageElfLoaded,
     ImageFill, ImageFilled, ImageDevice, ImageDevices, ImageStutter DEF Next
<1>3. IInv /\ ImageInv => (Apart => ImageLoaded)
  <2> SUFFICES ASSUME IInv, ImageInv, Apart, step = "guest"
               PROVE  /\ \A i \in 1..Len(elf) : \A o \in Turns(elf[i].filesz, PAGE_SIZE) :
                            /\ hw_walk(pt, ElfPage(i, o)) \in DOMAIN data
                            /\ data[hw_walk(pt, ElfPage(i, o))] = <<"elf", elf[i].offset + o>>
                      /\ \A o \in Turns(aligned_dtb_size, PAGE_SIZE) :
                            /\ hw_walk(pt, DtbPage(o)) \in DOMAIN data
                            /\ data[hw_walk(pt, DtbPage(o))] = <<"dtb", o>>
    BY DEF ImageLoaded, ElfPage, DtbPage, SegmentGpa
  <2>1. DtbPlaced /\ ElfPlaced
    BY DEF ImageInv
  <2>2. \A o \in Turns(aligned_dtb_size, PAGE_SIZE) :
           DtbPage(o) \in GuestPages /\ Contents(pt, data, DtbPage(o), <<"dtb", o>>)
    BY <2>1, DtbTurn DEF DtbPlaced, DtbDone
  <2>3. \A i \in 1..Len(elf) : \A o \in Turns(elf[i].filesz, PAGE_SIZE) :
           ElfPage(i, o) \in GuestPages
           /\ Contents(pt, data, ElfPage(i, o), <<"elf", elf[i].offset + o>>)
    BY <2>1 DEF ElfPlaced, ElfDone
  <2>4. QED
    BY <2>2, <2>3, ContentsReached
<1>4. QED
  BY <1>1, <1>2, <1>3, GStageIInvariant, PTL DEF Spec
=============================================================================
