----------------------------- MODULE MCZicfiss -----------------------------
(* Pages of 2 words and tables of 2 entries; two threads whose stacks lie  *)
(* under different tables of the last level, each across two pages.        *)
EXTENDS ZicfissGuest, TLC

MCThread == {"a", "b"}
MCBase == [t \in MCThread |-> IF t = "a" THEN 4 ELSE 8]
MCSize == [t \in MCThread |-> IF t = "a" THEN 3 ELSE 1]
MCFrames == 2..5
MCSwapEntry == PageTableEntry(1, {})

Pointer(t) == PageTableEntry(t, {"V"})
ShadowStackPage(f) == PageTableEntry(f, {"V", "W", "U"})
Table(e0, e1) == [i \in 0..1 |-> IF i = 0 THEN e0 ELSE e1]

\* The upper tables lead from the root 10 to 13, which points to the table
\* of thread a and holds the entry b for the pages of thread b.
MCTables == 10..13 \cup {20, 21}
Below(mode) == CASE mode = "Sv39" -> (10 :> 13)
                 [] mode = "Sv48" -> (10 :> 11) @@ (11 :> 13)
                 [] mode = "Sv57" -> (10 :> 11) @@ (11 :> 12) @@ (12 :> 13)

Layout(b) ==
    [mode \in {"Sv39", "Sv48", "Sv57"} |->
        [t \in MCTables \cup MCFrames \cup {0} |->
            CASE t \in DOMAIN Below(mode) -> Table(Pointer(Below(mode)[t]), Null)
              [] t = 13 -> Table(Pointer(20), b)
              [] t = 20 -> Table(ShadowStackPage(2), ShadowStackPage(3))
              [] t = 21 -> Table(ShadowStackPage(4), ShadowStackPage(5))
              [] OTHER -> Table(Null, Null)]]

\* Thread b's pages in a table, in a superpage, and under no table at all.
MCLayouts == {Layout(Pointer(21)), Layout(ShadowStackPage(4)), Layout(Null)}
PagesOnly == {Layout(Pointer(21))}
MCUsers == {{"a"}, {"a", "b"}}
AllUsers == {MCThread}
=============================================================================
