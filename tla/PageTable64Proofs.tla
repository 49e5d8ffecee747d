--------------------------- MODULE PageTable64Proofs ---------------------------
(* Theorems about PageTable64, for every width of the tables and every set of   *)
(* pages.                                                                       *)
EXTENDS PageTable64, TLAPS, SequenceTheorems, WellFoundedInduction

-----------------------------------------------------------------------------
(* Page numbers and entries *)

\* The spans of the five levels.
LEMMA SpanFacts ==
  /\ WIDTH \in Nat \ {0, 1}
  /\ Span[5] = 1 /\ Span[4] = WIDTH /\ Span[3] = WIDTH * WIDTH
  /\ Span[2] = WIDTH * WIDTH * WIDTH /\ Span[1] = WIDTH * WIDTH * WIDTH * WIDTH
  /\ \A l \in Level : Span[l] \in Nat \ {0}
<1>1. WIDTH \in Nat \ {0, 1}
  BY TableAssumption
<1>2. /\ Span[5] = 1 /\ Span[4] = WIDTH /\ Span[3] = WIDTH * WIDTH
      /\ Span[2] = WIDTH * WIDTH * WIDTH /\ Span[1] = WIDTH * WIDTH * WIDTH * WIDTH
  BY DEF Span
<1>3. \A m, n \in Nat \ {0} : m * n \in Nat \ {0}
  OBVIOUS
<1>4. \A l \in Level : l \in {1, 2, 3, 4, 5}
  BY DEF Level, LEVELS
<1>5. QED
  BY <1>1, <1>2, <1>3, <1>4

\* A number is determined by its quotient and its last digit.
LEMMA SameQuotient ==
  ASSUME NEW W \in Nat \ {0}, NEW a \in Nat, NEW b \in Nat,
         a \div W = b \div W, a % W = b % W
  PROVE  a = b
OBVIOUS

\* To divide by a product is to divide twice.
LEMMA DivideTwice ==
  ASSUME NEW W \in Nat \ {0}, NEW P \in Nat \ {0}, NEW a \in Nat
  PROVE  (a \div P) \div W = a \div (P * W)
<1>1. PICK q : q = a \div P
  OBVIOUS
<1>2. PICK r : r = q \div W
  OBVIOUS
<1>3. q \in Nat /\ P * q <= a /\ a < P * q + P
  BY <1>1
<1>4. r \in Nat /\ W * r <= q /\ q < W * r + W
  BY <1>2, <1>3
<1>5. (P * W) * r <= a /\ a < (P * W) * r + P * W
  BY <1>3, <1>4
<1>6. P * W \in Nat \ {0}
  OBVIOUS
<1>7. PICK m : m = P * W
  OBVIOUS
<1>8. a \div m = r
  BY <1>4, <1>5, <1>6, <1>7
<1>9. QED
  BY <1>1, <1>2, <1>7, <1>8

\* Every digit is the index of an entry.
LEMMA DigitIndex ==
  ASSUME NEW g \in Nat, NEW l \in Level
  PROVE  Digit(g, l) \in Index
<1>1. g \div Span[l] \in Nat
  BY SpanFacts
<1>2. \A n \in Nat : n % WIDTH \in 0 .. (WIDTH - 1)
  BY SpanFacts
<1>3. QED
  BY <1>1, <1>2 DEF Digit, Index

\* The digits determine the page.
LEMMA DigitsApart ==
  ASSUME NEW g1 \in PageNumber, NEW g2 \in PageNumber,
         \A l \in Level : Digit(g1, l) = Digit(g2, l)
  PROVE  g1 = g2
<1> DEFINE Q(g, l) == g \div Span[l]
<1>1. g1 \in Nat /\ g2 \in Nat
  BY DEF PageNumber
<1>2. \A l \in Level : Q(g1, l) \in Nat /\ Q(g2, l) \in Nat
  BY <1>1, SpanFacts
<1>3. \A l \in 2 .. LEVELS, g \in Nat : Q(g, l) \div WIDTH = Q(g, l - 1)
  <2>1. ASSUME NEW l \in 2 .. LEVELS PROVE Span[l - 1] = Span[l] * WIDTH
    <3>1. l \in {2, 3, 4, 5}
      BY DEF LEVELS
    <3>2. QED
      BY <3>1, SpanFacts
  <2>2. \A l \in 2 .. LEVELS : Span[l] \in Nat \ {0}
    BY SpanFacts DEF Level
  <2>3. ASSUME NEW l \in 2 .. LEVELS, NEW g \in Nat
        PROVE  (g \div Span[l]) \div WIDTH = g \div Span[l - 1]
    <3>1. PICK s \in Nat \ {0} : s = Span[l]
      BY <2>2
    <3>2. (g \div s) \div WIDTH = g \div (s * WIDTH)
      BY DivideTwice, SpanFacts
    <3>3. QED
      BY <2>1, <3>1, <3>2
  <2>4. QED
    BY <2>3
<1>4. \A l \in Level : Q(g1, l) % WIDTH = Q(g2, l) % WIDTH
  BY DEF Digit
<1>5. Q(g1, 1) = Q(g2, 1)
  <2>1. PICK s : s = Span[1]
    OBVIOUS
  <2>2. s \in Nat \ {0}
    BY <2>1, SpanFacts DEF Level, LEVELS
  <2>3. ASSUME NEW g \in PageNumber PROVE (g \div s) \div WIDTH = 0
    <3>1. g \in Nat /\ g < WIDTH * s
      BY <2>1, <2>2, SpanFacts DEF PageNumber
    <3>2. PICK m : m = s * WIDTH
      OBVIOUS
    <3>3. m \in Nat \ {0} /\ g < m
      BY <2>2, <3>1, <3>2, SpanFacts
    <3>4. g \div m = 0
      BY <3>1, <3>3
    <3>5. (g \div s) \div WIDTH = g \div (s * WIDTH)
      BY <2>2, <3>1, DivideTwice, SpanFacts
    <3>6. QED
      BY <3>2, <3>4, <3>5
  <2>4. 1 \in Level
    BY DEF Level, LEVELS
  <2>5. /\ Q(g1, 1) \div WIDTH = 0 /\ Q(g2, 1) \div WIDTH = 0
        /\ Q(g1, 1) % WIDTH = Q(g2, 1) % WIDTH
        /\ Q(g1, 1) \in Nat /\ Q(g2, 1) \in Nat
    BY <1>2, <1>4, <2>1, <2>3, <2>4
  <2> HIDE DEF Q
  <2>6. QED
    BY <2>5, SameQuotient, SpanFacts
<1>6. \A l \in 2 .. LEVELS : Q(g1, l - 1) = Q(g2, l - 1) => Q(g1, l) = Q(g2, l)
  <2> SUFFICES ASSUME NEW l \in 2 .. LEVELS, Q(g1, l - 1) = Q(g2, l - 1)
               PROVE  Q(g1, l) = Q(g2, l)
    OBVIOUS
  <2>1. l \in Level
    BY DEF Level
  <2>2. /\ Q(g1, l) \div WIDTH = Q(g2, l) \div WIDTH
        /\ Q(g1, l) % WIDTH = Q(g2, l) % WIDTH
        /\ Q(g1, l) \in Nat /\ Q(g2, l) \in Nat
    BY <1>1, <1>2, <1>3, <1>4, <2>1
  <2> HIDE DEF Q
  <2>3. QED
    BY <2>2, SameQuotient, SpanFacts
<1> HIDE DEF Q
<1>7. Q(g1, 5) = Q(g2, 5)
  <2>1. Q(g1, 2) = Q(g2, 2)
    BY <1>5, <1>6 DEF LEVELS
  <2>2. Q(g1, 3) = Q(g2, 3)
    BY <1>6, <2>1 DEF LEVELS
  <2>3. Q(g1, 4) = Q(g2, 4)
    BY <1>6, <2>2 DEF LEVELS
  <2>4. QED
    BY <1>6, <2>3 DEF LEVELS
<1>8. Q(g1, 5) = g1 /\ Q(g2, 5) = g2
  BY <1>1, SpanFacts DEF Q
<1>9. QED
  BY <1>7, <1>8

\* What a multiple and a digit add up to has the digit.
LEMMA LastDigit ==
  ASSUME NEW W \in Nat \ {0}, NEW q \in Nat, NEW r \in 0 .. (W - 1)
  PROVE  (W * q + r) % W = r
OBVIOUS

\* A number without its last digit is a multiple.
LEMMA Whole ==
  ASSUME NEW W \in Nat \ {0}, NEW a \in Nat
  PROVE  \E q \in Nat : a - (a % W) = W * q
<1>1. PICK q : q = a \div W
  OBVIOUS
<1>2. q \in Nat /\ W * q <= a /\ a < W * q + W
  BY <1>1
<1>3. PICK p : p = W * q
  OBVIOUS
<1>4. p \in Nat /\ p <= a /\ a < p + W
  BY <1>2, <1>3
<1>5. PICK r \in 0 .. (W - 1) : a = p + r
  <2>1. a - p \in 0 .. (W - 1) /\ a = p + (a - p)
    BY <1>4
  <2>2. QED
    BY <2>1
<1>6. a % W = r
  BY <1>2, <1>3, <1>5, LastDigit
<1>7. a - (a % W) = p
  BY <1>4, <1>5, <1>6
<1>8. QED
  BY <1>2, <1>3, <1>7

\* The setters make entries of the type.
LEMMA EntriesTyped ==
  /\ NoPte \in PteType(Lows)
  /\ \A e \in PteType(Lows) :
       /\ \A fpn \in Fpn : pte_set_fpn(e, fpn) \in PteType(Lows)
       /\ \A off \in Swpoff : pte_set_swap(e, off) \in PteType(Lows)
       /\ [e EXCEPT !.dirty = TRUE] \in PteType(Lows)
<1> DEFINE offs == {0} \cup {off * SWPSTRIDE : off \in Swpoff}
<1>1. FPNS \in Nat \ {0} /\ SWPSTRIDE \in Nat \ {0}
  BY PteAssumption
<1>2. Lows = offs \cup {off - (off % FPNS) + f : off \in offs, f \in Fpn}
  BY DEF Lows
<1>3. \A off \in offs : off \in Nat
  BY <1>1, TableAssumption
<1> HIDE DEF offs
<1>4. \A f \in Fpn : f \in 0 .. (FPNS - 1)
  BY TableAssumption
<1>5. \A low \in Lows : \E off \in offs : low - (low % FPNS) = off - (off % FPNS)
  <2>1. ASSUME NEW off \in offs, NEW f \in Fpn
        PROVE  LET low == off - (off % FPNS) + f IN low - (low % FPNS) = off - (off % FPNS)
    <3>1. PICK b : b = off - (off % FPNS)
      OBVIOUS
    <3>2. PICK q \in Nat : b = FPNS * q
      BY <1>1, <1>3, <3>1, Whole
    <3>3. b \in Nat
      BY <1>1, <3>2
    <3>4. (FPNS * q + f) % FPNS = f
      BY <1>1, <1>4, LastDigit
    <3>5. (b + f) % FPNS = f
      BY <3>2, <3>4
    <3>6. QED
      BY <1>4, <3>1, <3>3, <3>5
  <2>2. QED
    BY <1>2, <2>1
<1>6. ASSUME NEW low \in Lows, NEW f \in Fpn
      PROVE  (low - (low % FPNS)) + (f % FPNS) \in Lows
  <2>1. PICK off \in offs : low - (low % FPNS) = off - (off % FPNS)
    BY <1>5
  <2>2. f % FPNS = f
    BY <1>1, <1>4
  <2>3. QED
    BY <1>2, <2>1, <2>2
<1>7. \A off \in Swpoff : off * SWPSTRIDE \in Lows
  BY <1>2 DEF offs
<1>8. 0 \in Lows
  BY <1>2 DEF offs
<1>9. NoPte \in PteType(Lows)
  BY <1>8 DEF NoPte, PteType
<1>10. ASSUME NEW e \in PteType(Lows)
       PROVE  /\ \A fpn \in Fpn : pte_set_fpn(e, fpn) \in PteType(Lows)
              /\ \A off \in Swpoff : pte_set_swap(e, off) \in PteType(Lows)
              /\ [e EXCEPT !.dirty = TRUE] \in PteType(Lows)
  <2>1. e.low \in Lows
    BY DEF PteType
  <2>2. ASSUME NEW fpn \in Fpn PROVE pte_set_fpn(e, fpn) \in PteType(Lows)
    <3>1. PICK low \in Lows : low = (e.low - (e.low % FPNS)) + (fpn % FPNS)
      BY <1>6, <2>1
    <3>2. pte_set_fpn(e, fpn) =
            [e EXCEPT !.present = TRUE, !.swapped = FALSE, !.low = low]
      BY <3>1 DEF pte_set_fpn
    <3>3. QED
      BY <3>2 DEF PteType
  <2>3. ASSUME NEW off \in Swpoff PROVE pte_set_swap(e, off) \in PteType(Lows)
    <3>1. off % SWPOFFS = off
      <4>1. ASSUME NEW n \in Nat, NEW m \in Nat, n < m PROVE n % m = n
        BY <4>1
      <4>2. SWPOFFS \in Nat /\ off \in Nat /\ off < SWPOFFS
        BY TableAssumption, PteAssumption
      <4>3. QED
        BY <4>1, <4>2
    <3>2. pte_set_swap(e, off) =
            [e EXCEPT !.present = TRUE, !.swapped = TRUE, !.low = off * SWPSTRIDE]
      BY <3>1 DEF pte_set_swap
    <3>3. QED
      BY <1>7, <3>2 DEF PteType
  <2>4. [e EXCEPT !.dirty = TRUE] \in PteType(Lows)
    BY DEF PteType
  <2>5. QED
    BY <2>2, <2>3, <2>4
<1>11. QED
  BY <1>9, <1>10

-----------------------------------------------------------------------------
(* The tree of tables *)

\* The levels of the tables of h: the root has level 1, what a table leads to the
\* next one, and the last one holds entries.  No two links lead to one table,
\* and to every table but the root leads one.
Leads(h, lev) ==
  \A t \in 1 .. Len(h) : lev[t] < LEVELS =>
    /\ h[t] \in [Index -> 0 .. Len(h)]
    /\ \A i \in Index : h[t][i] # NULL => lev[h[t][i]] = lev[t] + 1
Holds(h, lev) ==
  \A t \in 1 .. Len(h) : lev[t] = LEVELS => h[t] \in [Index -> PteType(Lows)]
LinkedOnce(h, lev) ==
  \A t, u \in 1 .. Len(h), i, j \in Index :
    (lev[t] < LEVELS /\ lev[u] < LEVELS /\ h[t][i] # NULL /\ h[t][i] = h[u][j]) =>
      t = u /\ i = j
Reached(h, lev) ==
  \A u \in 2 .. Len(h) : \E t \in 1 .. Len(h), i \in Index :
    lev[t] < LEVELS /\ h[t][i] = u

Tables == [Index -> Nat] \cup [Index -> PteType(Lows)]

Levels(h, lev) ==
  /\ h \in Seq(Tables) /\ Len(h) \in Nat \ {0}
  /\ lev \in [1 .. Len(h) -> Level] /\ lev[1] = 1
  /\ Leads(h, lev) /\ Holds(h, lev) /\ LinkedOnce(h, lev) /\ Reached(h, lev)
Tree(h) == \E lev : Levels(h, lev)

\* What every call keeps of the tables.
Extends(h, lev, h2, lev2) ==
  /\ Len(h) <= Len(h2)
  /\ \A t \in 1 .. Len(h) :
       /\ lev2[t] = lev[t]
       /\ lev[t] = LEVELS => h2[t] = h[t]
       /\ lev[t] < LEVELS => \A i \in Index : h[t][i] # NULL => h2[t][i] = h[t][i]
  /\ \A t \in (Len(h) + 1) .. Len(h2) : lev2[t] = LEVELS => h2[t] = Table(LEVELS)

\* The way to a page, step by step.
LEMMA WalkSteps ==
  ASSUME NEW h, NEW lev, Levels(h, lev), NEW g \in Nat
  PROVE  /\ Walk(h, g)[1] = 1
         /\ \A l \in Level : Walk(h, g)[l] \in 0 .. Len(h)
         /\ \A l \in Level : Walk(h, g)[l] # NULL => lev[Walk(h, g)[l]] = l
         /\ \A l \in 1 .. 4 : Walk(h, g)[l + 1] = Entry(h, Walk(h, g)[l], Digit(g, l))
<1> DEFINE w == Walk(h, g)
<1>1. /\ Len(h) \in Nat \ {0} /\ lev \in [1 .. Len(h) -> Level] /\ lev[1] = 1
  BY DEF Levels
<1>2. w[1] = 1
  <2>1. h # <<>>
    BY <1>1
  <2>2. QED
    BY <2>1 DEF Walk, Root
<1>3. /\ w[2] = Entry(h, w[1], Digit(g, 1)) /\ w[3] = Entry(h, w[2], Digit(g, 2))
      /\ w[4] = Entry(h, w[3], Digit(g, 3)) /\ w[5] = Entry(h, w[4], Digit(g, 4))
  BY DEF Walk
<1> HIDE DEF w
<1>4. ASSUME NEW l \in 1 .. 4, NEW t \in 0 .. Len(h), t # NULL => lev[t] = l,
             NEW u, u = Entry(h, t, Digit(g, l))
      PROVE  u \in 0 .. Len(h) /\ (u # NULL => lev[u] = l + 1)
  <2>1. CASE t = NULL
    BY <1>1, <1>4, <2>1 DEF Entry, NULL
  <2>2. CASE t # NULL
    <3>1. l \in Level /\ l < LEVELS
      BY DEF Level, LEVELS
    <3>2. Digit(g, l) \in Index
      BY <3>1, DigitIndex
    <3>3. t \in 1 .. Len(h) /\ lev[t] < LEVELS
      BY <1>1, <1>4, <2>2, <3>1 DEF NULL
    <3>4. u = h[t][Digit(g, l)]
      BY <1>4, <2>2 DEF Entry
    <3>5. h[t] \in [Index -> 0 .. Len(h)]
      BY <3>3 DEF Levels, Leads
    <3>6. \A i \in Index : h[t][i] # NULL => lev[h[t][i]] = lev[t] + 1
      BY <3>3 DEF Levels, Leads
    <3>7. QED
      BY <1>4, <2>2, <3>2, <3>4, <3>5, <3>6
  <2>3. QED
    BY <2>1, <2>2
<1>5. w[1] \in 0 .. Len(h) /\ (w[1] # NULL => lev[w[1]] = 1)
  BY <1>1, <1>2
<1>6. w[2] \in 0 .. Len(h) /\ (w[2] # NULL => lev[w[2]] = 2)
  BY <1>3, <1>4, <1>5
<1>7. w[3] \in 0 .. Len(h) /\ (w[3] # NULL => lev[w[3]] = 3)
  BY <1>3, <1>4, <1>6
<1>8. w[4] \in 0 .. Len(h) /\ (w[4] # NULL => lev[w[4]] = 4)
  BY <1>3, <1>4, <1>7
<1>9. w[5] \in 0 .. Len(h) /\ (w[5] # NULL => lev[w[5]] = 5)
  BY <1>3, <1>4, <1>8
<1>10. \A l \in Level : l \in {1, 2, 3, 4, 5}
  BY DEF Level, LEVELS
<1>11. \A l \in 1 .. 4 : w[l + 1] = Entry(h, w[l], Digit(g, l))
  <2>1. ASSUME NEW l \in 1 .. 4 PROVE w[l + 1] = Entry(h, w[l], Digit(g, l))
    <3>1. l = 1 \/ l = 2 \/ l = 3 \/ l = 4
      OBVIOUS
    <3>2. QED
      BY <1>3, <3>1
  <2>2. QED
    BY <2>1
<1>12. QED
  BY <1>2, <1>5, <1>6, <1>7, <1>8, <1>9, <1>10, <1>11 DEF w

OnTheWay(h, lev, g, l) ==
  /\ Walk(h, g)[l] \in 1 .. Len(h) /\ lev[Walk(h, g)[l]] = l /\ l < LEVELS
  /\ Digit(g, l) \in Index
  /\ Walk(h, g)[l + 1] = h[Walk(h, g)[l]][Digit(g, l)]

\* Where the way goes on, the table has the next one as its entry.
LEMMA WayOn ==
  ASSUME NEW h, NEW lev, Levels(h, lev), NEW g \in Nat, NEW l \in 1 .. 4,
         Walk(h, g)[l + 1] # NULL
  PROVE  OnTheWay(h, lev, g, l)
<1>1. l \in Level /\ l < LEVELS
  BY DEF Level, LEVELS
<1>2. /\ Walk(h, g)[l] \in 0 .. Len(h)
      /\ Walk(h, g)[l] # NULL => lev[Walk(h, g)[l]] = l
      /\ Walk(h, g)[l + 1] = Entry(h, Walk(h, g)[l], Digit(g, l))
  BY <1>1, WalkSteps
<1>3. Digit(g, l) \in Index
  BY <1>1, DigitIndex
<1>4. Walk(h, g)[l] # NULL
  BY <1>2 DEF Entry
<1>5. Len(h) \in Nat
  BY DEF Levels
<1>6. QED
  BY <1>1, <1>2, <1>3, <1>4, <1>5 DEF Entry, NULL, OnTheWay

Behind(h, h2, t, i, l) ==
  /\ h2 \in Seq(Tables) /\ Len(h2) = Len(h) + 1
  /\ h2[Len(h) + 1] = Table(l)
  /\ h2[t] = [h[t] EXCEPT ![i] = Len(h) + 1]
  /\ \A u \in (1 .. Len(h)) \ {t} : h2[u] = h[u]

\* What an allocation makes of the entries: the new table is empty, and behind
\* the entry that was empty.
LEMMA AllocEntries ==
  ASSUME NEW h, NEW lev, Levels(h, lev), NEW t \in 1 .. Len(h), NEW i \in Index,
         NEW l \in 2 .. LEVELS, lev[t] + 1 = l, h[t][i] = NULL
  PROVE  Behind(h, Alloc(h, t, i, l), t, i, l)
<1> DEFINE n == Len(h) + 1
           a == [h[t] EXCEPT ![i] = n]
           s == [h EXCEPT ![t] = a]
<1>1. /\ Len(h) \in Nat \ {0} /\ n \in Nat /\ h \in Seq(Tables)
      /\ lev \in [1 .. Len(h) -> Level]
  BY DEF Levels
<1>2. h[t] \in [Index -> 0 .. Len(h)]
  <2>1. lev[t] < LEVELS
    BY <1>1 DEF Level, LEVELS
  <2>2. QED
    BY <2>1 DEF Levels, Leads
<1>3. a \in Tables
  BY <1>1, <1>2 DEF Tables
<1>4. Table(l) \in Tables
  <2>1. CASE l = LEVELS
    BY <2>1, EntriesTyped DEF Table, Tables
  <2>2. CASE l # LEVELS
    BY <2>2 DEF Table, Tables, NULL
  <2>3. QED
    BY <2>1, <2>2
<1>0. PICK h2 : h2 = Alloc(h, t, i, l)
  OBVIOUS
<1>5. h2 = Append(s, Table(l))
  <2>1. h2 = Append([h EXCEPT ![t][i] = Len(h) + 1], Table(l))
    BY <1>0 DEF Alloc
  <2>2. [h EXCEPT ![t][i] = Len(h) + 1] = s
    OBVIOUS
  <2>3. QED
    BY <2>1, <2>2
<1>6. DOMAIN h = 1 .. Len(h)
  BY <1>1
<1> HIDE DEF a, n
<1>7. /\ s \in Seq(Tables) /\ Len(s) = Len(h) /\ s[t] = a
      /\ \A u \in (1 .. Len(h)) \ {t} : s[u] = h[u]
  BY <1>1, <1>3, <1>6
<1> HIDE DEF s
<1>8. /\ Append(s, Table(l)) \in Seq(Tables)
      /\ Len(Append(s, Table(l))) = Len(s) + 1
      /\ \A u \in 1 .. Len(s) : Append(s, Table(l))[u] = s[u]
      /\ Append(s, Table(l))[Len(s) + 1] = Table(l)
  BY <1>4, <1>7, AppendProperties
<1>9. QED
  BY <1>0, <1>5, <1>7, <1>8 DEF a, n, Behind

\* An allocation leaves a tree, which extends the former.
LEMMA AllocTree ==
  ASSUME NEW h, NEW lev, Levels(h, lev), NEW t \in 1 .. Len(h), NEW i \in Index,
         NEW l \in 2 .. LEVELS, lev[t] + 1 = l
  PROVE  \E lev2 : /\ Levels(Alloc(h, t, i, l), lev2)
                   /\ Extends(h, lev, Alloc(h, t, i, l), lev2)
                   /\ Alloc(h, t, i, l)[t][i] # NULL
<1>1. PICK h2 : h2 = Alloc(h, t, i, l)
  OBVIOUS
<1>2. /\ Len(h) \in Nat \ {0} /\ h \in Seq(Tables)
      /\ lev \in [1 .. Len(h) -> Level] /\ lev[1] = 1
      /\ \A u \in 1 .. Len(h) : lev[u] \in Nat
      /\ l \in Level
  BY DEF Levels, Level, LEVELS
<1>3. CASE h[t][i] # NULL
  <2>1. h2 = h
    BY <1>1, <1>3 DEF Alloc
  <2>2. Extends(h, lev, h, lev)
    BY <1>2 DEF Extends
  <2>3. QED
    BY <1>1, <1>3, <2>1, <2>2
<1>4. CASE h[t][i] = NULL
  <2>1. PICK n : n = Len(h) + 1
    OBVIOUS
  <2>2. PICK m : m = Len(h)
    OBVIOUS
  <2>3. /\ h2 \in Seq(Tables) /\ Len(h2) = n /\ h2[n] = Table(l)
        /\ h2[t] = [h[t] EXCEPT ![i] = n]
        /\ \A u \in (1 .. m) \ {t} : h2[u] = h[u]
    <3>1. Behind(h, Alloc(h, t, i, l), t, i, l)
      BY <1>4, AllocEntries
    <3>2. QED
      BY <1>1, <2>1, <2>2, <3>1 DEF Behind
  <2>4. /\ n \in Nat \ {0} /\ m \in Nat \ {0} /\ n = m + 1 /\ t \in 1 .. m
        /\ 1 .. n = (1 .. m) \cup {n} /\ n \notin 1 .. m
    BY <1>2, <2>1, <2>2
  <2>5. PICK lev2 : lev2 = [u \in 1 .. n |-> IF u = n THEN l ELSE lev[u]]
    OBVIOUS
  <2>6. /\ lev2 \in [1 .. n -> Level] /\ lev2[n] = l
        /\ \A u \in 1 .. m : lev2[u] = lev[u] /\ lev[u] \in Nat
        /\ lev[t] < LEVELS /\ 1 \in 1 .. m
    BY <1>2, <2>2, <2>4, <2>5 DEF LEVELS
  <2>7. /\ \A u \in 1 .. m : lev[u] < LEVELS =>
             /\ h[u] \in [Index -> 0 .. m]
             /\ \A j \in Index : h[u][j] # NULL => lev[h[u][j]] = lev[u] + 1
        /\ \A u \in 1 .. m : lev[u] = LEVELS => h[u] \in [Index -> PteType(Lows)]
        /\ \A u, v \in 1 .. m, j, k \in Index :
             (lev[u] < LEVELS /\ lev[v] < LEVELS /\ h[u][j] # NULL /\ h[u][j] = h[v][k])
               => u = v /\ j = k
        /\ \A v \in 2 .. m : \E u \in 1 .. m, j \in Index : lev[u] < LEVELS /\ h[u][j] = v
    BY <2>2 DEF Levels, Leads, Holds, LinkedOnce, Reached
  <2>8. /\ \A u \in 1 .. m, j \in Index :
             lev[u] < LEVELS => h2[u][j] = IF u = t /\ j = i THEN n ELSE h[u][j]
        /\ \A j \in Index : l < LEVELS => h2[n][j] = NULL
    <3>1. ASSUME NEW u \in 1 .. m, NEW j \in Index, lev[u] < LEVELS
          PROVE  h2[u][j] = IF u = t /\ j = i THEN n ELSE h[u][j]
      <4>1. h[u] \in [Index -> 0 .. m]
        BY <2>7, <3>1
      <4>2. QED
        BY <2>3, <4>1
    <3>2. ASSUME NEW j \in Index, l < LEVELS PROVE h2[n][j] = NULL
      BY <1>2, <2>3, <3>2 DEF Table, LEVELS
    <3>3. QED
      BY <3>1, <3>2
  <2>9. Leads(h2, lev2)
    <3>1. ASSUME NEW u \in 1 .. m, lev[u] < LEVELS
          PROVE  /\ h2[u] \in [Index -> 0 .. n]
                 /\ \A j \in Index : h2[u][j] # NULL => lev2[h2[u][j]] = lev[u] + 1
      <4>1. /\ h[u] \in [Index -> 0 .. m]
            /\ \A j \in Index : h[u][j] # NULL => lev[h[u][j]] = lev[u] + 1
        BY <2>7, <3>1
      <4>2. h2[u] \in [Index -> 0 .. n]
        <5>1. h[u] \in [Index -> 0 .. n] /\ n \in 0 .. n
          BY <2>4, <4>1
        <5>2. CASE u = t
          BY <2>3, <5>1, <5>2
        <5>3. CASE u # t
          BY <2>3, <5>1, <5>3
        <5>4. QED
          BY <5>2, <5>3
      <4>3. ASSUME NEW j \in Index, h2[u][j] # NULL
            PROVE  lev2[h2[u][j]] = lev[u] + 1
        <5>1. CASE u = t /\ j = i
          BY <2>6, <2>8, <3>1, <5>1
        <5>2. CASE ~(u = t /\ j = i)
          <6>1. h2[u][j] = h[u][j] /\ h[u][j] \in 1 .. m
            BY <2>8, <3>1, <4>1, <4>3, <5>2 DEF NULL
          <6>2. QED
            BY <2>6, <4>1, <4>3, <6>1
        <5>3. QED
          BY <5>1, <5>2
      <4>4. QED
        BY <4>2, <4>3
    <3>2. ASSUME l < LEVELS
          PROVE  /\ h2[n] \in [Index -> 0 .. n]
                 /\ \A j \in Index : h2[n][j] # NULL => lev2[h2[n][j]] = l + 1
      <4>1. h2[n] \in [Index -> 0 .. n]
        BY <1>2, <2>3, <2>4, <3>2 DEF Table, NULL, LEVELS
      <4>2. QED
        BY <2>8, <3>2, <4>1
    <3>3. ASSUME NEW u \in 1 .. n, lev2[u] < LEVELS
          PROVE  /\ h2[u] \in [Index -> 0 .. n]
                 /\ \A j \in Index : h2[u][j] # NULL => lev2[h2[u][j]] = lev2[u] + 1
      <4>1. CASE u \in 1 .. m
        BY <2>6, <3>1, <3>3, <4>1
      <4>2. CASE u = n
        BY <2>6, <3>2, <3>3, <4>2
      <4>3. QED
        BY <2>4, <4>1, <4>2
    <3>4. QED
      BY <2>3, <3>3, Zenon DEF Leads
  <2>10. Holds(h2, lev2)
    <3>1. ASSUME NEW u \in 1 .. m, lev[u] = LEVELS
          PROVE  h2[u] \in [Index -> PteType(Lows)]
      <4>1. u # t
        BY <2>6, <3>1 DEF LEVELS
      <4>2. QED
        BY <2>3, <2>7, <3>1, <4>1
    <3>2. ASSUME l = LEVELS PROVE h2[n] \in [Index -> PteType(Lows)]
      BY <2>3, <3>2, EntriesTyped DEF Table
    <3>3. QED
      BY <2>3, <2>4, <2>6, <3>1, <3>2 DEF Holds
  <2>11. LinkedOnce(h2, lev2)
    <3>1. ASSUME NEW u \in 1 .. n, NEW j \in Index, lev2[u] < LEVELS, h2[u][j] # NULL
          PROVE  /\ u \in 1 .. m /\ lev[u] < LEVELS
                 /\ \/ u = t /\ j = i /\ h2[u][j] = n
                    \/ ~(u = t /\ j = i) /\ h2[u][j] = h[u][j] /\ h[u][j] \in 1 .. m
      <4>1. u \in 1 .. m
        BY <2>4, <2>6, <2>8, <3>1
      <4>2. lev[u] < LEVELS
        BY <2>6, <3>1, <4>1
      <4>3. h[u] \in [Index -> 0 .. m]
        BY <2>7, <4>1, <4>2
      <4>4. h2[u][j] = IF u = t /\ j = i THEN n ELSE h[u][j]
        BY <2>8, <4>1, <4>2
      <4>5. QED
        BY <2>4, <3>1, <4>1, <4>2, <4>3, <4>4 DEF NULL
    <3>2. ASSUME NEW u \in 1 .. n, NEW v \in 1 .. n, NEW j \in Index, NEW k \in Index,
                 lev2[u] < LEVELS, lev2[v] < LEVELS, h2[u][j] # NULL, h2[u][j] = h2[v][k]
          PROVE  u = v /\ j = k
      <4>1. /\ u \in 1 .. m /\ lev[u] < LEVELS
            /\ \/ u = t /\ j = i /\ h2[u][j] = n
               \/ ~(u = t /\ j = i) /\ h2[u][j] = h[u][j] /\ h[u][j] \in 1 .. m
        BY <3>1, <3>2
      <4>2. /\ v \in 1 .. m /\ lev[v] < LEVELS
            /\ \/ v = t /\ k = i /\ h2[v][k] = n
               \/ ~(v = t /\ k = i) /\ h2[v][k] = h[v][k] /\ h[v][k] \in 1 .. m
        BY <3>1, <3>2
      <4>3. CASE u = t /\ j = i
        BY <2>4, <3>2, <4>1, <4>2, <4>3
      <4>4. CASE ~(u = t /\ j = i)
        <5>1. h[u][j] = h[v][k] /\ h[u][j] # NULL
          BY <2>4, <3>2, <4>1, <4>2, <4>4
        <5>2. QED
          BY <2>7, <4>1, <4>2, <5>1
      <4>5. QED
        BY <4>3, <4>4
    <3>3. QED
      BY <2>3, <3>2 DEF LinkedOnce
  <2>12. Reached(h2, lev2)
    <3>1. \E u \in 1 .. n, j \in Index : lev2[u] < LEVELS /\ h2[u][j] = n
      <4>1. t \in 1 .. n /\ lev2[t] < LEVELS /\ h2[t][i] = n
        BY <2>4, <2>6, <2>8
      <4>2. QED
        BY <4>1
    <3>2. ASSUME NEW v \in 2 .. m
          PROVE  \E u \in 1 .. n, j \in Index : lev2[u] < LEVELS /\ h2[u][j] = v
      <4>1. PICK u \in 1 .. m, j \in Index : lev[u] < LEVELS /\ h[u][j] = v
        BY <2>7
      <4>2. ~(u = t /\ j = i)
        BY <1>4, <4>1 DEF NULL
      <4>3. u \in 1 .. n /\ lev2[u] < LEVELS /\ h2[u][j] = v
        BY <2>4, <2>6, <2>8, <4>1, <4>2
      <4>4. QED
        BY <4>3
    <3>3. \A v \in 2 .. n : v \in 2 .. m \/ v = n
      BY <2>4
    <3>4. \A v \in 2 .. n : \E u \in 1 .. n, j \in Index : lev2[u] < LEVELS /\ h2[u][j] = v
      BY <3>1, <3>2, <3>3
    <3>5. QED
      BY <2>3, <3>4, Zenon DEF Reached
  <2>13. Levels(h2, lev2)
    BY <1>2, <2>3, <2>4, <2>6, <2>9, <2>10, <2>11, <2>12 DEF Levels
  <2>14. Extends(h, lev, h2, lev2)
    <3>1. ASSUME NEW u \in 1 .. m
          PROVE  /\ lev2[u] = lev[u]
                 /\ lev[u] = LEVELS => h2[u] = h[u]
                 /\ lev[u] < LEVELS => \A j \in Index : h[u][j] # NULL => h2[u][j] = h[u][j]
      <4>1. lev[u] = LEVELS => h2[u] = h[u]
        BY <2>3, <2>6 DEF LEVELS
      <4>2. ASSUME lev[u] < LEVELS, NEW j \in Index, h[u][j] # NULL
            PROVE  h2[u][j] = h[u][j]
        BY <1>4, <2>8, <4>2
      <4>3. QED
        BY <2>6, <4>1, <4>2
    <3>2. \A u \in (m + 1) .. n : u = n
      BY <2>4
    <3>3. lev2[n] = LEVELS => h2[n] = Table(LEVELS)
      BY <2>3, <2>6
    <3>4. m <= n
      BY <2>4
    <3>5. QED
      BY <2>2, <2>3, <3>1, <3>2, <3>3, <3>4 DEF Extends
  <2>15. h2[t][i] # NULL
    BY <2>4, <2>6, <2>8 DEF NULL
  <2>16. QED
    BY <1>1, <2>13, <2>14, <2>15
<1>5. QED
  BY <1>3, <1>4

-----------------------------------------------------------------------------
(* The way to a page *)

\* What h keeps in h2: the ways to the pages, which may go on, and the entries.
Same(h, h2, g) == EntryIn(h2, g) = EntryIn(h, g)
Onward(h, h2) ==
  \A g \in Nat, l \in Level : Walk(h, g)[l] \in {NULL, Walk(h2, g)[l]}
Kept(h, h2) == Tree(h2) /\ Onward(h, h2) /\ \A g \in Nat : Same(h, h2, g)

\* A tree that extends another keeps what it has.
LEMMA ExtendsKeeps ==
  ASSUME NEW h, NEW lev, NEW h2, NEW lev2,
         Levels(h, lev), Levels(h2, lev2), Extends(h, lev, h2, lev2)
  PROVE  Kept(h, h2)
<1>1. /\ Len(h) \in Nat \ {0} /\ Len(h2) \in Nat \ {0} /\ Len(h) <= Len(h2)
      /\ 5 \in Level /\ LEVELS = 5 /\ \A l \in Level : l = 1 \/ (l \in 2 .. 5 /\ l - 1 \in 1 .. 4)
      /\ \A l \in 1 .. 4 : l \in Level /\ l + 1 \in Level /\ l < LEVELS
  BY DEF Levels, Extends, Level, LEVELS
<1>2. ASSUME NEW g \in Nat, NEW l \in 1 .. 4, Walk(h, g)[l] \in {NULL, Walk(h2, g)[l]}
      PROVE  Walk(h, g)[l + 1] \in {NULL, Walk(h2, g)[l + 1]}
  <2>1. CASE Walk(h, g)[l + 1] # NULL
    <3>1. PICK t : t = Walk(h, g)[l]
      OBVIOUS
    <3>2. /\ t \in 1 .. Len(h) /\ lev[t] < LEVELS /\ Digit(g, l) \in Index
          /\ Walk(h, g)[l + 1] = h[t][Digit(g, l)]
      <4>1. OnTheWay(h, lev, g, l)
        BY <2>1, WayOn
      <4>2. QED
        BY <3>1, <4>1 DEF OnTheWay
    <3>3. h2[t][Digit(g, l)] = h[t][Digit(g, l)]
      BY <2>1, <3>2 DEF Extends
    <3>4. t # NULL
      BY <3>2 DEF NULL
    <3>5. Walk(h2, g)[l] = t
      BY <1>2, <3>1, <3>4
    <3>6. Walk(h2, g)[l + 1] = Entry(h2, t, Digit(g, l))
      BY <3>5, WalkSteps
    <3>7. QED
      BY <3>2, <3>3, <3>4, <3>6 DEF Entry
  <2>2. QED
    BY <2>1
<1>3. ASSUME NEW g \in Nat
      PROVE  \A l \in Level : Walk(h, g)[l] \in {NULL, Walk(h2, g)[l]}
  <2>1. Walk(h, g)[1] = 1 /\ Walk(h2, g)[1] = 1
    BY WalkSteps
  <2>2. Walk(h, g)[2] \in {NULL, Walk(h2, g)[2]}
    BY <1>2, <2>1
  <2>3. Walk(h, g)[3] \in {NULL, Walk(h2, g)[3]}
    BY <1>2, <2>2
  <2>4. Walk(h, g)[4] \in {NULL, Walk(h2, g)[4]}
    BY <1>2, <2>3
  <2>5. Walk(h, g)[5] \in {NULL, Walk(h2, g)[5]}
    BY <1>2, <2>4
  <2>6. \A l \in Level : l \in {1, 2, 3, 4, 5}
    BY DEF Level, LEVELS
  <2>7. QED
    BY <2>1, <2>2, <2>3, <2>4, <2>5, <2>6
<1>4. ASSUME NEW g \in Nat, NEW l \in 1 .. 4, Walk(h2, g)[l + 1] \in 1 .. Len(h)
      PROVE  /\ Walk(h2, g)[l] \in 1 .. Len(h)
             /\ Walk(h, g)[l] = Walk(h2, g)[l] => Walk(h, g)[l + 1] = Walk(h2, g)[l + 1]
  <2>1. PICK t, u, d : t = Walk(h2, g)[l] /\ u = Walk(h2, g)[l + 1] /\ d = Digit(g, l)
    OBVIOUS
  <2>2. /\ t \in 1 .. Len(h2) /\ lev2[t] = l /\ d \in Index /\ u = h2[t][d] /\ u # NULL
        /\ l < LEVELS
    <3>1. u # NULL
      BY <1>4, <2>1 DEF NULL
    <3>2. OnTheWay(h2, lev2, g, l)
      BY <2>1, <3>1, WayOn
    <3>3. QED
      BY <2>1, <3>1, <3>2 DEF OnTheWay
  <2>3. u \in 2 .. Len(h)
    <3>1. lev2[u] = l + 1
      <4>1. PICK k \in Level : k = l + 1
        BY <1>1
      <4>2. Walk(h2, g)[k] # NULL => lev2[Walk(h2, g)[k]] = k
        BY WalkSteps
      <4>3. QED
        BY <2>1, <2>2, <4>1, <4>2
    <3>2. lev2[1] = 1
      BY DEF Levels
    <3>3. u # 1
      BY <3>1, <3>2
    <3>4. QED
      BY <1>1, <1>4, <2>1, <3>3
  <2>4. PICK v \in 1 .. Len(h), j \in Index : lev[v] < LEVELS /\ h[v][j] = u
    BY <2>3 DEF Levels, Reached
  <2>5. /\ v \in 1 .. Len(h2) /\ lev2[v] < LEVELS /\ h2[v][j] = u
    <3>1. v \in 1 .. Len(h2)
      BY <1>1
    <3>2. lev2[v] = lev[v]
      BY DEF Extends
    <3>3. h2[v][j] = u
      BY <2>2, <2>4 DEF Extends
    <3>4. QED
      BY <2>4, <3>1, <3>2, <3>3
  <2>6. t = v /\ d = j
    BY <2>2, <2>5 DEF Levels, LinkedOnce
  <2>7. ASSUME Walk(h, g)[l] = t PROVE Walk(h, g)[l + 1] = u
    <3>1. Walk(h, g)[l + 1] = Entry(h, t, d)
      BY <2>1, <2>7, WalkSteps
    <3>2. t # NULL
      BY <2>4, <2>6 DEF NULL
    <3>3. QED
      BY <2>4, <2>6, <3>1, <3>2 DEF Entry
  <2>8. QED
    BY <2>1, <2>6, <2>7
<1>5. ASSUME NEW g \in Nat, Walk(h2, g)[5] \in 1 .. Len(h)
      PROVE  Walk(h, g)[5] = Walk(h2, g)[5]
  <2>1. Walk(h2, g)[4] \in 1 .. Len(h)
    BY <1>4, <1>5
  <2>2. Walk(h2, g)[3] \in 1 .. Len(h)
    BY <1>4, <2>1
  <2>3. Walk(h2, g)[2] \in 1 .. Len(h)
    BY <1>4, <2>2
  <2>4. Walk(h, g)[1] = Walk(h2, g)[1]
    BY WalkSteps
  <2>5. Walk(h, g)[2] = Walk(h2, g)[2]
    BY <1>4, <2>3, <2>4
  <2>6. Walk(h, g)[3] = Walk(h2, g)[3]
    BY <1>4, <2>2, <2>5
  <2>7. Walk(h, g)[4] = Walk(h2, g)[4]
    BY <1>4, <2>1, <2>6
  <2>8. QED
    BY <1>4, <1>5, <2>7
<1>6. ASSUME NEW g \in Nat PROVE Same(h, h2, g)
  <2>1. PICK t, u, d : t = Walk(h, g)[5] /\ u = Walk(h2, g)[5] /\ d = Digit(g, 5)
    OBVIOUS
  <2>2. /\ t \in 0 .. Len(h) /\ u \in 0 .. Len(h2) /\ t \in {NULL, u}
        /\ t # NULL => lev[t] = LEVELS
        /\ u # NULL => lev2[u] = LEVELS
        /\ d \in Index
    BY <1>1, <1>3, <2>1, WalkSteps, DigitIndex
  <2>3. /\ EntryIn(h, g) = IF t = NULL THEN NoPte ELSE h[t][d]
        /\ EntryIn(h2, g) = IF u = NULL THEN NoPte ELSE h2[u][d]
    BY <2>1 DEF EntryIn, LEVELS
  <2>4. CASE t # NULL
    <3>1. t \in 1 .. Len(h) /\ u = t
      BY <1>1, <2>2, <2>4 DEF NULL
    <3>2. h2[t] = h[t]
      BY <2>2, <2>4, <3>1 DEF Extends
    <3>3. QED
      BY <2>3, <2>4, <3>1, <3>2 DEF Same
  <2>5. CASE t = NULL /\ u = NULL
    BY <2>3, <2>5 DEF Same
  <2>6. CASE t = NULL /\ u # NULL
    <3>1. u \notin 1 .. Len(h)
      BY <1>5, <2>1, <2>6
    <3>2. u \in (Len(h) + 1) .. Len(h2)
      BY <1>1, <2>2, <2>6, <3>1 DEF NULL
    <3>3. h2[u] = Table(LEVELS)
      BY <2>2, <2>6, <3>2 DEF Extends
    <3>4. h2[u][d] = NoPte
      BY <2>2, <3>3 DEF Table
    <3>5. QED
      BY <2>3, <2>6, <3>4 DEF Same
  <2>7. QED
    BY <2>4, <2>5, <2>6
<1>7. QED
  BY <1>3, <1>6 DEF Kept, Tree, Onward

\* Keeping is transitive.
LEMMA KeptTwice ==
  ASSUME NEW h, NEW h2, NEW h3, Kept(h, h2), Kept(h2, h3)
  PROVE  Kept(h, h3)
<1>1. Onward(h, h3)
  <2>1. ASSUME NEW g \in Nat, NEW l \in Level
        PROVE  Walk(h, g)[l] \in {NULL, Walk(h3, g)[l]}
    <3>1. Walk(h, g)[l] \in {NULL, Walk(h2, g)[l]} /\ Walk(h2, g)[l] \in {NULL, Walk(h3, g)[l]}
      BY DEF Kept, Onward
    <3>2. QED
      BY <3>1
  <2>2. QED
    BY <2>1 DEF Onward
<1>2. QED
  BY <1>1 DEF Kept, Same

\* A tree keeps what it has.
LEMMA KeptSame ==
  ASSUME NEW h, Tree(h)
  PROVE  Kept(h, h)
BY DEF Kept, Onward, Same

\* Setting an entry goes one table further.
Deeper(h, g, l) == Alloc(h, Walk(h, g)[l], Digit(g, l), l + 1)

\* The next table is there, and what was there is kept.
LEMMA DeeperKept ==
  ASSUME NEW h, Tree(h), NEW g \in Nat, NEW l \in 1 .. 4, Walk(h, g)[l] # NULL
  PROVE  Kept(h, Deeper(h, g, l)) /\ Walk(Deeper(h, g, l), g)[l + 1] # NULL
<1>1. PICK lev : Levels(h, lev)
  BY DEF Tree
<1>2. PICK t, i, k : t = Walk(h, g)[l] /\ i = Digit(g, l) /\ k = l + 1
  OBVIOUS
<1>3. l \in Level /\ k \in 2 .. LEVELS /\ k \in Level
  BY <1>2 DEF Level, LEVELS
<1>4. t \in 1 .. Len(h) /\ lev[t] + 1 = k /\ i \in Index
  <2>1. t \in 0 .. Len(h) /\ lev[t] = l /\ t # NULL
    BY <1>1, <1>2, <1>3, WalkSteps
  <2>2. i \in Index
    BY <1>2, <1>3, DigitIndex
  <2>3. QED
    BY <1>2, <2>1, <2>2 DEF NULL
<1>5. PICK h2 : h2 = Alloc(h, t, i, k)
  OBVIOUS
<1>6. PICK lev2 : Levels(h2, lev2) /\ Extends(h, lev, h2, lev2) /\ h2[t][i] # NULL
  BY <1>1, <1>3, <1>4, <1>5, AllocTree
<1>7. Kept(h, h2)
  BY <1>1, <1>6, ExtendsKeeps
<1>8. Walk(h2, g)[l] = t /\ t # NULL
  <2>1. Walk(h, g)[l] \in {NULL, Walk(h2, g)[l]}
    BY <1>3, <1>7 DEF Kept, Onward
  <2>2. QED
    BY <1>2, <2>1
<1>9. Walk(h2, g)[l + 1] = Entry(h2, t, i)
  BY <1>2, <1>6, <1>8, WalkSteps
<1>10. Walk(h2, g)[l + 1] # NULL
  BY <1>6, <1>8, <1>9 DEF Entry
<1>11. h2 = Deeper(h, g, l)
  BY <1>2, <1>5 DEF Deeper
<1>12. QED
  BY <1>7, <1>10, <1>11

\* The tables on the way to a page, down to any level, are added to the tree;
\* the last one is there then.
LEMMA GrowKept ==
  ASSUME NEW h, Tree(h), NEW g \in Nat
  PROVE  /\ \A k \in Level : Kept(h, Grow(h, g, k))
         /\ Walk(Grow(h, g, 5), g)[5] # NULL
<1>1. PICK h2 : h2 = Deeper(h, g, 1)
  OBVIOUS
<1>2. PICK h3 : h3 = Deeper(h2, g, 2)
  OBVIOUS
<1>3. PICK h4 : h4 = Deeper(h3, g, 3)
  OBVIOUS
<1>4. PICK h5 : h5 = Deeper(h4, g, 4)
  OBVIOUS
<1>5. Walk(h, g)[1] = 1
  BY WalkSteps DEF Tree
<1>6. /\ Grow(h, g, 1) = h /\ Grow(h, g, 2) = h2 /\ Grow(h, g, 3) = h3
      /\ Grow(h, g, 4) = h4 /\ Grow(h, g, 5) = h5
  <2>1. /\ h2 = Alloc(h, 1, Digit(g, 1), 2) /\ h3 = Alloc(h2, Walk(h2, g)[2], Digit(g, 2), 3)
        /\ h4 = Alloc(h3, Walk(h3, g)[3], Digit(g, 3), 4)
        /\ h5 = Alloc(h4, Walk(h4, g)[4], Digit(g, 4), 5)
    BY <1>1, <1>2, <1>3, <1>4, <1>5 DEF Deeper
  <2>2. QED
    BY <2>1 DEF Grow
<1>7. Kept(h, h)
  BY KeptSame
<1>8. Kept(h, h2) /\ Walk(h2, g)[2] # NULL
  BY <1>1, <1>5, DeeperKept DEF NULL
<1>9. Kept(h, h3) /\ Walk(h3, g)[3] # NULL
  <2>1. Kept(h2, h3) /\ Walk(h3, g)[3] # NULL
    BY <1>2, <1>8, DeeperKept DEF Kept
  <2>2. QED
    BY <1>8, <2>1, KeptTwice
<1>10. Kept(h, h4) /\ Walk(h4, g)[4] # NULL
  <2>1. Kept(h3, h4) /\ Walk(h4, g)[4] # NULL
    BY <1>3, <1>9, DeeperKept DEF Kept
  <2>2. QED
    BY <1>9, <2>1, KeptTwice
<1>11. Kept(h, h5) /\ Walk(h5, g)[5] # NULL
  <2>1. Kept(h4, h5) /\ Walk(h5, g)[5] # NULL
    BY <1>4, <1>10, DeeperKept DEF Kept
  <2>2. QED
    BY <1>10, <2>1, KeptTwice
<1>12. \A k \in Level : k \in {1, 2, 3, 4, 5}
  BY DEF Level, LEVELS
<1>13. QED
  BY <1>6, <1>7, <1>8, <1>9, <1>10, <1>11, <1>12

\* Two pages meet in a table only if they came there the same way.
LEMMA Meet ==
  ASSUME NEW h, Tree(h), NEW g1 \in Nat, NEW g2 \in Nat, NEW l \in Level, NEW m \in Level,
         Walk(h, g1)[l] # NULL, Walk(h, g1)[l] = Walk(h, g2)[m]
  PROVE  /\ l = m
         /\ \A k \in 1 .. l : Walk(h, g1)[k] = Walk(h, g2)[k]
         /\ \A k \in 1 .. (l - 1) : Digit(g1, k) = Digit(g2, k)
<1>1. PICK lev : Levels(h, lev)
  BY DEF Tree
<1>2. lev[Walk(h, g1)[l]] = l /\ lev[Walk(h, g2)[m]] = m
  BY <1>1, WalkSteps
<1>3. l = m
  BY <1>2
<1>4. ASSUME NEW k \in 1 .. 4, Walk(h, g1)[k + 1] = Walk(h, g2)[k + 1],
             Walk(h, g1)[k + 1] # NULL
      PROVE  /\ Walk(h, g1)[k] = Walk(h, g2)[k] /\ Digit(g1, k) = Digit(g2, k)
             /\ Walk(h, g1)[k] # NULL
  <2>1. PICK t, u, c, d : /\ t = Walk(h, g1)[k] /\ u = Walk(h, g2)[k]
                          /\ c = Digit(g1, k) /\ d = Digit(g2, k)
    OBVIOUS
  <2>2. /\ t \in 1 .. Len(h) /\ lev[t] < LEVELS /\ c \in Index
        /\ Walk(h, g1)[k + 1] = h[t][c]
    <3>1. OnTheWay(h, lev, g1, k)
      BY <1>1, <1>4, WayOn
    <3>2. QED
      BY <2>1, <3>1 DEF OnTheWay
  <2>3. /\ u \in 1 .. Len(h) /\ lev[u] < LEVELS /\ d \in Index
        /\ Walk(h, g2)[k + 1] = h[u][d]
    <3>1. Walk(h, g2)[k + 1] # NULL
      BY <1>4
    <3>2. OnTheWay(h, lev, g2, k)
      BY <1>1, <3>1, WayOn
    <3>3. QED
      BY <2>1, <3>2 DEF OnTheWay
  <2>4. t = u /\ c = d
    <3>1. h[t][c] = h[u][d] /\ h[t][c] # NULL
      BY <1>4, <2>2, <2>3
    <3>2. LinkedOnce(h, lev)
      BY <1>1 DEF Levels
    <3>3. QED
      BY <2>2, <2>3, <3>1, <3>2 DEF LinkedOnce
  <2>5. QED
    BY <2>1, <2>2, <2>4 DEF NULL
<1> DEFINE Met(k) == Walk(h, g1)[k] = Walk(h, g2)[k] /\ Walk(h, g1)[k] # NULL
           Alike(k) == Digit(g1, k) = Digit(g2, k)
<1>5. /\ Met(5) => Met(4) /\ Alike(4)
      /\ Met(4) => Met(3) /\ Alike(3)
      /\ Met(3) => Met(2) /\ Alike(2)
      /\ Met(2) => Met(1) /\ Alike(1)
  <2>1. ASSUME NEW k \in 1 .. 4, Met(k + 1) PROVE Met(k) /\ Alike(k)
    BY <1>4, <2>1
  <2> HIDE DEF Met, Alike
  <2>2. /\ Met(4 + 1) => Met(4) /\ Alike(4)
        /\ Met(3 + 1) => Met(3) /\ Alike(3)
        /\ Met(2 + 1) => Met(2) /\ Alike(2)
        /\ Met(1 + 1) => Met(1) /\ Alike(1)
    BY <2>1
  <2>3. QED
    BY <2>2
<1>6. Met(l)
  BY <1>3
<1>7. l \in {1, 2, 3, 4, 5}
  BY DEF Level, LEVELS
<1> HIDE DEF Met, Alike
<1>8. (\A k \in 1 .. l : Met(k)) /\ \A k \in 1 .. (l - 1) : Alike(k)
  <2>1. CASE l = 1
    BY <1>6, <2>1
  <2>2. CASE l = 2
    BY <1>5, <1>6, <2>2
  <2>3. CASE l = 3
    BY <1>5, <1>6, <2>3
  <2>4. CASE l = 4
    BY <1>5, <1>6, <2>4
  <2>5. CASE l = 5
    BY <1>5, <1>6, <2>5
  <2>6. QED
    BY <1>7, <2>1, <2>2, <2>3, <2>4, <2>5
<1>9. QED
  BY <1>3, <1>8 DEF Met, Alike

-----------------------------------------------------------------------------
(* The setters *)

Stored(h, t, i, pte) == [h EXCEPT ![t][i] = pte]

\* A change of an entry of a last table changes no link.
LEMMA StoreTree ==
  ASSUME NEW h, NEW lev, Levels(h, lev), NEW t \in 1 .. Len(h), lev[t] = LEVELS,
         NEW i \in Index, NEW pte \in PteType(Lows), NEW h2, h2 = Stored(h, t, i, pte)
  PROVE  /\ Levels(h2, lev) /\ Len(h2) = Len(h)
         /\ \A u \in (1 .. Len(h)) \ {t} : h2[u] = h[u]
         /\ h2[t] = [h[t] EXCEPT ![i] = pte] /\ h[t] \in [Index -> PteType(Lows)]
<1> DEFINE a == [h[t] EXCEPT ![i] = pte]
<1>1. /\ h \in Seq(Tables) /\ Len(h) \in Nat \ {0} /\ DOMAIN h = 1 .. Len(h)
      /\ lev \in [1 .. Len(h) -> Level]
  BY DEF Levels
<1>2. h[t] \in [Index -> PteType(Lows)]
  BY DEF Levels, Holds
<1>3. a \in [Index -> PteType(Lows)]
  BY <1>2
<1>4. h2 = [h EXCEPT ![t] = a]
  BY DEF Stored
<1> HIDE DEF a
<1>5. /\ h2 \in Seq(Tables) /\ Len(h2) = Len(h) /\ h2[t] = a
      /\ \A u \in (1 .. Len(h)) \ {t} : h2[u] = h[u]
  BY <1>1, <1>3, <1>4 DEF Tables
<1>6. \A u \in 1 .. Len(h) : lev[u] < LEVELS => h2[u] = h[u]
  BY <1>5 DEF LEVELS
<1>7. Leads(h2, lev)
  BY <1>5, <1>6 DEF Levels, Leads
<1>8. Holds(h2, lev)
  BY <1>3, <1>5 DEF Levels, Holds
<1>9. LinkedOnce(h2, lev)
  <2>1. LinkedOnce(h, lev)
    BY DEF Levels
  <2>2. ASSUME NEW u \in 1 .. Len(h), NEW v \in 1 .. Len(h), NEW j \in Index, NEW k \in Index,
               lev[u] < LEVELS, lev[v] < LEVELS, h2[u][j] # NULL, h2[u][j] = h2[v][k]
        PROVE  u = v /\ j = k
    <3>1. h2[u] = h[u] /\ h2[v] = h[v]
      BY <1>6, <2>2
    <3>2. h[u][j] # NULL /\ h[u][j] = h[v][k]
      BY <2>2, <3>1
    <3>3. QED
      BY <2>1, <2>2, <3>2 DEF LinkedOnce
  <2>3. QED
    BY <1>5, <2>2 DEF LinkedOnce
<1>10. Reached(h2, lev)
  <2>1. ASSUME NEW u \in 2 .. Len(h)
        PROVE  \E v \in 1 .. Len(h), j \in Index : lev[v] < LEVELS /\ h2[v][j] = u
    <3>1. PICK v \in 1 .. Len(h), j \in Index : lev[v] < LEVELS /\ h[v][j] = u
      BY DEF Levels, Reached
    <3>2. QED
      BY <1>6, <3>1
  <2>2. QED
    BY <1>5, <2>1 DEF Reached
<1>11. Levels(h2, lev)
  BY <1>5, <1>7, <1>8, <1>9, <1>10 DEF Levels
<1>12. QED
  BY <1>2, <1>5, <1>11 DEF a

\* All ways stay as they are then.
LEMMA StoreWays ==
  ASSUME NEW h, NEW lev, NEW h2, Levels(h, lev), Levels(h2, lev), Len(h2) = Len(h),
         \A u \in 1 .. Len(h) : lev[u] < LEVELS => h2[u] = h[u], NEW g \in Nat
  PROVE  \A l \in Level : Walk(h2, g)[l] = Walk(h, g)[l]
<1>1. ASSUME NEW l \in 1 .. 4, Walk(h2, g)[l] = Walk(h, g)[l]
      PROVE  Walk(h2, g)[l + 1] = Walk(h, g)[l + 1]
  <2>1. PICK t, i : t = Walk(h, g)[l] /\ i = Digit(g, l)
    OBVIOUS
  <2>2. /\ Walk(h, g)[l + 1] = Entry(h, t, i) /\ Walk(h2, g)[l + 1] = Entry(h2, t, i)
    BY <1>1, <2>1, WalkSteps
  <2>3. l \in Level /\ l < LEVELS /\ Len(h) \in Nat
    BY DEF Level, LEVELS, Levels
  <2>4. t # NULL => t \in 1 .. Len(h) /\ lev[t] < LEVELS
    BY <2>1, <2>3, WalkSteps DEF NULL
  <2>5. QED
    BY <2>2, <2>4 DEF Entry
<1>2. Walk(h2, g)[1] = Walk(h, g)[1]
  BY WalkSteps
<1>3. Walk(h2, g)[2] = Walk(h, g)[2]
  BY <1>1, <1>2
<1>4. Walk(h2, g)[3] = Walk(h, g)[3]
  BY <1>1, <1>3
<1>5. Walk(h2, g)[4] = Walk(h, g)[4]
  BY <1>1, <1>4
<1>6. Walk(h2, g)[5] = Walk(h, g)[5]
  BY <1>1, <1>5
<1>7. \A l \in Level : l \in {1, 2, 3, 4, 5}
  BY DEF Level, LEVELS
<1>8. QED
  BY <1>2, <1>3, <1>4, <1>5, <1>6, <1>7

\* What a setter does: the entry of the page is set, no other one is, and no
\* table is put in the place of another.
SetOne(h, h2, g, pte) ==
  /\ Tree(h2) /\ Onward(h, h2)
  /\ EntryIn(h2, g) = pte
  /\ \A q \in PageNumber \ {g} : Same(h, h2, q)

\* SetIn does that to a tree.
LEMMA SetInTree ==
  ASSUME NEW h, Tree(h), NEW g \in PageNumber, NEW pte \in PteType(Lows)
  PROVE  SetOne(h, SetIn(h, g, pte), g, pte)
<1>1. PICK h1 : h1 = Grow(h, g, 5)
  OBVIOUS
<1>2. \A q \in PageNumber : q \in Nat
  BY DEF PageNumber
<1>3. 5 \in Level /\ LEVELS = 5
  BY DEF Level, LEVELS
<1>4. Kept(h, h1) /\ Walk(h1, g)[5] # NULL
  BY <1>1, <1>2, <1>3, GrowKept
<1>5. PICK lev : Levels(h1, lev)
  BY <1>4 DEF Kept, Tree
<1>6. PICK t, i : t = Walk(h1, g)[5] /\ i = Digit(g, 5)
  OBVIOUS
<1>7. t \in 1 .. Len(h1) /\ lev[t] = LEVELS /\ t # NULL
  <2>1. t \in 0 .. Len(h1) /\ t # NULL /\ lev[t] = 5
    BY <1>2, <1>3, <1>4, <1>5, <1>6, WalkSteps
  <2>2. QED
    BY <1>3, <2>1 DEF NULL
<1>8. \A q \in PageNumber : Digit(q, 5) \in Index
  BY <1>2, <1>3, DigitIndex
<1>9. PICK h2 : h2 = Stored(h1, t, i, pte)
  OBVIOUS
<1>10. SetIn(h, g, pte) = h2
  BY <1>1, <1>3, <1>6, <1>9 DEF SetIn, Stored
<1>11. /\ Levels(h2, lev) /\ Len(h2) = Len(h1)
       /\ \A u \in (1 .. Len(h1)) \ {t} : h2[u] = h1[u]
       /\ h2[t] = [h1[t] EXCEPT ![i] = pte] /\ h1[t] \in [Index -> PteType(Lows)]
  <2>1. i \in Index
    BY <1>6, <1>8
  <2>2. QED
    BY <1>5, <1>7, <1>9, <2>1, StoreTree
<1>12. \A u \in 1 .. Len(h1) : lev[u] < LEVELS => h2[u] = h1[u]
  BY <1>3, <1>7, <1>11
<1>13. \A q \in Nat, l \in Level : Walk(h2, q)[l] = Walk(h1, q)[l]
  BY <1>5, <1>11, <1>12, StoreWays
<1>14. Onward(h, h2)
  BY <1>4, <1>13 DEF Kept, Onward
<1>15. \A q \in PageNumber :
         /\ EntryIn(h1, q) = IF Walk(h1, q)[5] = NULL THEN NoPte
                             ELSE h1[Walk(h1, q)[5]][Digit(q, 5)]
         /\ EntryIn(h2, q) = IF Walk(h1, q)[5] = NULL THEN NoPte
                             ELSE h2[Walk(h1, q)[5]][Digit(q, 5)]
  BY <1>2, <1>3, <1>13 DEF EntryIn
<1>16. EntryIn(h2, g) = pte
  <2>1. h2[t][i] = pte
    BY <1>6, <1>8, <1>11
  <2>2. QED
    BY <1>4, <1>6, <1>15, <2>1
<1>17. ASSUME NEW q \in PageNumber \ {g} PROVE EntryIn(h2, q) = EntryIn(h1, q)
  <2>1. PICK u, j : u = Walk(h1, q)[5] /\ j = Digit(q, 5)
    OBVIOUS
  <2>2. CASE u = NULL
    BY <1>15, <2>1, <2>2
  <2>3. CASE u # NULL /\ u # t
    <3>1. u \in 1 .. Len(h1)
      <4>1. u \in 0 .. Len(h1)
        BY <1>2, <1>3, <1>5, <2>1, WalkSteps
      <4>2. QED
        BY <2>3, <4>1 DEF NULL
    <3>2. QED
      BY <1>11, <1>15, <2>1, <2>3, <3>1
  <2>4. CASE u = t
    <3>1. \A k \in 1 .. 4 : Digit(q, k) = Digit(g, k)
      <4>1. Walk(h1, q)[5] # NULL /\ Walk(h1, q)[5] = Walk(h1, g)[5] /\ Tree(h1)
        BY <1>4, <1>6, <2>1, <2>4 DEF Kept
      <4>2. q \in Nat /\ g \in Nat
        BY <1>2
      <4>3. \A k \in 1 .. (5 - 1) : Digit(q, k) = Digit(g, k)
        BY <1>3, <4>1, <4>2, Meet
      <4>4. QED
        BY <4>3
    <3>2. j # i
      <4>1. SUFFICES ASSUME j = i PROVE FALSE
        OBVIOUS
      <4>2. \A l \in Level : l \in 1 .. 4 \/ l = 5
        BY DEF Level, LEVELS
      <4>3. \A l \in Level : Digit(q, l) = Digit(g, l)
        BY <1>6, <2>1, <3>1, <4>1, <4>2
      <4>4. QED
        BY <4>3, DigitsApart
    <3>3. h2[t][j] = h1[t][j]
      BY <1>6, <1>8, <1>11, <2>1, <3>2
    <3>4. QED
      BY <1>15, <2>1, <2>4, <3>3
  <2>5. QED
    BY <2>2, <2>3, <2>4
<1>18. \A q \in PageNumber \ {g} : Same(h, h2, q)
  BY <1>2, <1>4, <1>17 DEF Kept, Same
<1>19. QED
  BY <1>10, <1>11, <1>14, <1>16, <1>18 DEF SetOne, Tree

-----------------------------------------------------------------------------
(* Ranges of pages *)

\* The natural numbers have no proper subset with 0 and all successors.
LEMMA Naturals ==
  ASSUME NEW S \in SUBSET Nat, 0 \in S, \A n \in S : n + 1 \in S
  PROVE  S = Nat
<1> DEFINE R == OpToRel(<, Nat)
<1> SUFFICES ASSUME Nat \ S # {} PROVE FALSE
  OBVIOUS
<1>1. IsWellFoundedOn(R, Nat)
  BY NatLessThanWellFounded
<1>2. \A m, n \in Nat : m < n => <<m, n>> \in R
  BY DEF OpToRel
<1> HIDE DEF R
<1>3. PICK n \in Nat \ S : \A m \in Nat \ S : ~(<<m, n>> \in R)
  <2>1. Nat \ S \subseteq Nat
    OBVIOUS
  <2>2. QED
    BY <1>1, <2>1, WFMin, Zenon
<1>4. n # 0 /\ n - 1 \in Nat /\ n - 1 < n /\ (n - 1) + 1 = n
  BY <1>3
<1>5. n - 1 \in S
  BY <1>2, <1>3, <1>4
<1>6. QED
  BY <1>3, <1>4, <1>5

\* The entry of a page of a tree has the type.
LEMMA EntryTyped ==
  ASSUME NEW h, Tree(h), NEW g \in Nat
  PROVE  EntryIn(h, g) \in PteType(Lows)
<1>1. PICK lev : Levels(h, lev)
  BY DEF Tree
<1>2. PICK t, i : t = Walk(h, g)[5] /\ i = Digit(g, 5)
  OBVIOUS
<1>3. 5 \in Level /\ LEVELS = 5
  BY DEF Level, LEVELS
<1>4. t \in 0 .. Len(h) /\ (t # NULL => lev[t] = LEVELS) /\ i \in Index
  BY <1>1, <1>2, <1>3, WalkSteps, DigitIndex
<1>5. EntryIn(h, g) = IF t = NULL THEN NoPte ELSE h[t][i]
  BY <1>2, <1>3 DEF EntryIn
<1>6. CASE t = NULL
  BY <1>5, <1>6, EntriesTyped
<1>7. CASE t # NULL
  <2>1. h[t] \in [Index -> PteType(Lows)]
    BY <1>1, <1>4, <1>7 DEF Levels, Holds, NULL
  <2>2. QED
    BY <1>4, <1>5, <1>7, <2>1
<1>8. QED
  BY <1>6, <1>7

\* The first k pages of a range are mapped, and no other page changes.
MapTo(h, h2, g, frames, k) ==
  /\ Tree(h2) /\ Onward(h, h2)
  /\ \A q \in PageNumber :
       EntryIn(h2, q) = IF q \in g .. (g + k - 1)
                        THEN pte_set_fpn(EntryIn(h, q), frames[q - g + 1])
                        ELSE EntryIn(h, q)

\* One page of a range more is mapped.
MapNext(x, g, frames, k) ==
  SetIn(x, g + k - 1, pte_set_fpn(EntryIn(x, g + k - 1), frames[k]))

\* After the first k - 1 pages, it does the k-th.
LEMMA MapOneMore ==
  ASSUME NEW h, NEW x, NEW g \in Nat, NEW n \in Nat, NEW frames \in [1 .. n -> Fpn],
         g .. (g + n - 1) \subseteq PageNumber,
         NEW k \in 1 .. n, MapTo(h, x, g, frames, k - 1)
  PROVE  MapTo(h, MapNext(x, g, frames, k), g, frames, k)
<1>1. PICK p : p = g + k - 1
  OBVIOUS
<1>2. p \in PageNumber /\ p \in Nat /\ p - g + 1 = k
  BY <1>1
<1>3. PICK pte : pte = pte_set_fpn(EntryIn(x, p), frames[k])
  OBVIOUS
<1>4. Tree(x) /\ Onward(h, x)
  BY DEF MapTo
<1>5. pte \in PteType(Lows)
  BY <1>2, <1>3, <1>4, EntryTyped, EntriesTyped
<1>6. PICK h2 : h2 = SetIn(x, p, pte)
  OBVIOUS
<1>7. SetOne(x, h2, p, pte)
  BY <1>2, <1>4, <1>5, <1>6, SetInTree
<1>8. MapNext(x, g, frames, k) = h2
  BY <1>1, <1>3, <1>6 DEF MapNext
<1>9. Onward(h, h2)
  <2>1. ASSUME NEW q \in Nat, NEW l \in Level
        PROVE  Walk(h, q)[l] \in {NULL, Walk(h2, q)[l]}
    <3>1. Walk(h, q)[l] \in {NULL, Walk(x, q)[l]} /\ Walk(x, q)[l] \in {NULL, Walk(h2, q)[l]}
      BY <1>4, <1>7 DEF Onward, SetOne
    <3>2. QED
      BY <3>1
  <2>2. QED
    BY <2>1 DEF Onward
<1>10. ASSUME NEW q \in PageNumber
       PROVE  EntryIn(h2, q) = IF q \in g .. (g + k - 1)
                               THEN pte_set_fpn(EntryIn(h, q), frames[q - g + 1])
                               ELSE EntryIn(h, q)
  <2>1. q \in Nat
    BY DEF PageNumber
  <2>2. EntryIn(x, q) = IF q \in g .. (g + (k - 1) - 1)
                        THEN pte_set_fpn(EntryIn(h, q), frames[q - g + 1])
                        ELSE EntryIn(h, q)
    BY DEF MapTo
  <2>3. CASE q = p
    <3>1. q \in g .. (g + k - 1) /\ q \notin g .. (g + (k - 1) - 1)
      BY <1>1, <1>2, <2>3
    <3>2. EntryIn(h2, q) = pte
      BY <1>7, <2>3 DEF SetOne
    <3>3. QED
      BY <1>2, <1>3, <2>2, <2>3, <3>1, <3>2
  <2>4. CASE q # p
    <3>1. q \in g .. (g + k - 1) <=> q \in g .. (g + (k - 1) - 1)
      BY <1>1, <2>1, <2>4
    <3>2. EntryIn(h2, q) = EntryIn(x, q)
      BY <1>7, <2>4 DEF SetOne, Same
    <3>3. QED
      BY <2>2, <3>1, <3>2
  <2>5. QED
    BY <2>3, <2>4
<1>11. QED
  BY <1>7, <1>8, <1>9, <1>10 DEF MapTo, SetOne

\* A range is mapped page by page.
LEMMA MappedRange ==
  ASSUME NEW h, Tree(h), NEW g \in Nat, NEW n \in Nat, NEW frames \in [1 .. n -> Fpn],
         g .. (g + n - 1) \subseteq PageNumber
  PROVE  MapTo(h, Mapped(h, g, frames), g, frames, n)
<1> DEFINE Step(x, k) == MapNext(x, g, frames, k)
           IsAfter(a, m) == a = [k \in 0 .. m |-> IF k = 0 THEN h ELSE Step(a[k - 1], k)]
           after == CHOOSE a : IsAfter(a, n)
<1>1. Mapped(h, g, frames) = after[n]
  <2>1. Len(frames) = n
    OBVIOUS
  <2>2. QED
    BY <2>1 DEF Mapped, MapNext
<1> HIDE DEF Step
<1>2. \A m \in Nat : \E a : IsAfter(a, m)
  <2> DEFINE S == {m \in Nat : \E a : IsAfter(a, m)}
  <2>1. 0 \in S
    <3>1. IsAfter([k \in 0 .. 0 |-> h], 0)
      OBVIOUS
    <3>2. QED
      BY <3>1
  <2>2. ASSUME NEW m \in S PROVE m + 1 \in S
    <3>1. m \in Nat
      OBVIOUS
    <3>2. PICK a : IsAfter(a, m)
      OBVIOUS
    <3>3. PICK b : b = [k \in 0 .. (m + 1) |-> IF k = m + 1 THEN Step(a[m], m + 1) ELSE a[k]]
      OBVIOUS
    <3>4. ASSUME NEW k \in 0 .. (m + 1)
          PROVE  b[k] = IF k = 0 THEN h ELSE Step(b[k - 1], k)
      <4>1. CASE k = m + 1
        <5>1. k # 0 /\ k - 1 = m /\ m \in 0 .. (m + 1) /\ m # m + 1
          BY <3>1, <4>1
        <5>2. b[m] = a[m] /\ b[k] = Step(a[m], k)
          BY <3>3, <4>1, <5>1
        <5>3. QED
          BY <5>1, <5>2
      <4>2. CASE k = 0
        <5>1. 0 # m + 1 /\ 0 \in 0 .. m
          BY <3>1
        <5>2. b[k] = a[k] /\ a[k] = h
          BY <3>2, <3>3, <4>2, <5>1
        <5>3. QED
          BY <4>2, <5>2
      <4>3. CASE k # m + 1 /\ k # 0
        <5>1. k \in 0 .. m /\ k - 1 \in 0 .. (m + 1) /\ k - 1 # m + 1
          BY <3>1, <4>3
        <5>2. b[k] = a[k] /\ b[k - 1] = a[k - 1]
          BY <3>3, <4>3, <5>1
        <5>3. a[k] = Step(a[k - 1], k)
          BY <3>2, <4>3, <5>1
        <5>4. QED
          BY <4>3, <5>2, <5>3
      <4>4. QED
        BY <4>1, <4>2, <4>3
    <3>5. IsAfter(b, m + 1)
      <4>1. b = [k \in 0 .. (m + 1) |-> b[k]]
        BY <3>3
      <4>2. QED
        BY <3>4, <4>1
    <3>6. m + 1 \in Nat
      BY <3>1
    <3>7. QED
      BY <3>5, <3>6
  <2>3. S \in SUBSET Nat
    OBVIOUS
  <2> HIDE DEF S
  <2>4. S = Nat
    BY <2>1, <2>2, <2>3, Naturals
  <2>5. QED
    BY <2>4 DEF S
<1>3. IsAfter(after, n)
  <2> HIDE DEF IsAfter
  <2>1. QED
    BY <1>2, Zenon
<1>4. /\ after[0] = h
      /\ \A k \in 1 .. n : after[k] = MapNext(after[k - 1], g, frames, k)
  <2> HIDE DEF after
  <2>1. \A k \in 0 .. n : after[k] = IF k = 0 THEN h ELSE Step(after[k - 1], k)
    BY <1>3
  <2>2. \A k \in 1 .. n : k \in 0 .. n /\ k # 0
    OBVIOUS
  <2>3. QED
    BY <2>1, <2>2 DEF Step
<1> HIDE DEF after, IsAfter
<1>5. MapTo(h, h, g, frames, 0)
  <2>1. \A q : q \notin g .. (g + 0 - 1)
    OBVIOUS
  <2>2. QED
    BY <2>1, KeptSame DEF MapTo, Kept
<1>6. \A k \in 0 .. n : MapTo(h, after[k], g, frames, k)
  <2> DEFINE S == {k \in Nat : k <= n => MapTo(h, after[k], g, frames, k)}
  <2>1. 0 \in S
    BY <1>4, <1>5
  <2>2. ASSUME NEW m \in S PROVE m + 1 \in S
    <3>1. m \in Nat /\ m + 1 \in Nat
      OBVIOUS
    <3>2. CASE m + 1 <= n
      <4>1. m + 1 \in 1 .. n /\ (m + 1) - 1 = m /\ m <= n
        BY <3>1, <3>2
      <4>2. MapTo(h, after[m], g, frames, m)
        BY <4>1
      <4>3. PICK k \in 1 .. n : k = m + 1 /\ k - 1 = m
        BY <4>1
      <4>4. MapTo(h, MapNext(after[k - 1], g, frames, k), g, frames, k)
        BY <4>2, <4>3, MapOneMore
      <4>5. QED
        BY <1>4, <3>1, <4>3, <4>4
    <3>3. CASE ~(m + 1 <= n)
      BY <3>1, <3>3
    <3>4. QED
      BY <3>2, <3>3
  <2>3. S \in SUBSET Nat
    OBVIOUS
  <2> HIDE DEF S
  <2>4. S = Nat
    BY <2>1, <2>2, <2>3, Naturals
  <2>5. \A k \in 0 .. n : k \in Nat /\ k <= n
    OBVIOUS
  <2>6. QED
    BY <2>4, <2>5 DEF S
<1>7. QED
  BY <1>1, <1>6

\* The first k pages of a range are cleared, and no other page changes.
ClearTo(h, h2, g, k) ==
  /\ Tree(h2) /\ Onward(h, h2)
  /\ \A q \in PageNumber :
       EntryIn(h2, q) = IF q \in g .. (g + k - 1)
                        THEN NoPte
                        ELSE EntryIn(h, q)

\* One page of a range more is cleared.
ClearNext(x, g, k) == SetIn(x, g + k - 1, NoPte)

\* After the first k - 1 pages, it does the k-th.
LEMMA ClearOneMore ==
  ASSUME NEW h, NEW x, NEW g \in Nat, NEW n \in Nat,
         g .. (g + n - 1) \subseteq PageNumber,
         NEW k \in 1 .. n, ClearTo(h, x, g, k - 1)
  PROVE  ClearTo(h, ClearNext(x, g, k), g, k)
<1>1. PICK p : p = g + k - 1
  OBVIOUS
<1>2. p \in PageNumber /\ p \in Nat /\ p - g + 1 = k
  BY <1>1
<1>3. PICK pte : pte = NoPte
  OBVIOUS
<1>4. Tree(x) /\ Onward(h, x)
  BY DEF ClearTo
<1>5. pte \in PteType(Lows)
  BY <1>2, <1>3, <1>4, EntryTyped, EntriesTyped
<1>6. PICK h2 : h2 = SetIn(x, p, pte)
  OBVIOUS
<1>7. SetOne(x, h2, p, pte)
  BY <1>2, <1>4, <1>5, <1>6, SetInTree
<1>8. ClearNext(x, g, k) = h2
  BY <1>1, <1>3, <1>6 DEF ClearNext
<1>9. Onward(h, h2)
  <2>1. ASSUME NEW q \in Nat, NEW l \in Level
        PROVE  Walk(h, q)[l] \in {NULL, Walk(h2, q)[l]}
    <3>1. Walk(h, q)[l] \in {NULL, Walk(x, q)[l]} /\ Walk(x, q)[l] \in {NULL, Walk(h2, q)[l]}
      BY <1>4, <1>7 DEF Onward, SetOne
    <3>2. QED
      BY <3>1
  <2>2. QED
    BY <2>1 DEF Onward
<1>10. ASSUME NEW q \in PageNumber
       PROVE  EntryIn(h2, q) = IF q \in g .. (g + k - 1)
                               THEN NoPte
                               ELSE EntryIn(h, q)
  <2>1. q \in Nat
    BY DEF PageNumber
  <2>2. EntryIn(x, q) = IF q \in g .. (g + (k - 1) - 1)
                        THEN NoPte
                        ELSE EntryIn(h, q)
    BY DEF ClearTo
  <2>3. CASE q = p
    <3>1. q \in g .. (g + k - 1) /\ q \notin g .. (g + (k - 1) - 1)
      BY <1>1, <1>2, <2>3
    <3>2. EntryIn(h2, q) = pte
      BY <1>7, <2>3 DEF SetOne
    <3>3. QED
      BY <1>2, <1>3, <2>2, <2>3, <3>1, <3>2
  <2>4. CASE q # p
    <3>1. q \in g .. (g + k - 1) <=> q \in g .. (g + (k - 1) - 1)
      BY <1>1, <2>1, <2>4
    <3>2. EntryIn(h2, q) = EntryIn(x, q)
      BY <1>7, <2>4 DEF SetOne, Same
    <3>3. QED
      BY <2>2, <3>1, <3>2
  <2>5. QED
    BY <2>3, <2>4
<1>11. QED
  BY <1>7, <1>8, <1>9, <1>10 DEF ClearTo, SetOne

\* A range is cleared page by page.
LEMMA ClearedRange ==
  ASSUME NEW h, Tree(h), NEW g \in Nat, NEW n \in Nat,
         g .. (g + n - 1) \subseteq PageNumber
  PROVE  ClearTo(h, Cleared(h, g, n), g, n)
<1> DEFINE Step(x, k) == ClearNext(x, g, k)
           IsAfter(a, m) == a = [k \in 0 .. m |-> IF k = 0 THEN h ELSE Step(a[k - 1], k)]
           after == CHOOSE a : IsAfter(a, n)
<1>1. Cleared(h, g, n) = after[n]
  BY DEF Cleared, ClearNext
<1> HIDE DEF Step
<1>2. \A m \in Nat : \E a : IsAfter(a, m)
  <2> DEFINE S == {m \in Nat : \E a : IsAfter(a, m)}
  <2>1. 0 \in S
    <3>1. IsAfter([k \in 0 .. 0 |-> h], 0)
      OBVIOUS
    <3>2. QED
      BY <3>1
  <2>2. ASSUME NEW m \in S PROVE m + 1 \in S
    <3>1. m \in Nat
      OBVIOUS
    <3>2. PICK a : IsAfter(a, m)
      OBVIOUS
    <3>3. PICK b : b = [k \in 0 .. (m + 1) |-> IF k = m + 1 THEN Step(a[m], m + 1) ELSE a[k]]
      OBVIOUS
    <3>4. ASSUME NEW k \in 0 .. (m + 1)
          PROVE  b[k] = IF k = 0 THEN h ELSE Step(b[k - 1], k)
      <4>1. CASE k = m + 1
        <5>1. k # 0 /\ k - 1 = m /\ m \in 0 .. (m + 1) /\ m # m + 1
          BY <3>1, <4>1
        <5>2. b[m] = a[m] /\ b[k] = Step(a[m], k)
          BY <3>3, <4>1, <5>1
        <5>3. QED
          BY <5>1, <5>2
      <4>2. CASE k = 0
        <5>1. 0 # m + 1 /\ 0 \in 0 .. m
          BY <3>1
        <5>2. b[k] = a[k] /\ a[k] = h
          BY <3>2, <3>3, <4>2, <5>1
        <5>3. QED
          BY <4>2, <5>2
      <4>3. CASE k # m + 1 /\ k # 0
        <5>1. k \in 0 .. m /\ k - 1 \in 0 .. (m + 1) /\ k - 1 # m + 1
          BY <3>1, <4>3
        <5>2. b[k] = a[k] /\ b[k - 1] = a[k - 1]
          BY <3>3, <4>3, <5>1
        <5>3. a[k] = Step(a[k - 1], k)
          BY <3>2, <4>3, <5>1
        <5>4. QED
          BY <4>3, <5>2, <5>3
      <4>4. QED
        BY <4>1, <4>2, <4>3
    <3>5. IsAfter(b, m + 1)
      <4>1. b = [k \in 0 .. (m + 1) |-> b[k]]
        BY <3>3
      <4>2. QED
        BY <3>4, <4>1
    <3>6. m + 1 \in Nat
      BY <3>1
    <3>7. QED
      BY <3>5, <3>6
  <2>3. S \in SUBSET Nat
    OBVIOUS
  <2> HIDE DEF S
  <2>4. S = Nat
    BY <2>1, <2>2, <2>3, Naturals
  <2>5. QED
    BY <2>4 DEF S
<1>3. IsAfter(after, n)
  <2> HIDE DEF IsAfter
  <2>1. QED
    BY <1>2, Zenon
<1>4. /\ after[0] = h
      /\ \A k \in 1 .. n : after[k] = ClearNext(after[k - 1], g, k)
  <2> HIDE DEF after
  <2>1. \A k \in 0 .. n : after[k] = IF k = 0 THEN h ELSE Step(after[k - 1], k)
    BY <1>3
  <2>2. \A k \in 1 .. n : k \in 0 .. n /\ k # 0
    OBVIOUS
  <2>3. QED
    BY <2>1, <2>2 DEF Step
<1> HIDE DEF after, IsAfter
<1>5. ClearTo(h, h, g, 0)
  <2>1. \A q : q \notin g .. (g + 0 - 1)
    OBVIOUS
  <2>2. QED
    BY <2>1, KeptSame DEF ClearTo, Kept
<1>6. \A k \in 0 .. n : ClearTo(h, after[k], g, k)
  <2> DEFINE S == {k \in Nat : k <= n => ClearTo(h, after[k], g, k)}
  <2>1. 0 \in S
    BY <1>4, <1>5
  <2>2. ASSUME NEW m \in S PROVE m + 1 \in S
    <3>1. m \in Nat /\ m + 1 \in Nat
      OBVIOUS
    <3>2. CASE m + 1 <= n
      <4>1. m + 1 \in 1 .. n /\ (m + 1) - 1 = m /\ m <= n
        BY <3>1, <3>2
      <4>2. ClearTo(h, after[m], g, m)
        BY <4>1
      <4>3. PICK k \in 1 .. n : k = m + 1 /\ k - 1 = m
        BY <4>1
      <4>4. ClearTo(h, ClearNext(after[k - 1], g, k), g, k)
        BY <4>2, <4>3, ClearOneMore
      <4>5. QED
        BY <1>4, <3>1, <4>3, <4>4
    <3>3. CASE ~(m + 1 <= n)
      BY <3>1, <3>3
    <3>4. QED
      BY <3>2, <3>3
  <2>3. S \in SUBSET Nat
    OBVIOUS
  <2> HIDE DEF S
  <2>4. S = Nat
    BY <2>1, <2>2, <2>3, Naturals
  <2>5. \A k \in 0 .. n : k \in Nat /\ k <= n
    OBVIOUS
  <2>6. QED
    BY <2>4, <2>5 DEF S
<1>7. QED
  BY <1>1, <1>6

-----------------------------------------------------------------------------
(* The invariant: there are no tables, or they form a tree *)

Inv == heap = <<>> \/ Tree(heap)

\* A tree has a root.
LEMMA TreeRoot ==
  ASSUME NEW h, Tree(h)
  PROVE  h # <<>>
BY DEF Tree, Levels

\* The root alone is a tree.
LEMMA InitInv == Init => Inv
<1> SUFFICES ASSUME Init PROVE Inv
  OBVIOUS
<1>1. PICK a : a = Table(1)
  OBVIOUS
<1>2. heap = <<a>> /\ a = [i \in Index |-> NULL]
  BY <1>1 DEF Init, Table, LEVELS
<1>3. a \in Tables /\ a \in [Index -> 0 .. 1] /\ \A i \in Index : a[i] = NULL
  BY <1>2 DEF Tables, NULL
<1>4. /\ heap \in Seq(Tables) /\ Len(heap) = 1 /\ heap[1] = a
  BY <1>2, <1>3
<1>5. PICK lev : lev = [u \in 1 .. 1 |-> 1]
  OBVIOUS
<1>6. /\ lev \in [1 .. Len(heap) -> Level] /\ lev[1] = 1 /\ 1 < LEVELS /\ 1 # LEVELS
      /\ \A u \in 1 .. Len(heap) : u = 1
      /\ \A u \in 2 .. Len(heap) : FALSE
  BY <1>4, <1>5 DEF Level, LEVELS
<1>7. Leads(heap, lev)
  BY <1>3, <1>4, <1>6 DEF Leads
<1>8. Holds(heap, lev)
  BY <1>6 DEF Holds
<1>9. LinkedOnce(heap, lev)
  BY <1>3, <1>4, <1>6 DEF LinkedOnce
<1>10. Reached(heap, lev)
  BY <1>6 DEF Reached
<1>11. Levels(heap, lev)
  BY <1>4, <1>6, <1>7, <1>8, <1>9, <1>10 DEF Levels
<1>12. QED
  BY <1>11 DEF Inv, Tree

\* What a step does to a tree.
Effect(h, h2) ==
  /\ Tree(h2) /\ Onward(h, h2)
  /\ \/ \E g \in Pgn, off \in Swpoff : SetOne(h, h2, g, pte_set_swap(EntryIn(h, g), off))
     \/ \E g \in Pgn : SetOne(h, h2, g, [EntryIn(h, g) EXCEPT !.dirty = TRUE])
     \/ \E g \in Pgn, n \in {1} \cup UNION {1 .. k : k \in Ranges} :
          \/ \E frames \in [1 .. n -> Fpn] : MapTo(h, h2, g, frames, n)
          \/ ClearTo(h, h2, g, n)
     \/ \A q \in PageNumber : Same(h, h2, q)

\* The pages in use are page numbers.
LEMMA PagesInUse == \A g \in Pgn : g \in PageNumber /\ g \in Nat
BY TableAssumption DEF PageNumber

\* A range in use is one of page numbers.
LEMMA RangeInUse ==
  ASSUME NEW g \in Pgn, NEW n \in Ranges, InUse(g, n)
  PROVE  /\ g \in Nat /\ n \in Nat \ {0} /\ g .. (g + n - 1) \subseteq PageNumber
         /\ n \in {1} \cup UNION {1 .. k : k \in Ranges}
         /\ n - 1 \in Nat /\ g .. (g + (n - 1) - 1) \subseteq PageNumber
         /\ n - 1 # 0 => n - 1 \in {1} \cup UNION {1 .. k : k \in Ranges}
         /\ g + n - 1 \in PageNumber /\ g + n - 1 \in Nat
<1>1. /\ g \in Nat /\ n \in Nat \ {0} /\ g .. (g + n - 1) \subseteq Pgn
      /\ \A k \in Ranges : k \in Nat
  BY PagesInUse, TableAssumption DEF InUse
<1>2. g .. (g + n - 1) \subseteq PageNumber
  BY <1>1, PagesInUse
<1>3. n \in 1 .. n /\ (n - 1 # 0 => n - 1 \in 1 .. n)
  BY <1>1
<1>4. \A m \in 1 .. n : m \in {1} \cup UNION {1 .. k : k \in Ranges}
  OBVIOUS
<1>5. /\ n - 1 \in Nat /\ g + n - 1 \in g .. (g + n - 1)
      /\ g .. (g + (n - 1) - 1) \subseteq g .. (g + n - 1)
  BY <1>1
<1>6. g + n - 1 \in Nat
  BY <1>1
<1>7. QED
  BY <1>1, <1>2, <1>3, <1>4, <1>5, <1>6

\* A setter called for one page.
LEMMA SetEffect ==
  ASSUME NEW h, Tree(h), NEW g \in Pgn, NEW pte \in PteType(Lows)
  PROVE  SetOne(h, SetIn(h, g, pte), g, pte)
BY PagesInUse, SetInTree

\* What has one page mapped is a range of one page.
LEMMA MapOnePage ==
  ASSUME NEW h, NEW h2, NEW g \in Pgn, NEW fpn \in Fpn,
         SetOne(h, h2, g, pte_set_fpn(EntryIn(h, g), fpn))
  PROVE  MapTo(h, h2, g, [k \in 1 .. 1 |-> fpn], 1)
<1>1. g \in Nat /\ g \in PageNumber
  BY PagesInUse
<1>2. PICK frames : frames = [k \in 1 .. 1 |-> fpn]
  OBVIOUS
<1>3. frames[1] = fpn
  BY <1>2
<1>4. ASSUME NEW q \in PageNumber
      PROVE  EntryIn(h2, q) = IF q \in g .. (g + 1 - 1)
                              THEN pte_set_fpn(EntryIn(h, q), frames[q - g + 1])
                              ELSE EntryIn(h, q)
  <2>1. q \in Nat
    BY DEF PageNumber
  <2>2. q \in g .. (g + 1 - 1) <=> q = g
    BY <1>1, <2>1
  <2>3. g - g + 1 = 1
    BY <1>1
  <2>4. CASE q = g
    BY <1>3, <2>2, <2>3, <2>4 DEF SetOne
  <2>5. CASE q # g
    BY <2>2, <2>5 DEF SetOne, Same
  <2>6. QED
    BY <2>4, <2>5
<1>5. QED
  BY <1>2, <1>4 DEF MapTo, SetOne

\* A failed allocation leaves the entries as they were.
LEMMA FailKept ==
  ASSUME NEW h, Tree(h), NEW g \in Nat, NEW k \in 1 .. (LEVELS - 1)
  PROVE  Kept(h, Grow(h, g, k))
<1>1. k \in Level
  BY DEF Level, LEVELS
<1>2. QED
  BY <1>1, GrowKept

\* What has been mapped stays so where it is kept.
LEMMA MapThenKept ==
  ASSUME NEW h, NEW x, NEW h2, NEW g, NEW frames, NEW k,
         MapTo(h, x, g, frames, k), Kept(x, h2)
  PROVE  MapTo(h, h2, g, frames, k)
<1>1. Onward(h, h2)
  <2>1. ASSUME NEW q \in Nat, NEW l \in Level
        PROVE  Walk(h, q)[l] \in {NULL, Walk(h2, q)[l]}
    <3>1. Walk(h, q)[l] \in {NULL, Walk(x, q)[l]} /\ Walk(x, q)[l] \in {NULL, Walk(h2, q)[l]}
      BY DEF MapTo, Kept, Onward
    <3>2. QED
      BY <3>1
  <2>2. QED
    BY <2>1 DEF Onward
<1>2. \A q \in PageNumber : EntryIn(h2, q) = EntryIn(x, q)
  BY DEF Kept, Same, PageNumber
<1>3. Tree(h2)
  BY DEF Kept
<1>4. QED
  BY <1>1, <1>2, <1>3 DEF MapTo

\* So is what has been cleared.
LEMMA ClearThenKept ==
  ASSUME NEW h, NEW x, NEW h2, NEW g, NEW k, ClearTo(h, x, g, k), Kept(x, h2)
  PROVE  ClearTo(h, h2, g, k)
<1>1. Onward(h, h2)
  <2>1. ASSUME NEW q \in Nat, NEW l \in Level
        PROVE  Walk(h, q)[l] \in {NULL, Walk(h2, q)[l]}
    <3>1. Walk(h, q)[l] \in {NULL, Walk(x, q)[l]} /\ Walk(x, q)[l] \in {NULL, Walk(h2, q)[l]}
      BY DEF ClearTo, Kept, Onward
    <3>2. QED
      BY <3>1
  <2>2. QED
    BY <2>1 DEF Onward
<1>2. \A q \in PageNumber : EntryIn(h2, q) = EntryIn(x, q)
  BY DEF Kept, Same, PageNumber
<1>3. Tree(h2)
  BY DEF Kept
<1>4. QED
  BY <1>1, <1>2, <1>3 DEF ClearTo

\* An empty range changes nothing.
LEMMA NoneMapped ==
  ASSUME NEW h, NEW h2, NEW g \in Nat, NEW k, k = 0, NEW frames,
         MapTo(h, h2, g, frames, k) \/ ClearTo(h, h2, g, k)
  PROVE  \A q \in PageNumber : Same(h, h2, q)
<1>1. \A q : q \notin g .. (g + k - 1)
  OBVIOUS
<1>2. QED
  BY <1>1 DEF MapTo, ClearTo, Same

\* A step on tables that exist frees all, or has an effect.
LEMMA StepEffect ==
  ASSUME Tree(heap), Next
  PROVE  FreeMm \/ Effect(heap, heap')
<1>1. PICK h, h2 : h = heap /\ h2 = heap'
  OBVIOUS
<1>2. Tree(h)
  BY <1>1
<1>3. \A g \in Pgn : EntryIn(h, g) \in PteType(Lows)
  BY <1>2, PagesInUse, EntryTyped
<1>4. CASE \E g \in Pgn, fpn \in Fpn : SetFpn(g, fpn)
  <2>1. PICK g \in Pgn, fpn \in Fpn : SetFpn(g, fpn)
    BY <1>4
  <2>2. PICK pte : pte = pte_set_fpn(EntryIn(h, g), fpn)
    OBVIOUS
  <2>3. h2 = SetIn(h, g, pte)
    BY <1>1, <2>1, <2>2 DEF SetFpn, SetEntry, pte_get_entry
  <2>4. pte \in PteType(Lows)
    BY <1>3, <2>2, EntriesTyped
  <2>5. SetOne(h, h2, g, pte)
    BY <1>2, <2>3, <2>4, SetEffect
  <2>6. PICK frames : frames = [k \in 1 .. 1 |-> fpn]
    OBVIOUS
  <2>7. frames \in [1 .. 1 -> Fpn] /\ 1 \in {1} \cup UNION {1 .. k : k \in Ranges}
    BY <2>6
  <2>8. MapTo(h, h2, g, frames, 1)
    BY <2>2, <2>5, <2>6, MapOnePage
  <2>9. Effect(h, h2)
    BY <2>7, <2>8 DEF Effect, MapTo
  <2>10. QED
    BY <1>1, <2>9
<1>5. CASE \E g \in Pgn, off \in Swpoff : SetSwap(g, off)
  <2>1. PICK g \in Pgn, off \in Swpoff : SetSwap(g, off)
    BY <1>5
  <2>2. PICK pte : pte = pte_set_swap(EntryIn(h, g), off)
    OBVIOUS
  <2>3. h2 = SetIn(h, g, pte)
    BY <1>1, <2>1, <2>2 DEF SetSwap, SetEntry, pte_get_entry
  <2>4. pte \in PteType(Lows)
    BY <1>3, <2>2, EntriesTyped
  <2>5. SetOne(h, h2, g, pte)
    BY <1>2, <2>3, <2>4, SetEffect
  <2>6. Effect(h, h2)
    BY <2>2, <2>5 DEF Effect, SetOne
  <2>7. QED
    BY <1>1, <2>6
<1>6. CASE \E g \in Pgn : SetDirty(g)
  <2>1. PICK g \in Pgn : SetDirty(g)
    BY <1>6
  <2>2. PICK pte : pte = [EntryIn(h, g) EXCEPT !.dirty = TRUE]
    OBVIOUS
  <2>3. h2 = SetIn(h, g, pte)
    BY <1>1, <2>1, <2>2 DEF SetDirty, SetEntry, pte_get_entry
  <2>4. pte \in PteType(Lows)
    BY <1>3, <2>2, EntriesTyped
  <2>5. SetOne(h, h2, g, pte)
    BY <1>2, <2>3, <2>4, SetEffect
  <2>6. Effect(h, h2)
    BY <2>2, <2>5 DEF Effect, SetOne
  <2>7. QED
    BY <1>1, <2>6
<1>7. CASE \E g \in Pgn, k \in 1 .. (LEVELS - 1) : AllocFails(heap, g, k)
  <2>1. PICK g \in Pgn, k \in 1 .. (LEVELS - 1) : h2 = Grow(h, g, k)
    BY <1>1, <1>7 DEF AllocFails
  <2>2. Kept(h, h2)
    BY <1>2, <2>1, PagesInUse, FailKept
  <2>3. Effect(h, h2)
    BY <2>2 DEF Effect, Kept, PageNumber
  <2>4. QED
    BY <1>1, <2>3
<1>8. ASSUME NEW g \in Pgn, NEW n \in Ranges, InUse(g, n),
             NEW frames \in [1 .. n -> Fpn], MapRange(g, frames)
      PROVE  Effect(h, h2)
  <2>1. h2 = Mapped(h, g, frames)
    BY <1>1, <1>8 DEF MapRange
  <2>2. MapTo(h, h2, g, frames, n)
    BY <1>2, <1>8, <2>1, RangeInUse, MappedRange
  <2>3. QED
    BY <1>8, <2>2, RangeInUse DEF Effect, MapTo
<1>9. ASSUME NEW g \in Pgn, NEW n \in Ranges, InUse(g, n), ClearRange(g, n)
      PROVE  Effect(h, h2)
  <2>1. h2 = Cleared(h, g, n)
    BY <1>1, <1>9 DEF ClearRange
  <2>2. ClearTo(h, h2, g, n)
    BY <1>2, <1>9, <2>1, RangeInUse, ClearedRange
  <2>3. QED
    BY <1>9, <2>2, RangeInUse DEF Effect, ClearTo
<1>10. ASSUME NEW g \in Pgn, NEW n \in Ranges, InUse(g, n),
              NEW frames \in [1 .. n -> Fpn], NEW k \in 1 .. (LEVELS - 1),
              MapRangeFails(g, frames, k)
       PROVE  Effect(h, h2)
  <2>1. PICK m, f, x : m = n - 1 /\ f = Front(frames) /\ x = Mapped(h, g, f)
    OBVIOUS
  <2>2. /\ n \in Nat \ {0} /\ m \in Nat /\ g \in Nat /\ g .. (g + m - 1) \subseteq PageNumber
        /\ m # 0 => m \in {1} \cup UNION {1 .. j : j \in Ranges}
        /\ g + n - 1 \in Nat
    BY <1>10, <2>1, RangeInUse
  <2>3. Len(frames) = n
    BY <2>2
  <2>4. f \in [1 .. m -> Fpn]
    <3>1. f = [i \in 1 .. (n - 1) |-> frames[i]]
      BY <2>1, <2>3 DEF Front
    <3>2. \A i \in 1 .. (n - 1) : i \in 1 .. n
      BY <2>2
    <3>3. QED
      BY <2>1, <3>1, <3>2
  <2>5. MapTo(h, x, g, f, m)
    BY <1>2, <2>1, <2>2, <2>4, MappedRange
  <2>6. h2 = Grow(x, g + n - 1, k)
    BY <1>1, <1>10, <2>1, <2>3 DEF MapRangeFails, AllocFails
  <2>7. Kept(x, h2)
    <3>1. Tree(x)
      BY <2>5 DEF MapTo
    <3>2. QED
      BY <2>2, <2>6, <3>1, FailKept
  <2>8. MapTo(h, h2, g, f, m)
    BY <2>5, <2>7, MapThenKept
  <2>9. CASE m # 0
    BY <2>2, <2>4, <2>8, <2>9 DEF Effect, MapTo
  <2>10. CASE m = 0
    <3>1. \A q \in PageNumber : Same(h, h2, q)
      BY <2>2, <2>8, <2>10, NoneMapped
    <3>2. QED
      BY <2>8, <3>1 DEF Effect, MapTo
  <2>11. QED
    BY <2>9, <2>10
<1>11. ASSUME NEW g \in Pgn, NEW n \in Ranges, InUse(g, n),
              NEW k \in 1 .. (LEVELS - 1), ClearRangeFails(g, n, k)
       PROVE  Effect(h, h2)
  <2>1. PICK m, x : m = n - 1 /\ x = Cleared(h, g, m)
    OBVIOUS
  <2>2. /\ n \in Nat \ {0} /\ m \in Nat /\ g \in Nat /\ g .. (g + m - 1) \subseteq PageNumber
        /\ m # 0 => m \in {1} \cup UNION {1 .. j : j \in Ranges}
        /\ g + n - 1 \in Nat
    BY <1>11, <2>1, RangeInUse
  <2>3. ClearTo(h, x, g, m)
    BY <1>2, <2>1, <2>2, ClearedRange
  <2>4. h2 = Grow(x, g + n - 1, k)
    BY <1>1, <1>11, <2>1 DEF ClearRangeFails, AllocFails
  <2>5. Kept(x, h2)
    <3>1. Tree(x)
      BY <2>3 DEF ClearTo
    <3>2. QED
      BY <2>2, <2>4, <3>1, FailKept
  <2>6. ClearTo(h, h2, g, m)
    BY <2>3, <2>5, ClearThenKept
  <2>7. CASE m # 0
    BY <2>2, <2>6, <2>7 DEF Effect, ClearTo
  <2>8. CASE m = 0
    <3>1. \A q \in PageNumber : Same(h, h2, q)
      BY <2>2, <2>6, <2>8, NoneMapped
    <3>2. QED
      BY <2>6, <3>1 DEF Effect, ClearTo
  <2>9. QED
    BY <2>7, <2>8
<1>12. QED
  BY <1>1, <1>4, <1>5, <1>6, <1>7, <1>8, <1>9, <1>10, <1>11 DEF Next

\* Without tables there will be none.
LEMMA NoTables ==
  ASSUME heap = <<>>, [Next]_vars
  PROVE  heap' = <<>>
BY DEF Next, SetFpn, SetSwap, SetDirty, SetEntry, AllocFails, MapRange, ClearRange,
       MapRangeFails, ClearRangeFails, FreeMm, vars

\* A step keeps the invariant.
LEMMA NextInv == Inv /\ [Next]_vars => Inv'
<1> SUFFICES ASSUME Inv, [Next]_vars PROVE Inv'
  OBVIOUS
<1>1. CASE heap = <<>>
  BY <1>1, NoTables DEF Inv
<1>2. CASE Tree(heap) /\ Next
  <2>1. heap' = <<>> \/ Effect(heap, heap')
    BY <1>2, StepEffect DEF FreeMm
  <2>2. heap' = <<>> \/ Tree(heap')
    BY <2>1 DEF Effect
  <2>3. QED
    BY <2>2 DEF Inv
<1>3. CASE Tree(heap) /\ UNCHANGED vars
  <2>1. heap' = heap
    BY <1>3 DEF vars
  <2>2. PICK h : h = heap
    OBVIOUS
  <2>3. Tree(h)
    BY <1>3, <2>2
  <2>4. QED
    BY <2>1, <2>2, <2>3 DEF Inv
<1>4. QED
  BY <1>1, <1>2, <1>3 DEF Inv

\* The invariant holds.
LEMMA Invariant == Spec => []Inv
BY InitInv, NextInv, PTL DEF Spec

-----------------------------------------------------------------------------
(* The theorems *)

\* Without tables no way goes anywhere.
LEMMA NoWalk ==
  ASSUME NEW h, h = <<>>, NEW g
  PROVE  \A l \in Level : Walk(h, g)[l] = NULL
<1>1. Root(h) = NULL
  BY DEF Root
<1>2. \A i : Entry(h, NULL, i) = NULL
  BY DEF Entry
<1>3. /\ Walk(h, g)[1] = Root(h)
      /\ Walk(h, g)[2] = Entry(h, Walk(h, g)[1], Digit(g, 1))
      /\ Walk(h, g)[3] = Entry(h, Walk(h, g)[2], Digit(g, 2))
      /\ Walk(h, g)[4] = Entry(h, Walk(h, g)[3], Digit(g, 3))
      /\ Walk(h, g)[5] = Entry(h, Walk(h, g)[4], Digit(g, 4))
  BY DEF Walk
<1>4. \A l \in Level : l \in {1, 2, 3, 4, 5}
  BY DEF Level, LEVELS
<1>5. QED
  BY <1>1, <1>2, <1>3, <1>4

\* The way to a page is a list of tables, one for each level, or of NULL.
LEMMA WalkTyped ==
  ASSUME Inv, NEW g \in Pgn
  PROVE  Walk(heap, g) \in [Level -> 0 .. Len(heap)]
<1>1. PICK h : h = heap
  OBVIOUS
<1>2. h = <<>> \/ Tree(h)
  BY <1>1 DEF Inv
<1>3. \A l \in Level : Walk(h, g)[l] \in 0 .. Len(h)
  <2>1. CASE h = <<>>
    <3>1. Len(h) = 0
      BY <2>1
    <3>2. QED
      BY <2>1, <3>1, NoWalk DEF NULL
  <2>2. CASE Tree(h)
    BY <2>2, PagesInUse, WalkSteps DEF Tree
  <2>3. QED
    BY <1>2, <2>1, <2>2
<1>4. DOMAIN Walk(h, g) = Level /\ Walk(h, g) = [l \in Level |-> Walk(h, g)[l]]
  BY DEF Walk, Level, LEVELS
<1>5. QED
  BY <1>1, <1>3, <1>4

\* The ways to two pages and their entries have their types, and the ways part
\* for good where they part: the tables of page_table form a tree whatever
\* allocations failed.
LEMMA InvTree == Inv => TreeShaped
<1> SUFFICES ASSUME Inv PROVE TreeShaped
  OBVIOUS
<1>1. PICK h : h = heap
  OBVIOUS
<1>2. h = <<>> \/ Tree(h)
  BY <1>1 DEF Inv
<1>3. ASSUME NEW g \in Pgn PROVE EntryIn(h, g) \in PteType(Lows)
  <2>1. CASE h = <<>>
    <3>1. Walk(h, g)[5] = NULL
      BY <2>1, NoWalk DEF Level, LEVELS
    <3>2. EntryIn(h, g) = NoPte
      BY <3>1 DEF EntryIn, LEVELS
    <3>3. QED
      BY <3>2, EntriesTyped
  <2>2. CASE Tree(h)
    BY <2>2, PagesInUse, EntryTyped
  <2>3. QED
    BY <1>2, <2>1, <2>2
<1>4. TypeOK
  BY <1>1, <1>3, WalkTyped DEF TypeOK, pte_get_entry
<1>5. ASSUME NEW g1 \in Pgn, NEW g2 \in Pgn, NEW l \in Level, NEW m \in Level,
             Walk(h, g1)[l] # NULL, Walk(h, g1)[l] = Walk(h, g2)[m]
      PROVE  /\ l = m
             /\ \A k \in 1 .. l : Walk(h, g1)[k] = Walk(h, g2)[k]
             /\ (l = LEVELS /\ Digit(g1, l) = Digit(g2, l)) => g1 = g2
  <2>1. Tree(h)
    <3>1. CASE h = <<>>
      BY <1>5, <3>1, NoWalk
    <3>2. QED
      BY <1>2, <3>1
  <2>2. /\ l = m
        /\ \A k \in 1 .. l : Walk(h, g1)[k] = Walk(h, g2)[k]
        /\ \A k \in 1 .. (l - 1) : Digit(g1, k) = Digit(g2, k)
    BY <1>5, <2>1, PagesInUse, Meet
  <2>3. ASSUME l = LEVELS, Digit(g1, l) = Digit(g2, l) PROVE g1 = g2
    <3>1. \A k \in Level : k \in 1 .. (l - 1) \/ k = l
      BY <2>3 DEF Level, LEVELS
    <3>2. \A k \in Level : Digit(g1, k) = Digit(g2, k)
      BY <2>2, <2>3, <3>1
    <3>3. QED
      BY <3>2, PagesInUse, DigitsApart
  <2>4. QED
    BY <2>2, <2>3
<1>6. QED
  BY <1>1, <1>4, <1>5 DEF TreeShaped

\* TreeShaped: whatever pages are set and mapped, in whatever order, and whatever
\* allocations fail on the way, no table has two parents and no entry serves
\* two pages.
THEOREM TreeStays == Spec => []TreeShaped
BY Invariant, InvTree, PTL

\* NeverRelinked: a table once linked on the way to a page stays there until
\* free_mm.
THEOREM LinksStay == Spec => NeverRelinked
<1>1. ASSUME Inv, [Next]_vars, heap' # <<>>, NEW g \in Pgn, NEW l \in Level
      PROVE  Walk(heap, g)[l] \in {NULL, Walk(heap', g)[l]}
  <2>1. Tree(heap)
    BY <1>1, NoTables DEF Inv
  <2>2. CASE Next
    <3>1. Effect(heap, heap')
      BY <1>1, <2>1, <2>2, StepEffect DEF FreeMm
    <3>2. QED
      BY <3>1, PagesInUse DEF Effect, Onward
  <2>3. CASE UNCHANGED vars
    BY <2>3 DEF vars
  <2>4. QED
    BY <1>1, <2>2, <2>3
<1>2. Inv /\ [Next]_vars =>
        [heap' # <<>> =>
           \A g \in Pgn : LET old == Walk(heap, g)
                             new == Walk(heap', g)
                         IN  \A l \in Level : old[l] \in {NULL, new[l]}]_vars
  BY <1>1
<1>3. QED
  BY <1>2, Invariant, PTL DEF Spec, NeverRelinked

-----------------------------------------------------------------------------
(* What free_mm frees *)

\* Entry i of table t leads to table u.
Child(lev, t, u, i) == lev[t] < LEVELS /\ heap[t][i] # NULL /\ heap[t][i] = u

\* A list that has a table only once, and with it, at an earlier place, each one
\* it leads to.
WholeList(lev, s) ==
  /\ s \in Seq(DOMAIN heap)
  /\ \A i, j \in 1 .. Len(s) : s[i] = s[j] => i = j
  /\ \A j \in 1 .. Len(s), u \in DOMAIN heap, e \in Index :
       Child(lev, s[j], u, e) => \E i \in 1 .. Len(s) : i < j /\ s[i] = u

\* below has such a list for each table of level l, which ends with that table;
\* together they have every table of this level or a deeper one, each once.
WholeBelow(lev, l, below) ==
  /\ \A t \in DOMAIN heap : lev[t] = l =>
       /\ WholeList(lev, below[t]) /\ Contains(below[t], t)
       /\ \A x \in DOMAIN heap : Contains(below[t], x) => lev[x] >= l
  /\ \A t, u, x \in DOMAIN heap :
       (lev[t] = l /\ lev[u] = l /\ Contains(below[t], x) /\ Contains(below[u], x)) => t = u
  /\ \A x \in DOMAIN heap :
       lev[x] >= l => \E t \in DOMAIN heap : lev[t] = l /\ Contains(below[t], x)

Apart(s, r) == \A x : ~(Contains(s, x) /\ Contains(r, x))

\* Two such lists without a common table make one.
LEMMA WholeTwice ==
  ASSUME NEW lev, NEW s, NEW r, WholeList(lev, s), WholeList(lev, r), Apart(s, r)
  PROVE  /\ WholeList(lev, s \o r)
         /\ \A x : Contains(s \o r, x) <=> Contains(s, x) \/ Contains(r, x)
<1>1. PICK c : c = s \o r
  OBVIOUS
<1>2. PICK m : m = Len(s)
  OBVIOUS
<1>3. PICK n : n = Len(r)
  OBVIOUS
<1>4. s \in Seq(DOMAIN heap) /\ r \in Seq(DOMAIN heap) /\ m \in Nat /\ n \in Nat
  BY <1>2, <1>3 DEF WholeList
<1>5. /\ c \in Seq(DOMAIN heap) /\ Len(c) = m + n
      /\ \A i \in 1 .. m : i \in 1 .. (m + n) /\ c[i] = s[i]
      /\ \A i \in 1 .. n : i + m \in 1 .. (m + n) /\ c[i + m] = r[i]
  <2>1. /\ c \in Seq(DOMAIN heap) /\ Len(c) = m + n
        /\ \A i \in 1 .. (m + n) : c[i] = IF i <= m THEN s[i] ELSE r[i - m]
    BY <1>1, <1>2, <1>3, <1>4, ConcatProperties
  <2>2. \A i \in 1 .. m : i \in 1 .. (m + n) /\ i <= m
    BY <1>4
  <2>3. \A i \in 1 .. n : i + m \in 1 .. (m + n) /\ ~(i + m <= m) /\ (i + m) - m = i
    BY <1>4
  <2>4. QED
    BY <2>1, <2>2, <2>3
<1>6. \A i \in 1 .. (m + n) : i \in 1 .. m \/ \E k \in 1 .. n : i = k + m
  <2>1. ASSUME NEW i \in 1 .. (m + n), i \notin 1 .. m PROVE \E k \in 1 .. n : i = k + m
    <3>1. i - m \in 1 .. n /\ i = (i - m) + m
      BY <1>4, <2>1
    <3>2. QED
      BY <3>1
  <2>2. QED
    BY <2>1
<1>7. \A x : Contains(c, x) <=> Contains(s, x) \/ Contains(r, x)
  <2>1. ASSUME NEW x, Contains(c, x) PROVE Contains(s, x) \/ Contains(r, x)
    <3>1. PICK i \in 1 .. (m + n) : c[i] = x
      BY <1>5, <2>1 DEF Contains
    <3>2. CASE i \in 1 .. m
      BY <1>2, <1>5, <3>1, <3>2 DEF Contains
    <3>3. CASE \E k \in 1 .. n : i = k + m
      BY <1>3, <1>5, <3>1, <3>3 DEF Contains
    <3>4. QED
      BY <1>6, <3>2, <3>3
  <2>2. ASSUME NEW x, Contains(s, x) PROVE Contains(c, x)
    BY <1>2, <1>5, <2>2 DEF Contains
  <2>3. ASSUME NEW x, Contains(r, x) PROVE Contains(c, x)
    BY <1>3, <1>5, <2>3 DEF Contains
  <2>4. QED
    BY <2>1, <2>2, <2>3
<1>8. ASSUME NEW i \in 1 .. m, NEW j \in 1 .. n PROVE s[i] # r[j]
  BY <1>2, <1>3 DEF Apart, Contains
<1>9. ASSUME NEW i \in 1 .. (m + n), NEW j \in 1 .. (m + n), c[i] = c[j] PROVE i = j
  <2>1. \A a, b \in 1 .. m : s[a] = s[b] => a = b
    BY <1>2 DEF WholeList
  <2>2. \A a, b \in 1 .. n : r[a] = r[b] => a = b
    BY <1>3 DEF WholeList
  <2>3. CASE i \in 1 .. m /\ j \in 1 .. m
    BY <1>5, <1>9, <2>1, <2>3
  <2>4. CASE i \in 1 .. m /\ \E k \in 1 .. n : j = k + m
    BY <1>5, <1>8, <1>9, <2>4
  <2>5. CASE (\E k \in 1 .. n : i = k + m) /\ j \in 1 .. m
    BY <1>5, <1>8, <1>9, <2>5
  <2>6. CASE (\E k \in 1 .. n : i = k + m) /\ (\E k \in 1 .. n : j = k + m)
    BY <1>5, <1>9, <2>2, <2>6
  <2>7. QED
    BY <1>6, <2>3, <2>4, <2>5, <2>6
<1>10. ASSUME NEW j \in 1 .. (m + n), NEW u \in DOMAIN heap, NEW e \in Index,
              Child(lev, c[j], u, e)
       PROVE  \E i \in 1 .. (m + n) : i < j /\ c[i] = u
  <2>1. CASE j \in 1 .. m
    <3>1. Child(lev, s[j], u, e)
      BY <1>5, <1>10, <2>1
    <3>2. PICK i \in 1 .. m : i < j /\ s[i] = u
      BY <1>2, <2>1, <3>1 DEF WholeList
    <3>3. QED
      BY <1>5, <3>2
  <2>2. ASSUME NEW k \in 1 .. n, j = k + m PROVE \E i \in 1 .. (m + n) : i < j /\ c[i] = u
    <3>1. Child(lev, r[k], u, e)
      BY <1>5, <1>10, <2>2
    <3>2. PICK i \in 1 .. n : i < k /\ r[i] = u
      BY <1>3, <3>1 DEF WholeList
    <3>3. i + m \in 1 .. (m + n) /\ c[i + m] = u /\ i + m < j
      BY <1>4, <1>5, <2>2, <3>2
    <3>4. QED
      BY <3>3
  <2>3. QED
    BY <1>6, <2>1, <2>2
<1>11. WholeList(lev, c)
  BY <1>5, <1>9, <1>10 DEF WholeList
<1>12. QED
  BY <1>1, <1>7, <1>11

\* Such a list remains one with a table at its end that was not in it, if those
\* that it leads to were.
LEMMA WholeOneMore ==
  ASSUME NEW lev, NEW s, WholeList(lev, s), NEW t \in DOMAIN heap, ~Contains(s, t),
         \A u \in DOMAIN heap, e \in Index : Child(lev, t, u, e) => Contains(s, u)
  PROVE  /\ WholeList(lev, Append(s, t))
         /\ \A x : Contains(Append(s, t), x) <=> Contains(s, x) \/ x = t
<1>1. PICK c : c = Append(s, t)
  OBVIOUS
<1>2. PICK m : m = Len(s)
  OBVIOUS
<1>3. s \in Seq(DOMAIN heap) /\ m \in Nat
  BY <1>2 DEF WholeList
<1>4. /\ c \in Seq(DOMAIN heap) /\ Len(c) = m + 1
      /\ \A i \in 1 .. m : i \in 1 .. (m + 1) /\ c[i] = s[i] /\ i < m + 1
      /\ m + 1 \in 1 .. (m + 1) /\ c[m + 1] = t
  BY <1>1, <1>2, <1>3, AppendProperties
<1>5. \A i \in 1 .. (m + 1) : i \in 1 .. m \/ i = m + 1
  BY <1>3
<1>6. \A x : Contains(c, x) <=> Contains(s, x) \/ x = t
  BY <1>2, <1>4, <1>5 DEF Contains
<1>7. \A i \in 1 .. m : s[i] # t
  BY <1>2 DEF Contains
<1>8. ASSUME NEW i \in 1 .. (m + 1), NEW j \in 1 .. (m + 1), c[i] = c[j] PROVE i = j
  <2>1. \A a, b \in 1 .. m : s[a] = s[b] => a = b
    BY <1>2 DEF WholeList
  <2>2. QED
    BY <1>4, <1>5, <1>7, <1>8, <2>1
<1>9. ASSUME NEW j \in 1 .. (m + 1), NEW u \in DOMAIN heap, NEW e \in Index,
             Child(lev, c[j], u, e)
      PROVE  \E i \in 1 .. (m + 1) : i < j /\ c[i] = u
  <2>1. CASE j \in 1 .. m
    <3>1. PICK i \in 1 .. m : i < j /\ s[i] = u
      BY <1>2, <1>4, <1>9, <2>1 DEF WholeList
    <3>2. QED
      BY <1>4, <3>1
  <2>2. CASE j = m + 1
    <3>1. PICK i \in 1 .. m : s[i] = u
      BY <1>2, <1>4, <1>9, <2>2 DEF Contains
    <3>2. QED
      BY <1>4, <2>2, <3>1
  <2>3. QED
    BY <1>5, <2>1, <2>2
<1>10. WholeList(lev, c)
  BY <1>4, <1>8, <1>9 DEF WholeList
<1>11. QED
  BY <1>1, <1>6, <1>10

\* The loop over the entries of table t, and what it has freed after k of them.
FreedNext(t, below, list, k) == list \o FreeEntry(t, k - 1, below)
FreedTo(lev, t, below, list, k) ==
  /\ WholeList(lev, list)
  /\ \A x : Contains(list, x) <=>
       \E i \in 0 .. (k - 1) : heap[t][i] # NULL /\ Contains(below[heap[t][i]], x)

\* An entry on it has freed what that one leads to as well.
LEMMA FreedOneMore ==
  ASSUME NEW lev, Levels(heap, lev), NEW t \in DOMAIN heap, lev[t] < LEVELS,
         NEW below, WholeBelow(lev, lev[t] + 1, below),
         NEW k \in 1 .. WIDTH, NEW list, FreedTo(lev, t, below, list, k - 1)
  PROVE  FreedTo(lev, t, below, FreedNext(t, below, list, k), k)
<1>1. PICK i : i = k - 1
  OBVIOUS
<1>2. PICK u : u = heap[t][i]
  OBVIOUS
<1>3. /\ WIDTH \in Nat /\ i \in Index /\ i \in 0 .. (k - 1)
      /\ \A e \in 0 .. (k - 1) : e = i \/ e \in 0 .. ((k - 1) - 1)
      /\ \A e \in 0 .. ((k - 1) - 1) : e \in Index /\ e \in 0 .. (k - 1) /\ e # i
  BY <1>1, TableAssumption DEF Index
<1>4. /\ Len(heap) \in Nat /\ DOMAIN heap = 1 .. Len(heap)
      /\ heap[t] \in [Index -> 0 .. Len(heap)]
      /\ \A e \in Index : heap[t][e] # NULL =>
           heap[t][e] \in DOMAIN heap /\ lev[heap[t][e]] = lev[t] + 1
  <2>1. Len(heap) \in Nat /\ DOMAIN heap = 1 .. Len(heap)
    BY DEF Levels
  <2>2. /\ heap[t] \in [Index -> 0 .. Len(heap)]
        /\ \A e \in Index : heap[t][e] # NULL => lev[heap[t][e]] = lev[t] + 1
    BY <2>1 DEF Levels, Leads
  <2>3. QED
    BY <2>1, <2>2 DEF NULL
<1>5. CASE u = NULL
  <2>1. FreedNext(t, below, list, k) = list
    <3>1. FreeEntry(t, i, below) = <<>>
      BY <1>2, <1>5 DEF FreeEntry
    <3>2. list \o <<>> = list
      BY ConcatEmptySeq DEF FreedTo, WholeList
    <3>3. QED
      BY <1>1, <3>1, <3>2 DEF FreedNext
  <2>2. QED
    BY <1>2, <1>3, <1>5, <2>1 DEF FreedTo
<1>6. CASE u # NULL
  <2>1. u \in DOMAIN heap /\ lev[u] = lev[t] + 1
    BY <1>2, <1>3, <1>4, <1>6
  <2>2. PICK r : r = below[u]
    OBVIOUS
  <2>3. WholeList(lev, r)
    BY <2>1, <2>2 DEF WholeBelow
  <2>4. FreedNext(t, below, list, k) = list \o r
    BY <1>1, <1>2, <1>6, <2>2 DEF FreedNext, FreeEntry
  <2>5. ASSUME NEW x, Contains(list, x), Contains(r, x) PROVE FALSE
    <3>1. PICK e \in 0 .. ((k - 1) - 1) : heap[t][e] # NULL /\ Contains(below[heap[t][e]], x)
      BY <2>5 DEF FreedTo
    <3>2. PICK v : v = heap[t][e]
      OBVIOUS
    <3>3. v \in DOMAIN heap /\ lev[v] = lev[t] + 1 /\ e \in Index /\ e # i
      BY <1>3, <1>4, <3>1, <3>2
    <3>4. x \in DOMAIN heap
      BY <2>3, <2>5 DEF WholeList, Contains
    <3>5. v = u
      BY <2>1, <2>2, <2>5, <3>1, <3>2, <3>3, <3>4 DEF WholeBelow
    <3>6. e = i
      <4>1. LinkedOnce(heap, lev)
        BY DEF Levels
      <4>2. heap[t][e] # NULL /\ heap[t][e] = heap[t][i] /\ t \in 1 .. Len(heap)
        BY <1>2, <1>4, <3>1, <3>2, <3>5
      <4>3. QED
        BY <1>3, <3>3, <4>1, <4>2 DEF LinkedOnce
    <3>7. QED
      BY <3>3, <3>6
  <2>6. /\ WholeList(lev, list \o r)
        /\ \A x : Contains(list \o r, x) <=> Contains(list, x) \/ Contains(r, x)
    BY <2>3, <2>5, WholeTwice DEF FreedTo, Apart
  <2>7. QED
    BY <1>2, <1>3, <1>6, <2>2, <2>4, <2>6 DEF FreedTo
<1>7. QED
  BY <1>5, <1>6

\* What is freed with table t is t, and what is freed below its entries.
LEMMA FreedTable ==
  ASSUME NEW lev, Levels(heap, lev), NEW t \in DOMAIN heap, lev[t] < LEVELS,
         NEW below, WholeBelow(lev, lev[t] + 1, below)
  PROVE  /\ WholeList(lev, FreeTable(t, below))
         /\ \A x : Contains(FreeTable(t, below), x) <=>
              x = t \/ \E u \in DOMAIN heap, i \in Index :
                         Child(lev, t, u, i) /\ Contains(below[u], x)
<1> DEFINE Step(x, k) == FreedNext(t, below, x, k)
           IsUpTo(a, m) == a = [k \in 0 .. m |-> IF k = 0 THEN <<>> ELSE Step(a[k - 1], k)]
           upTo == CHOOSE a : IsUpTo(a, WIDTH)
<1>1. FreeTable(t, below) = Append(upTo[WIDTH], t)
  BY DEF FreeTable, FreedNext
<1> HIDE DEF Step
<1>0. WIDTH \in Nat
  BY TableAssumption
<1>2. \A m \in Nat : \E a : IsUpTo(a, m)
  <2> DEFINE S == {m \in Nat : \E a : IsUpTo(a, m)}
  <2>1. 0 \in S
    <3>1. IsUpTo([k \in 0 .. 0 |-> <<>>], 0)
      OBVIOUS
    <3>2. QED
      BY <3>1
  <2>2. ASSUME NEW m \in S PROVE m + 1 \in S
    <3>1. m \in Nat
      OBVIOUS
    <3>2. PICK a : IsUpTo(a, m)
      OBVIOUS
    <3>3. PICK b : b = [k \in 0 .. (m + 1) |-> IF k = m + 1 THEN Step(a[m], m + 1) ELSE a[k]]
      OBVIOUS
    <3>4. ASSUME NEW k \in 0 .. (m + 1)
          PROVE  b[k] = IF k = 0 THEN <<>> ELSE Step(b[k - 1], k)
      <4>1. CASE k = m + 1
        <5>1. k # 0 /\ k - 1 = m /\ m \in 0 .. (m + 1) /\ m # m + 1
          BY <3>1, <4>1
        <5>2. b[m] = a[m] /\ b[k] = Step(a[m], k)
          BY <3>3, <4>1, <5>1
        <5>3. QED
          BY <5>1, <5>2
      <4>2. CASE k = 0
        <5>1. 0 # m + 1 /\ 0 \in 0 .. m
          BY <3>1
        <5>2. b[k] = a[k] /\ a[k] = <<>>
          BY <3>2, <3>3, <4>2, <5>1
        <5>3. QED
          BY <4>2, <5>2
      <4>3. CASE k # m + 1 /\ k # 0
        <5>1. k \in 0 .. m /\ k - 1 \in 0 .. (m + 1) /\ k - 1 # m + 1
          BY <3>1, <4>3
        <5>2. b[k] = a[k] /\ b[k - 1] = a[k - 1]
          BY <3>3, <4>3, <5>1
        <5>3. a[k] = Step(a[k - 1], k)
          BY <3>2, <4>3, <5>1
        <5>4. QED
          BY <4>3, <5>2, <5>3
      <4>4. QED
        BY <4>1, <4>2, <4>3
    <3>5. IsUpTo(b, m + 1)
      <4>1. b = [k \in 0 .. (m + 1) |-> b[k]]
        BY <3>3
      <4>2. QED
        BY <3>4, <4>1
    <3>6. m + 1 \in Nat
      BY <3>1
    <3>7. QED
      BY <3>5, <3>6
  <2>3. S \in SUBSET Nat
    OBVIOUS
  <2> HIDE DEF S
  <2>4. S = Nat
    BY <2>1, <2>2, <2>3, Naturals
  <2>5. QED
    BY <2>4 DEF S
<1>3. IsUpTo(upTo, WIDTH)
  <2> HIDE DEF IsUpTo
  <2>1. QED
    BY <1>0, <1>2, Zenon
<1>4. /\ upTo[0] = <<>>
      /\ \A k \in 1 .. WIDTH : upTo[k] = FreedNext(t, below, upTo[k - 1], k)
  <2> HIDE DEF upTo
  <2>1. \A k \in 0 .. WIDTH : upTo[k] = IF k = 0 THEN <<>> ELSE Step(upTo[k - 1], k)
    BY <1>3
  <2>2. 0 \in 0 .. WIDTH /\ \A k \in 1 .. WIDTH : k \in 0 .. WIDTH /\ k # 0
    BY <1>0
  <2>3. QED
    BY <2>1, <2>2 DEF Step
<1> HIDE DEF upTo, IsUpTo
<1>5. FreedTo(lev, t, below, <<>>, 0)
  <2>1. WholeList(lev, <<>>)
    BY DEF WholeList
  <2>2. \A i : i \notin 0 .. (0 - 1)
    OBVIOUS
  <2>3. \A x : ~Contains(<<>>, x)
    BY DEF Contains
  <2>4. QED
    BY <2>1, <2>2, <2>3 DEF FreedTo
<1>6. FreedTo(lev, t, below, upTo[WIDTH], WIDTH)
  <2> DEFINE S == {k \in Nat : k <= WIDTH => FreedTo(lev, t, below, upTo[k], k)}
  <2>1. 0 \in S
    BY <1>4, <1>5
  <2>2. ASSUME NEW m \in S PROVE m + 1 \in S
    <3>1. m \in Nat /\ m + 1 \in Nat
      OBVIOUS
    <3>2. CASE m + 1 <= WIDTH
      <4>1. m + 1 \in 1 .. WIDTH /\ (m + 1) - 1 = m /\ m <= WIDTH
        BY <1>0, <3>1, <3>2
      <4>2. FreedTo(lev, t, below, upTo[m], m)
        BY <4>1
      <4>3. PICK k \in 1 .. WIDTH : k = m + 1 /\ k - 1 = m
        BY <4>1
      <4>4. FreedTo(lev, t, below, FreedNext(t, below, upTo[k - 1], k), k)
        BY <4>2, <4>3, FreedOneMore
      <4>5. QED
        BY <1>4, <3>1, <4>3, <4>4
    <3>3. CASE ~(m + 1 <= WIDTH)
      BY <3>1, <3>3
    <3>4. QED
      BY <3>2, <3>3
  <2>3. S \in SUBSET Nat
    OBVIOUS
  <2> HIDE DEF S
  <2>4. S = Nat
    BY <2>1, <2>2, <2>3, Naturals
  <2>5. QED
    BY <1>0, <2>4 DEF S
<1>7. PICK list : list = upTo[WIDTH]
  OBVIOUS
<1>8. /\ WholeList(lev, list)
      /\ \A x : Contains(list, x) <=>
           \E i \in Index : heap[t][i] # NULL /\ Contains(below[heap[t][i]], x)
  BY <1>6, <1>7 DEF FreedTo, Index
<1>9. /\ DOMAIN heap = 1 .. Len(heap) /\ Len(heap) \in Nat
      /\ lev \in [1 .. Len(heap) -> Level]
      /\ \A i \in Index : heap[t][i] # NULL =>
           heap[t][i] \in DOMAIN heap /\ lev[heap[t][i]] = lev[t] + 1
  <2>1. /\ Len(heap) \in Nat /\ DOMAIN heap = 1 .. Len(heap)
        /\ lev \in [1 .. Len(heap) -> Level]
    BY DEF Levels
  <2>2. /\ heap[t] \in [Index -> 0 .. Len(heap)]
        /\ \A i \in Index : heap[t][i] # NULL => lev[heap[t][i]] = lev[t] + 1
    BY <2>1 DEF Levels, Leads
  <2>3. QED
    BY <2>1, <2>2 DEF NULL
<1>10. \A x : Contains(list, x) <=>
         \E u \in DOMAIN heap, i \in Index : Child(lev, t, u, i) /\ Contains(below[u], x)
  BY <1>8, <1>9 DEF Child
<1>11. ~Contains(list, t)
  <2>1. ASSUME NEW u \in DOMAIN heap, NEW i \in Index, Child(lev, t, u, i),
               Contains(below[u], t)
        PROVE  FALSE
    <3>1. lev[u] = lev[t] + 1
      BY <1>9, <2>1 DEF Child
    <3>2. lev[t] >= lev[t] + 1
      BY <2>1, <3>1 DEF WholeBelow
    <3>3. lev[t] \in Nat
      BY <1>9 DEF Level
    <3>4. QED
      BY <3>2, <3>3
  <2>2. QED
    BY <1>10, <2>1
<1>12. \A u \in DOMAIN heap, i \in Index : Child(lev, t, u, i) => Contains(list, u)
  <2>1. ASSUME NEW u \in DOMAIN heap, NEW i \in Index, Child(lev, t, u, i)
        PROVE  Contains(list, u)
    <3>1. lev[u] = lev[t] + 1
      BY <1>9, <2>1 DEF Child
    <3>2. Contains(below[u], u)
      BY <3>1 DEF WholeBelow
    <3>3. QED
      BY <1>10, <2>1, <3>2
  <2>2. QED
    BY <2>1
<1>13. /\ WholeList(lev, Append(list, t))
       /\ \A x : Contains(Append(list, t), x) <=> Contains(list, x) \/ x = t
  BY <1>8, <1>11, <1>12, WholeOneMore
<1>14. QED
  BY <1>1, <1>7, <1>10, <1>13

\* The tables of the last level are freed alone.
LEMMA FreedLast ==
  ASSUME NEW lev, Levels(heap, lev), NEW below,
         \A t \in DOMAIN heap : below[t] = <<t>>
  PROVE  WholeBelow(lev, LEVELS, below)
<1>1. lev \in [1 .. Len(heap) -> Level] /\ DOMAIN heap = 1 .. Len(heap)
  BY DEF Levels
<1>2. \A t \in DOMAIN heap : lev[t] \in Nat /\ lev[t] <= LEVELS
  BY <1>1 DEF Level, LEVELS
<1>3. \A t \in DOMAIN heap : <<t>> \in Seq(DOMAIN heap) /\ Len(<<t>>) = 1 /\ <<t>>[1] = t
  OBVIOUS
<1>4. ASSUME NEW t \in DOMAIN heap PROVE \A x : Contains(<<t>>, x) <=> x = t
  BY <1>3 DEF Contains
<1>5. ASSUME NEW t \in DOMAIN heap, lev[t] = LEVELS PROVE WholeList(lev, <<t>>)
  <2>1. \A j \in 1 .. 1 : j = 1
    OBVIOUS
  <2>2. \A u, e : ~Child(lev, t, u, e)
    BY <1>5 DEF Child, LEVELS
  <2>3. QED
    BY <1>3, <2>1, <2>2 DEF WholeList
<1>6. LEVELS \in Nat
  BY DEF LEVELS
<1>7. \A x \in DOMAIN heap : lev[x] >= LEVELS => lev[x] = LEVELS
  BY <1>2, <1>6
<1>8. QED
  BY <1>4, <1>5, <1>6, <1>7 DEF WholeBelow

\* One loop more frees the tables of one level more.
LEMMA FreedLevel ==
  ASSUME NEW lev, Levels(heap, lev), NEW l \in 1 .. (LEVELS - 1),
         NEW below, WholeBelow(lev, l + 1, below),
         NEW list, \A t \in DOMAIN heap : list[t] = FreeTable(t, below)
  PROVE  WholeBelow(lev, l, list)
<1>1. /\ Len(heap) \in Nat /\ DOMAIN heap = 1 .. Len(heap)
      /\ lev \in [1 .. Len(heap) -> Level] /\ lev[1] = 1
  BY DEF Levels
<1>2. l \in Nat /\ l < LEVELS /\ l >= 1 /\ \A x \in DOMAIN heap : lev[x] \in Nat
  BY <1>1 DEF Level, LEVELS
<1>3. ASSUME NEW t \in DOMAIN heap, lev[t] = l
      PROVE  /\ WholeList(lev, list[t])
             /\ \A x : Contains(list[t], x) <=>
                  x = t \/ \E u \in DOMAIN heap, i \in Index :
                             Child(lev, t, u, i) /\ Contains(below[u], x)
  <2>1. WholeBelow(lev, lev[t] + 1, below) /\ lev[t] < LEVELS
    BY <1>2, <1>3
  <2>2. QED
    BY <2>1, FreedTable
<1>4. ASSUME NEW t \in DOMAIN heap, lev[t] = l,
             NEW u \in DOMAIN heap, NEW i \in Index, Child(lev, t, u, i)
      PROVE  lev[u] = l + 1
  <2>1. Leads(heap, lev)
    BY DEF Levels
  <2>2. QED
    BY <1>1, <1>2, <1>4, <2>1 DEF Leads, Child
<1>5. ASSUME NEW t \in DOMAIN heap, lev[t] = l, NEW x \in DOMAIN heap,
             Contains(list[t], x), x # t
      PROVE  lev[x] >= l + 1
  <2>1. PICK u \in DOMAIN heap, i \in Index : Child(lev, t, u, i) /\ Contains(below[u], x)
    BY <1>3, <1>5
  <2>2. QED
    BY <1>4, <1>5, <2>1 DEF WholeBelow
<1>6. ASSUME NEW t \in DOMAIN heap, lev[t] = l
      PROVE  /\ WholeList(lev, list[t]) /\ Contains(list[t], t)
             /\ \A x \in DOMAIN heap : Contains(list[t], x) => lev[x] >= l
  BY <1>2, <1>3, <1>5, <1>6
<1>7. ASSUME NEW t \in DOMAIN heap, NEW u \in DOMAIN heap, NEW x \in DOMAIN heap,
             lev[t] = l, lev[u] = l, Contains(list[t], x), Contains(list[u], x)
      PROVE  t = u
  <2>1. CASE x = t \/ x = u
    <3>1. lev[x] = l
      BY <1>7, <2>1
    <3>2. x = t /\ x = u
      BY <1>2, <1>5, <1>7, <3>1
    <3>3. QED
      BY <3>2
  <2>2. CASE x # t /\ x # u
    <3>1. PICK v \in DOMAIN heap, i \in Index : Child(lev, t, v, i) /\ Contains(below[v], x)
      BY <1>3, <1>7, <2>2
    <3>2. PICK w \in DOMAIN heap, j \in Index : Child(lev, u, w, j) /\ Contains(below[w], x)
      BY <1>3, <1>7, <2>2
    <3>3. lev[v] = l + 1 /\ lev[w] = l + 1
      BY <1>4, <1>7, <3>1, <3>2
    <3>4. v = w
      BY <3>1, <3>2, <3>3 DEF WholeBelow
    <3>5. LinkedOnce(heap, lev)
      BY DEF Levels
    <3>6. QED
      BY <1>1, <3>1, <3>2, <3>4, <3>5 DEF LinkedOnce, Child
  <2>3. QED
    BY <2>1, <2>2
<1>8. ASSUME NEW x \in DOMAIN heap, lev[x] >= l
      PROVE  \E t \in DOMAIN heap : lev[t] = l /\ Contains(list[t], x)
  <2>1. CASE lev[x] = l
    BY <1>6, <2>1
  <2>2. CASE lev[x] >= l + 1
    <3>1. PICK u \in DOMAIN heap : lev[u] = l + 1 /\ Contains(below[u], x)
      BY <2>2 DEF WholeBelow
    <3>2. u \in 2 .. Len(heap)
      <4>1. u # 1
        BY <1>1, <1>2, <3>1
      <4>2. QED
        BY <1>1, <4>1
    <3>3. Reached(heap, lev) /\ Leads(heap, lev)
      BY DEF Levels
    <3>4. PICK t \in 1 .. Len(heap), i \in Index : lev[t] < LEVELS /\ heap[t][i] = u
      BY <3>2, <3>3 DEF Reached
    <3>5. u # NULL
      BY <3>2 DEF NULL
    <3>6. Child(lev, t, u, i)
      BY <3>4, <3>5 DEF Child
    <3>7. lev[u] = lev[t] + 1
      BY <3>3, <3>4, <3>5 DEF Leads
    <3>8. t \in DOMAIN heap /\ lev[t] = l
      BY <1>1, <1>2, <3>1, <3>4, <3>7
    <3>9. QED
      BY <1>3, <3>1, <3>6, <3>8
  <2>3. QED
    BY <1>2, <1>8, <2>1, <2>2
<1>9. QED
  BY <1>6, <1>7, <1>8 DEF WholeBelow

\* What free_mm frees: every table, once, after those it leads to.
LEMMA FreedAll ==
  ASSUME NEW lev, Levels(heap, lev)
  PROVE  WholeList(lev, FreeBelow) /\ \A x \in DOMAIN heap : Contains(FreeBelow, x)
<1>1. PICK pt : pt = [t \in DOMAIN heap |-> <<t>>]
  OBVIOUS
<1>2. PICK pmd : pmd = [t \in DOMAIN heap |-> FreeTable(t, pt)]
  OBVIOUS
<1>3. PICK pud : pud = [t \in DOMAIN heap |-> FreeTable(t, pmd)]
  OBVIOUS
<1>4. PICK p4d : p4d = [t \in DOMAIN heap |-> FreeTable(t, pud)]
  OBVIOUS
<1>5. PICK pgd : pgd = [t \in DOMAIN heap |-> FreeTable(t, p4d)]
  OBVIOUS
<1>6. FreeBelow = pgd[1]
  BY <1>1, <1>2, <1>3, <1>4, <1>5 DEF FreeBelow
<1>7. WholeBelow(lev, 5, pt)
  BY <1>1, FreedLast DEF LEVELS
<1>8. 1 \in 1 .. (LEVELS - 1) /\ 2 \in 1 .. (LEVELS - 1) /\ 3 \in 1 .. (LEVELS - 1)
      /\ 4 \in 1 .. (LEVELS - 1)
  BY DEF LEVELS
<1>9. WholeBelow(lev, 4, pmd)
  <2>1. \A t \in DOMAIN heap : pmd[t] = FreeTable(t, pt)
    BY <1>2
  <2>2. WholeBelow(lev, 4 + 1, pt)
    BY <1>7
  <2>3. QED
    BY <1>8, <2>1, <2>2, FreedLevel
<1>10. WholeBelow(lev, 3, pud)
  <2>1. \A t \in DOMAIN heap : pud[t] = FreeTable(t, pmd)
    BY <1>3
  <2>2. WholeBelow(lev, 3 + 1, pmd)
    BY <1>9
  <2>3. QED
    BY <1>8, <2>1, <2>2, FreedLevel
<1>11. WholeBelow(lev, 2, p4d)
  <2>1. \A t \in DOMAIN heap : p4d[t] = FreeTable(t, pud)
    BY <1>4
  <2>2. WholeBelow(lev, 2 + 1, pud)
    BY <1>10
  <2>3. QED
    BY <1>8, <2>1, <2>2, FreedLevel
<1>12. WholeBelow(lev, 1, pgd)
  <2>1. \A t \in DOMAIN heap : pgd[t] = FreeTable(t, p4d)
    BY <1>5
  <2>2. WholeBelow(lev, 1 + 1, p4d)
    BY <1>11
  <2>3. QED
    BY <1>8, <2>1, <2>2, FreedLevel
<1>13. /\ DOMAIN heap = 1 .. Len(heap) /\ 1 \in DOMAIN heap /\ lev[1] = 1
       /\ Leads(heap, lev) /\ Reached(heap, lev)
       /\ \A x \in DOMAIN heap : lev[x] \in Nat /\ lev[x] >= 1
  BY DEF Levels, Level, LEVELS
<1>14. \A t \in DOMAIN heap : lev[t] = 1 => t = 1
  <2>1. ASSUME NEW u \in 2 .. Len(heap), lev[u] = 1 PROVE FALSE
    <3>1. PICK t \in 1 .. Len(heap), i \in Index : lev[t] < LEVELS /\ heap[t][i] = u
      BY <1>13 DEF Reached
    <3>2. lev[u] = lev[t] + 1
      BY <1>13, <3>1 DEF Leads, NULL
    <3>3. QED
      BY <1>13, <2>1, <3>1, <3>2
  <2>2. QED
    BY <1>13, <2>1
<1>15. QED
  BY <1>6, <1>12, <1>13, <1>14 DEF WholeBelow

\* EachFreedOnce: free_mm frees every table once and after those it leads to, also
\* those that only a call which failed halfway has left behind.
THEOREM FreedWhole == Spec => EachFreedOnce
<1> DEFINE Freed ==
      /\ IsInjective(freed')
      /\ ToSet(freed') = DOMAIN heap
      /\ \A g \in Pgn : LET way == Walk(heap, g) IN
           \A l \in Level \ {1}, i, j \in DOMAIN freed' :
             freed'[i] = way[l] /\ freed'[j] = way[l - 1] => i < j
<1>1. ASSUME Inv, [Next]_vars, heap # <<>>, heap' = <<>> PROVE Freed
  <2>1. PICK lev : Levels(heap, lev)
    BY <1>1 DEF Inv, Tree
  <2>2. FreeMm
    <3>1. Tree(heap)
      BY <2>1 DEF Tree
    <3>2. Next
      BY <1>1 DEF vars
    <3>3. ~Tree(heap')
      BY <1>1 DEF Tree, Levels
    <3>4. ~Effect(heap, heap')
      BY <3>3 DEF Effect
    <3>5. QED
      BY <3>1, <3>2, <3>4, StepEffect
  <2>3. PICK s : s = freed'
    OBVIOUS
  <2>4. WholeList(lev, s) /\ \A x \in DOMAIN heap : Contains(s, x)
    BY <1>1, <2>1, <2>2, <2>3, FreedAll DEF FreeMm
  <2>5. /\ s \in Seq(DOMAIN heap) /\ DOMAIN s = 1 .. Len(s) /\ Len(s) \in Nat
        /\ \A i \in 1 .. Len(s) : s[i] \in DOMAIN heap
        /\ \A i, j \in 1 .. Len(s) : s[i] = s[j] => i = j
    BY <2>4 DEF WholeList
  <2>6. IsInjective(s)
    BY <2>5 DEF IsInjective
  <2>7. ToSet(s) = DOMAIN heap
    <3>1. \A x : x \in ToSet(s) <=> \E i \in 1 .. Len(s) : s[i] = x
      BY <2>5 DEF ToSet
    <3>2. \A x : x \in ToSet(s) <=> x \in DOMAIN heap
      BY <2>4, <2>5, <3>1 DEF Contains
    <3>3. QED
      BY <3>2
  <2>8. ASSUME NEW g \in Pgn, NEW l \in Level \ {1},
               NEW i \in 1 .. Len(s), NEW j \in 1 .. Len(s),
               s[i] = Walk(heap, g)[l], s[j] = Walk(heap, g)[l - 1]
        PROVE  i < j
    <3>1. PICK k \in 1 .. 4 : l = k + 1 /\ l - 1 = k
      <4>1. l - 1 \in 1 .. 4 /\ l = (l - 1) + 1
        BY DEF Level, LEVELS
      <4>2. QED
        BY <4>1
    <3>2. Walk(heap, g)[k + 1] # NULL
      <4>1. s[i] \in 1 .. Len(heap)
        BY <2>1, <2>5 DEF Levels
      <4>2. QED
        BY <2>8, <3>1, <4>1 DEF NULL
    <3>3. OnTheWay(heap, lev, g, k)
      BY <2>1, <3>2, PagesInUse, WayOn
    <3>4. Child(lev, s[j], s[i], Digit(g, k)) /\ Digit(g, k) \in Index
      BY <2>8, <3>1, <3>2, <3>3 DEF OnTheWay, Child
    <3>5. PICK e \in 1 .. Len(s) : e < j /\ s[e] = s[i]
      BY <2>4, <2>5, <3>4 DEF WholeList
    <3>6. QED
      BY <2>5, <3>5
  <2>9. QED
    BY <2>3, <2>5, <2>6, <2>7, <2>8
<1>2. Inv /\ [Next]_vars => [heap # <<>> /\ heap' = <<>> => Freed]_vars
  BY <1>1
<1>3. QED
  BY <1>2, Invariant, PTL DEF Spec, EachFreedOnce

-----------------------------------------------------------------------------
(* The refinement of FlatPageTable *)

FlatPgd(h) == [g \in Pgn |-> EntryIn(h, g)]

\* The setters of entries are the same.
LEMMA SameSetters ==
  \A e, x : /\ Flat!pte_set_fpn(e, x) = pte_set_fpn(e, x)
            /\ Flat!pte_set_swap(e, x) = pte_set_swap(e, x)
            /\ Flat!NoPte = NoPte
BY DEF Flat!pte_set_fpn, pte_set_fpn, Flat!pte_set_swap, pte_set_swap, Flat!NoPte, NoPte

\* An effect on the tree is a step of the array, or none.
LEMMA EffectFlat ==
  ASSUME NEW h2, h2 = heap', Effect(heap, h2)
  PROVE  Flat!Next \/ FlatPgd(h2) = FlatPgd(heap)
<1>1. PICK h, f, f2 : h = heap /\ f = FlatPgd(h) /\ f2 = FlatPgd(h2)
  OBVIOUS
<1>2. /\ f = [g \in Pgn |-> EntryIn(h, g)] /\ f2 = [g \in Pgn |-> EntryIn(h2, g)]
      /\ f = [g \in Pgn |-> pte_get_entry(g)] /\ f2 = [g \in Pgn |-> pte_get_entry(g)]'
  BY <1>1 DEF FlatPgd, pte_get_entry
<1>3. ASSUME NEW g \in Pgn, NEW pte, SetOne(h, h2, g, pte)
      PROVE  f2 = [f EXCEPT ![g] = pte] /\ f2[g] = pte
  <2>1. \A q \in Pgn \ {g} : EntryIn(h2, q) = EntryIn(h, q)
    BY <1>3, PagesInUse DEF SetOne, Same
  <2>2. EntryIn(h2, g) = pte
    BY <1>3 DEF SetOne
  <2>3. QED
    BY <1>2, <2>1, <2>2
<1>4. CASE \E g \in Pgn, off \in Swpoff : SetOne(h, h2, g, pte_set_swap(EntryIn(h, g), off))
  <2>1. PICK g \in Pgn, off \in Swpoff : SetOne(h, h2, g, pte_set_swap(EntryIn(h, g), off))
    BY <1>4
  <2>2. f[g] = EntryIn(h, g)
    BY <1>2
  <2>3. Flat!SetSwap(g, off)
    BY <1>2, <1>3, <2>1, <2>2, SameSetters DEF Flat!SetSwap, Flat!pte_set_entry
  <2>4. QED
    BY <2>3 DEF Flat!Next
<1>5. CASE \E g \in Pgn : SetOne(h, h2, g, [EntryIn(h, g) EXCEPT !.dirty = TRUE])
  <2>1. PICK g \in Pgn : SetOne(h, h2, g, [EntryIn(h, g) EXCEPT !.dirty = TRUE])
    BY <1>5
  <2>2. f[g] = EntryIn(h, g)
    BY <1>2
  <2>3. Flat!SetDirty(g)
    BY <1>2, <1>3, <2>1, <2>2 DEF Flat!SetDirty, Flat!pte_set_entry, Flat!pte_get_entry
  <2>4. QED
    BY <2>3 DEF Flat!Next
<1>6. ASSUME NEW g \in Pgn, NEW n \in {1} \cup UNION {1 .. k : k \in Ranges}
      PROVE  /\ g \in Nat /\ n \in Nat \ {0} /\ n \in Flat!Lengths
             /\ g \in g .. (g + n - 1) /\ g - g + 1 = 1
  <2>1. \A k \in Ranges : k \in Nat
    BY TableAssumption
  <2>2. n \in Nat \ {0} /\ g \in Nat
    BY <2>1, PagesInUse
  <2>3. QED
    BY <2>2 DEF Flat!Lengths
<1>7. ASSUME NEW g \in Pgn, NEW n \in {1} \cup UNION {1 .. k : k \in Ranges},
             NEW frames \in [1 .. n -> Fpn], MapTo(h, h2, g, frames, n)
      PROVE  Flat!Next
  <2>1. Len(frames) = n
    BY <1>6
  <2>2. f2 = [q \in Pgn |-> IF q \in g .. (g + n - 1)
                            THEN pte_set_fpn(f[q], frames[q - g + 1]) ELSE f[q]]
    <3>1. ASSUME NEW q \in Pgn
          PROVE  EntryIn(h2, q) = IF q \in g .. (g + n - 1)
                                  THEN pte_set_fpn(f[q], frames[q - g + 1]) ELSE f[q]
      <4>1. f[q] = EntryIn(h, q) /\ q \in PageNumber
        BY <1>2, PagesInUse
      <4>2. QED
        BY <1>7, <4>1 DEF MapTo
    <3>2. QED
      BY <1>2, <3>1
  <2>3. f2[g] = pte_set_fpn(f[g], frames[1])
    BY <1>6, <2>2
  <2>4. Flat!MapRange(g, frames)
    BY <1>2, <2>1, <2>2, <2>3, SameSetters DEF Flat!MapRange
  <2>5. QED
    BY <1>6, <2>4 DEF Flat!Next
<1>8. ASSUME NEW g \in Pgn, NEW n \in {1} \cup UNION {1 .. k : k \in Ranges},
             ClearTo(h, h2, g, n)
      PROVE  Flat!Next
  <2>1. f2 = [q \in Pgn |-> IF q \in g .. (g + n - 1) THEN NoPte ELSE f[q]]
    <3>1. ASSUME NEW q \in Pgn
          PROVE  EntryIn(h2, q) = IF q \in g .. (g + n - 1) THEN NoPte ELSE f[q]
      <4>1. f[q] = EntryIn(h, q) /\ q \in PageNumber
        BY <1>2, PagesInUse
      <4>2. QED
        BY <1>8, <4>1 DEF ClearTo
    <3>2. QED
      BY <1>2, <3>1
  <2>2. f2[g] = NoPte
    BY <1>6, <2>1
  <2>3. Flat!ClearRange(g, n)
    BY <1>2, <2>1, <2>2, SameSetters DEF Flat!ClearRange
  <2>4. QED
    BY <1>6, <2>3 DEF Flat!Next
<1>9. CASE \A q \in PageNumber : Same(h, h2, q)
  <2>1. f2 = f
    BY <1>2, <1>9, PagesInUse DEF Same
  <2>2. QED
    BY <1>1, <2>1
<1>10. QED
  BY <1>1, <1>4, <1>5, <1>7, <1>8, <1>9 DEF Effect

\* Where there are no tables, no page has an entry.
LEMMA NoEntries ==
  ASSUME NEW h, h = <<>>, NEW g
  PROVE  EntryIn(h, g) = NoPte
<1>1. 5 \in Level /\ LEVELS = 5
  BY DEF Level, LEVELS
<1>2. Walk(h, g)[5] = NULL
  BY <1>1, NoWalk
<1>3. QED
  BY <1>1, <1>2 DEF EntryIn

\* The root alone has none either.
LEMMA FirstEntries ==
  ASSUME NEW h, h = <<Table(1)>>, NEW g \in Nat
  PROVE  EntryIn(h, g) = NoPte
<1>1. \A i \in Index : h[1][i] = NULL
  BY DEF Table, LEVELS
<1>2. Root(h) = 1
  BY DEF Root
<1>3. Digit(g, 1) \in Index
  BY DigitIndex DEF Level, LEVELS
<1>4. /\ Walk(h, g)[1] = Root(h)
      /\ Walk(h, g)[2] = Entry(h, Walk(h, g)[1], Digit(g, 1))
      /\ Walk(h, g)[3] = Entry(h, Walk(h, g)[2], Digit(g, 2))
      /\ Walk(h, g)[4] = Entry(h, Walk(h, g)[3], Digit(g, 3))
      /\ Walk(h, g)[5] = Entry(h, Walk(h, g)[4], Digit(g, 4))
  BY DEF Walk
<1>5. \A i : Entry(h, NULL, i) = NULL
  BY DEF Entry
<1>6. Walk(h, g)[2] = NULL
  BY <1>1, <1>2, <1>3, <1>4 DEF Entry
<1>7. Walk(h, g)[5] = NULL
  BY <1>4, <1>5, <1>6
<1>8. QED
  BY <1>7 DEF EntryIn, LEVELS

\* ImplementsFlat: the tree of tables does for every page what an array would.
THEOREM TreeIsFlat == Spec => ImplementsFlat
<1>1. Init => Flat!Init
  <2> SUFFICES ASSUME Init PROVE Flat!Init
    OBVIOUS
  <2>1. ASSUME NEW g \in Pgn PROVE pte_get_entry(g) = NoPte
    BY PagesInUse, FirstEntries DEF Init, pte_get_entry
  <2>2. QED
    BY <2>1, SameSetters DEF Flat!Init
<1>2. Inv /\ [Next]_vars => [Flat!Next]_([g \in Pgn |-> pte_get_entry(g)])
  <2> SUFFICES ASSUME Inv, [Next]_vars
               PROVE  Flat!Next \/ UNCHANGED [g \in Pgn |-> pte_get_entry(g)]
    OBVIOUS
  <2>1. PICK h2 : h2 = heap'
    OBVIOUS
  <2>2. ASSUME FlatPgd(h2) = FlatPgd(heap)
        PROVE  UNCHANGED [g \in Pgn |-> pte_get_entry(g)]
    BY <2>1, <2>2 DEF FlatPgd, pte_get_entry
  <2>3. CASE heap = <<>>
    <3>1. h2 = heap
      BY <2>1, <2>3, NoTables
    <3>2. QED
      BY <2>2, <3>1
  <2>4. CASE UNCHANGED vars
    <3>1. h2 = heap
      BY <2>1, <2>4 DEF vars
    <3>2. QED
      BY <2>2, <3>1
  <2>5. CASE Tree(heap) /\ Next
    <3>1. CASE Effect(heap, h2)
      BY <2>1, <2>2, <3>1, EffectFlat
    <3>2. CASE h2 = <<>>
      <4>1. [g \in Pgn |-> pte_get_entry(g)]' = [g \in Pgn |-> NoPte]
        BY <2>1, <3>2, NoEntries DEF pte_get_entry
      <4>2. Flat!FreeMm
        BY <4>1, SameSetters DEF Flat!FreeMm
      <4>3. QED
        BY <4>2 DEF Flat!Next
    <3>3. QED
      BY <2>1, <2>5, <3>1, <3>2, StepEffect DEF FreeMm
  <2>6. QED
    BY <2>3, <2>4, <2>5 DEF Inv
<1>3. QED
  BY <1>1, <1>2, Invariant, PTL DEF Spec, ImplementsFlat, Flat!Spec
=============================================================================
