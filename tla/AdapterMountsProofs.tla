------------------------- MODULE AdapterMountsProofs -------------------------
(***************************************************************************)
(* AdapterMounts implements AdapterTable for any prefixes, adapters,       *)
(* defaults and URLs.  What makes the first match the longest one is the   *)
(* order of the dict (Ordered), which mount has to restore each time.      *)
(***************************************************************************)
EXTENDS AdapterMounts, SequenceFolds

USE MountAssumption

-----------------------------------------------------------------------------
(* Tables: what mount leaves behind.                                       *)

Entries == [prefix : Keys, adapter : Adapters]

\* No prefix twice.
Distinct(items) ==
    \A i, j \in DOMAIN items : items[i].prefix = items[j].prefix => i = j

\* No prefix is longer than one before it.
Ordered(items) ==
    \A i, j \in DOMAIN items : i < j => Len(items[j].prefix) <= Len(items[i].prefix)

Tables == {items \in Seq(Entries) : Distinct(items) /\ Ordered(items)}

\* AdapterOf for any items.
AdapterIn(items, p) ==
    IF Has(items, p)
    THEN LET i == CHOOSE i \in DOMAIN items : items[i].prefix = p
         IN  items[i].adapter
    ELSE Missing

LEMMA EntryParts ==
  ASSUME NEW items \in Seq(Entries), NEW i \in DOMAIN items
  PROVE  /\ items[i].prefix \in Keys /\ items[i].adapter \in Adapters
         /\ Len(items[i].prefix) \in Nat
  <1>1. items[i] \in Entries
    OBVIOUS
  <1>2. items[i].prefix \in Keys /\ items[i].adapter \in Adapters
    BY <1>1 DEF Entries
  <1>. QED  BY <1>2

LEMMA AdapterAt ==
  ASSUME NEW items, Distinct(items), NEW i \in DOMAIN items
  PROVE  AdapterIn(items, items[i].prefix) = items[i].adapter
  BY DEF AdapterIn, Has, Distinct

LEMMA NoAdapterAt ==
  ASSUME NEW items \in Seq(Entries), NEW p
  PROVE  AdapterIn(items, p) = Missing <=> ~Has(items, p)
  <1>1. CASE Has(items, p)
    <2>1. PICK i \in DOMAIN items : items[i].prefix = p
      BY <1>1 DEF Has
    <2> DEFINE k == CHOOSE k \in DOMAIN items : items[k].prefix = p
    <2>2. k \in DOMAIN items
      BY <2>1
    <2>. HIDE DEF k
    <2>3. items[k].adapter \in Adapters
      BY <2>2, EntryParts
    <2>4. AdapterIn(items, p) = items[k].adapter
      BY <1>1 DEF AdapterIn, k
    <2>. QED  BY <1>1, <2>3, <2>4
  <1>2. CASE ~Has(items, p)
    BY <1>2 DEF AdapterIn
  <1>. QED  BY <1>1, <1>2

-----------------------------------------------------------------------------
(* mount.                                                                  *)

\* The dict after d[prefix] = adapter: only the prefix may be out of order.
LEMMA AssignTable ==
  ASSUME NEW items \in Tables, NEW p \in Keys, NEW adapter \in Adapters
  PROVE  LET set == Assign(items, p, adapter)
         IN  /\ set \in Seq(Entries) /\ Distinct(set)
             /\ \A i, j \in DOMAIN set : i < j =>
                   set[j].prefix = p \/ Len(set[j].prefix) <= Len(set[i].prefix)
             /\ \A q \in Keys : AdapterIn(set, q)
                   = IF q = p THEN adapter ELSE AdapterIn(items, q)
  <1> DEFINE set  == Assign(items, p, adapter)
             item == [prefix |-> p, adapter |-> adapter]
  <1>0. items \in Seq(Entries) /\ Distinct(items) /\ Ordered(items)
    BY DEF Tables
  <1>1. item \in Entries /\ item.prefix = p /\ item.adapter = adapter
    BY DEF Entries
  <1>2. CASE Has(items, p)
    <2>1. set = [i \in DOMAIN items |->
                    IF items[i].prefix = p THEN [items[i] EXCEPT !.adapter = adapter]
                                           ELSE items[i]]
      BY <1>2 DEF Assign
    <2>2. ASSUME NEW i \in DOMAIN items
          PROVE  /\ set[i] \in Entries /\ set[i].prefix = items[i].prefix
                 /\ set[i].adapter = IF items[i].prefix = p THEN adapter
                                                            ELSE items[i].adapter
      <3>1. items[i] \in Entries
        BY <1>0
      <3>. QED  BY <2>1, <3>1 DEF Entries
    <2>3. set \in Seq(Entries) /\ DOMAIN set = DOMAIN items
      <3>1. DOMAIN items = 1..Len(items) /\ Len(items) \in Nat
        BY <1>0
      <3>2. set \in [1..Len(items) -> Entries]
        <4>. HIDE DEF set
        <4>1. set = [i \in DOMAIN items |-> set[i]]
          BY <2>1
        <4>. QED  BY <2>2, <3>1, <4>1
      <3>. HIDE DEF set
      <3>. QED  BY <3>1, <3>2, SMTT(60)
    <2>. HIDE DEF set
    <2>4. Distinct(set)
      BY <1>0, <2>2, <2>3 DEF Distinct
    <2>5. \A i, j \in DOMAIN set : i < j => Len(set[j].prefix) <= Len(set[i].prefix)
      BY <1>0, <2>2, <2>3 DEF Ordered
    <2>6. ASSUME NEW q \in Keys
          PROVE  AdapterIn(set, q) = IF q = p THEN adapter ELSE AdapterIn(items, q)
      <3>1. CASE Has(items, q)
        <4>1. PICK i \in DOMAIN items : items[i].prefix = q
          BY <3>1 DEF Has
        <4>2. AdapterIn(items, q) = items[i].adapter /\ AdapterIn(set, q) = set[i].adapter
          BY <1>0, <2>2, <2>3, <2>4, <4>1, AdapterAt
        <4>. QED  BY <2>2, <4>1, <4>2
      <3>2. CASE ~Has(items, q)
        <4>1. q # p /\ ~Has(set, q)
          BY <1>2, <2>2, <2>3, <3>2 DEF Has
        <4>. QED  BY <3>2, <4>1 DEF AdapterIn
      <3>. QED  BY <3>1, <3>2
    <2>. QED  BY <2>3, <2>4, <2>5, <2>6 DEF set
  <1>3. CASE ~Has(items, p)
    <2>1. set = Append(items, item)
      BY <1>3 DEF Assign
    <2>. HIDE DEF set, item
    <2>2. /\ set \in Seq(Entries) /\ DOMAIN set = DOMAIN items \cup {Len(items) + 1}
          /\ DOMAIN items = 1..Len(items) /\ Len(items) \in Nat
          /\ \A i \in DOMAIN items : set[i] = items[i] /\ i < Len(items) + 1
          /\ set[Len(items) + 1] = item
      BY <1>0, <1>1, <2>1
    <2>3. \A i \in DOMAIN items : items[i].prefix # p
      BY <1>3 DEF Has
    <2>4. Distinct(set)
      BY <1>0, <1>1, <2>2, <2>3 DEF Distinct
    <2>5. ASSUME NEW i \in DOMAIN set, NEW j \in DOMAIN set, i < j
          PROVE  set[j].prefix = p \/ Len(set[j].prefix) <= Len(set[i].prefix)
      <3>1. CASE j = Len(items) + 1
        BY <1>1, <2>2, <3>1
      <3>2. CASE j \in DOMAIN items
        <4>1. i \in DOMAIN items
          BY <2>2, <2>5, <3>2
        <4>. QED  BY <1>0, <2>2, <2>5, <3>2, <4>1 DEF Ordered
      <3>. QED  BY <2>2, <3>1, <3>2
    <2>6. ASSUME NEW q \in Keys
          PROVE  AdapterIn(set, q) = IF q = p THEN adapter ELSE AdapterIn(items, q)
      <3>1. CASE q = p
        <4>1. Len(items) + 1 \in DOMAIN set
          BY <2>2
        <4>. QED  BY <1>1, <2>2, <2>4, <3>1, <4>1, AdapterAt
      <3>2. CASE q # p /\ Has(items, q)
        <4>1. PICK i \in DOMAIN items : items[i].prefix = q
          BY <3>2 DEF Has
        <4>2. AdapterIn(items, q) = items[i].adapter /\ AdapterIn(set, q) = set[i].adapter
          BY <1>0, <2>2, <2>4, <4>1, AdapterAt
        <4>. QED  BY <2>2, <3>2, <4>1, <4>2
      <3>3. CASE q # p /\ ~Has(items, q)
        <4>1. ~Has(set, q)
          BY <1>1, <2>2, <3>3 DEF Has
        <4>. QED  BY <3>3, <4>1 DEF AdapterIn
      <3>. QED  BY <3>1, <3>2, <3>3
    <2>. QED  BY <2>2, <2>4, <2>5, <2>6 DEF set
  <1>. QED  BY <1>2, <1>3

\* Two dicts with the same items read the same.
LEMMA SameItemsRead ==
  ASSUME NEW s \in Seq(Entries), NEW t \in Seq(Entries), Distinct(s), Distinct(t),
         ToSet(s) = ToSet(t), NEW q
  PROVE  AdapterIn(s, q) = AdapterIn(t, q)
  <1>1. \A i \in DOMAIN s : \E j \in DOMAIN t : t[j] = s[i]
    BY DEF ToSet
  <1>2. \A j \in DOMAIN t : \E i \in DOMAIN s : t[j] = s[i]
    BY DEF ToSet
  <1>3. CASE Has(s, q)
    <2>1. PICK i \in DOMAIN s : s[i].prefix = q
      BY <1>3 DEF Has
    <2>2. PICK j \in DOMAIN t : t[j] = s[i]
      BY <1>1
    <2>. QED  BY <2>1, <2>2, AdapterAt
  <1>4. CASE ~Has(s, q)
    <2>1. ~Has(t, q)
      BY <1>2, <1>4 DEF Has
    <2>. QED  BY <1>4, <2>1 DEF AdapterIn
  <1>. QED  BY <1>3, <1>4

\* mount leaves a table that differs from the last in the prefix alone.
LEMMA MountedTable ==
  ASSUME NEW items \in Tables, NEW p \in Keys, NEW adapter \in Adapters
  PROVE  /\ Mounted(items, p, adapter) \in Tables
         /\ \A q \in Keys : AdapterIn(Mounted(items, p, adapter), q)
               = IF q = p THEN adapter ELSE AdapterIn(items, q)
  <1> DEFINE set     == Assign(items, p, adapter)
             shorter == {item \in ToSet(set) : Len(item.prefix) < Len(p)}
             stays   == ToSet(set) \ shorter
             front   == Filter(set, stays)
             back    == Filter(set, shorter)
             new     == front \o back
             m       == Len(front)
  <1>1. /\ set \in Seq(Entries) /\ Distinct(set)
        /\ \A i, j \in DOMAIN set : i < j =>
              set[j].prefix = p \/ Len(set[j].prefix) <= Len(set[i].prefix)
        /\ \A q \in Keys : AdapterIn(set, q)
              = IF q = p THEN adapter ELSE AdapterIn(items, q)
    BY AssignTable
  <1>2. new = Mounted(items, p, adapter)
    BY DEF Mounted
  <1>. HIDE DEF set
  <1>3. /\ DOMAIN set = 1..Len(set) /\ Len(p) \in Nat
        /\ \A i \in DOMAIN set : Len(set[i].prefix) \in Nat
    BY <1>1, EntryParts
  <1>4. /\ \A i \in DOMAIN set : set[i] \in shorter <=> Len(set[i].prefix) < Len(p)
        /\ \A i \in DOMAIN set : set[i] \in stays <=> ~(Len(set[i].prefix) < Len(p))
    BY DEF ToSet
  <1>. HIDE DEF shorter, stays
  <1>5. front \in Seq(Entries) /\ \E at : Selects(at, front, set, Len(set), stays)
    BY <1>1, FilterSelects
  <1>6. back \in Seq(Entries) /\ \E at : Selects(at, back, set, Len(set), shorter)
    BY <1>1, FilterSelects
  <1>. HIDE DEF front, back
  <1>7. PICK fat : Selects(fat, front, set, Len(set), stays)
    BY <1>5
  <1>8. PICK bat : Selects(bat, back, set, Len(set), shorter)
    BY <1>6
  <1>9. /\ m \in Nat /\ Len(back) \in Nat
        /\ new \in Seq(Entries) /\ DOMAIN new = 1..(m + Len(back))
        /\ \A i \in 1..m : new[i] = front[i]
        /\ \A i \in 1..Len(back) : new[m + i] = back[i]
        /\ \A i \in DOMAIN new : i \in 1..m \/ (i - m \in 1..Len(back) /\ m + (i - m) = i)
    BY <1>5, <1>6
  <1>. HIDE DEF m, new
  \* Where the items of new are in set.
  <1> DEFINE from == [i \in DOMAIN new |-> IF i \in 1..m THEN fat[i] ELSE bat[i - m]]
  <1>10. ASSUME NEW i \in 1..m
         PROVE  /\ i \in DOMAIN new /\ from[i] = fat[i] /\ from[i] \in DOMAIN set
                /\ new[i] = set[from[i]] /\ ~(Len(new[i].prefix) < Len(p))
    <2>1. i \in DOMAIN new
      BY <1>9
    <2>2. from[i] = fat[i]
      BY <2>1
    <2>. HIDE DEF from
    <2>3. fat[i] \in 1..Len(set) /\ front[i] = set[fat[i]] /\ front[i] \in stays
      BY <1>7 DEF Selects, m
    <2>4. fat[i] \in DOMAIN set /\ new[i] = set[fat[i]] /\ set[fat[i]] \in stays
      BY <1>3, <1>9, <2>3
    <2>. QED  BY <1>4, <2>1, <2>2, <2>4
  <1>11. ASSUME NEW i \in DOMAIN new \ 1..m
         PROVE  /\ i - m \in 1..Len(back) /\ from[i] = bat[i - m]
                /\ from[i] \in DOMAIN set
                /\ new[i] = set[from[i]] /\ Len(new[i].prefix) < Len(p)
    <2>1. i - m \in 1..Len(back) /\ m + (i - m) = i
      BY <1>9
    <2>2. from[i] = bat[i - m]
      OBVIOUS
    <2>. HIDE DEF from
    <2>3. new[i] = back[i - m]
      BY <1>9, <2>1
    <2>4. /\ bat[i - m] \in 1..Len(set) /\ back[i - m] = set[bat[i - m]]
          /\ back[i - m] \in shorter
      BY <1>8, <2>1 DEF Selects
    <2>5. /\ bat[i - m] \in DOMAIN set /\ new[i] = set[bat[i - m]]
          /\ set[bat[i - m]] \in shorter
      BY <1>3, <2>3, <2>4
    <2>. QED  BY <1>4, <2>1, <2>2, <2>5
  <1>. HIDE DEF from
  <1>12. \A i \in DOMAIN new : from[i] \in DOMAIN set /\ new[i] = set[from[i]]
    BY <1>10, <1>11
  <1>13. ASSUME NEW i \in 1..m, NEW j \in 1..m, i < j
         PROVE  from[i] < from[j]
    BY <1>7, <1>10, <1>13 DEF Selects, m
  <1>14. ASSUME NEW i \in DOMAIN new \ 1..m, NEW j \in DOMAIN new \ 1..m, i < j
         PROVE  from[i] < from[j]
    <2>1. i - m < j - m
      BY <1>9, <1>14
    <2>. QED  BY <1>8, <1>11, <2>1 DEF Selects
  <1>15. \A k \in DOMAIN set : \E i \in DOMAIN new : from[i] = k
    <2>. SUFFICES ASSUME NEW k \in DOMAIN set
                  PROVE  \E i \in DOMAIN new : from[i] = k
      OBVIOUS
    <2>1. CASE set[k] \in stays
      <3>1. PICK i \in 1..m : fat[i] = k
        BY <1>3, <1>7, <2>1 DEF Selects, m
      <3>. QED  BY <1>10, <3>1
    <2>2. CASE set[k] \in shorter
      <3>1. PICK i \in 1..Len(back) : bat[i] = k
        BY <1>3, <1>8, <2>2 DEF Selects
      <3>2. m + i \in DOMAIN new \ 1..m /\ (m + i) - m = i
        BY <1>9
      <3>. QED  BY <1>11, <3>1, <3>2
    <2>. QED  BY <1>4, <2>1, <2>2
  <1>16. \A i, j \in DOMAIN new : i \in Int /\ j \in Int
    BY <1>9
  <1>17. ToSet(new) = ToSet(set)
    BY <1>12, <1>15 DEF ToSet
  <1>18. Distinct(new)
    <2>. SUFFICES ASSUME NEW i \in DOMAIN new, NEW j \in DOMAIN new,
                         new[i].prefix = new[j].prefix, i < j
                  PROVE  FALSE
      BY <1>16 DEF Distinct
    <2>1. from[i] = from[j]
      BY <1>1, <1>12 DEF Distinct
    <2>2. from[i] \in Int
      BY <1>3, <1>12
    <2>3. CASE i \in 1..m /\ j \in 1..m
      BY <1>13, <2>1, <2>2, <2>3
    <2>4. CASE i \notin 1..m /\ j \notin 1..m
      BY <1>14, <2>1, <2>2, <2>4
    <2>5. CASE i \in 1..m /\ j \notin 1..m
      BY <1>10, <1>11, <2>1, <2>5
    <2>6. CASE i \notin 1..m /\ j \in 1..m
      BY <1>10, <1>11, <2>1, <2>6
    <2>. QED  BY <2>3, <2>4, <2>5, <2>6
  <1>19. Ordered(new)
    <2>. SUFFICES ASSUME NEW i \in DOMAIN new, NEW j \in DOMAIN new, i < j
                  PROVE  Len(new[j].prefix) <= Len(new[i].prefix)
      BY DEF Ordered
    <2>1. Len(new[i].prefix) \in Nat /\ Len(new[j].prefix) \in Nat
      BY <1>3, <1>12
    <2>2. CASE i \in 1..m /\ j \in 1..m
      <3>1. from[i] < from[j]
        BY <1>13, <2>2
      <3>2. new[j].prefix = p \/ Len(new[j].prefix) <= Len(new[i].prefix)
        BY <1>1, <1>12, <3>1
      <3>3. Len(p) <= Len(new[i].prefix)
        BY <1>3, <1>10, <2>1, <2>2
      <3>. QED  BY <3>2, <3>3
    <2>3. CASE i \notin 1..m /\ j \notin 1..m
      <3>1. from[i] < from[j]
        BY <1>14, <2>3
      <3>2. new[j].prefix # p
        BY <1>3, <1>11, <2>3
      <3>. QED  BY <1>1, <1>12, <3>1, <3>2
    <2>4. CASE i \in 1..m /\ j \notin 1..m
      BY <1>3, <1>10, <1>11, <2>1, <2>4
    <2>5. ~(i \notin 1..m /\ j \in 1..m)
      BY <1>9
    <2>. QED  BY <2>2, <2>3, <2>4, <2>5
  <1>20. new \in Tables
    BY <1>9, <1>18, <1>19 DEF Tables
  <1>21. \A q \in Keys : AdapterIn(new, q) = AdapterIn(set, q)
    BY <1>1, <1>9, <1>17, <1>18, SameItemsRead
  <1>. QED  BY <1>1, <1>2, <1>20, <1>21

-----------------------------------------------------------------------------
(* The refinement.                                                         *)

\* What Session.__init__ mounts, one default after the other.
LEMMA MountFold ==
  \E h : /\ h \in [0..Len(Defaults) -> Tables]
         /\ h[0] = <<>>
         /\ \A n \in 1..Len(Defaults) :
               h[n] = Mounted(h[n - 1], Defaults[n].prefix, Defaults[n].adapter)
         /\ Preset = h[Len(Defaults)]
  <1> DEFINE F == [p \in Tables \X Entries |-> Mounted(p[1], p[2].prefix, p[2].adapter)]
             Eq(f) == f = [s \in SUBSET DOMAIN Defaults |->
                              IF s = {} THEN <<>>
                              ELSE Mounted(f[s \ {Max(s)}], Defaults[Max(s)].prefix,
                                           Defaults[Max(s)].adapter)]
             it == CHOOSE f : Eq(f)
  <1>1. ASSUME NEW s \in Tables, NEW d \in Entries
        PROVE  Mounted(s, d.prefix, d.adapter) \in Tables
    <2>1. d.prefix \in Keys /\ d.adapter \in Adapters
      BY DEF Entries
    <2>. QED  BY <2>1, MountedTable
  <1>2. F \in [Tables \X Entries -> Tables]
    BY <1>1
  <1>3. \A s \in Tables, d \in Entries : F[<<s, d>>] = Mounted(s, d.prefix, d.adapter)
    OBVIOUS
  <1>. HIDE DEF F
  <1>4. Defaults \in Seq(Entries) /\ <<>> \in Tables
    BY DEF Entries, Tables, Distinct, Ordered
  <1>5. PICK g : Solves(g, Tables, Entries, F, <<>>, Defaults)
    BY <1>2, <1>4, SolutionExists
  <1>6. Eq(g)
    BY <1>3, <1>5 DEF Solves
  <1>7. Eq(it)
    <2>. HIDE DEF Eq
    <2>. QED  BY <1>6
  <1>8. Preset = it[DOMAIN Defaults]
    BY DEF Preset, FoldLeft, MapThenFoldSet
  <1>. HIDE DEF it
  <1>9. Unrolls(it, Tables, Entries, F, <<>>, Defaults)
    BY <1>3, <1>7 DEF Unrolls
  <1>. HIDE DEF Eq
  <1>10. PICK h : Folds(h, Tables, F, <<>>, Defaults) /\ Yields(it, Defaults, h)
    BY <1>2, <1>4, <1>9, FoldSteps
  <1>11. ASSUME NEW n \in 1..Len(Defaults)
         PROVE  h[n] = Mounted(h[n - 1], Defaults[n].prefix, Defaults[n].adapter)
    <2>1. n - 1 \in 0..Len(Defaults) /\ Defaults[n] \in Entries
      BY <1>4
    <2>. QED  BY <1>3, <1>10, <2>1 DEF Folds
  <1>. QED  BY <1>8, <1>10, <1>11 DEF Folds, Yields

\* The last of the first n defaults for prefix p.
LastFor(i, n, p) ==
    /\ i \in 1..n /\ Defaults[i].prefix = p
    /\ \A j \in 1..n : Defaults[j].prefix = p => j <= i

\* items is the table of the first n defaults.
TableOf(items, n) ==
    \A p \in Keys :
        /\ \A i \in 1..n : LastFor(i, n, p) => AdapterIn(items, p) = Defaults[i].adapter
        /\ (\A i \in 1..n : Defaults[i].prefix # p) => AdapterIn(items, p) = Missing

\* A new session has a table, and its adapters are the defaults.
LEMMA DefaultsTable ==
  ASSUME Init
  PROVE  /\ adapters \in Tables
         /\ \A p \in Keys : AdapterIn(adapters, p) = DefaultOf(p)
  <1>1. PICK h : /\ h \in [0..Len(Defaults) -> Tables]
                 /\ h[0] = <<>>
                 /\ \A n \in 1..Len(Defaults) :
                       h[n] = Mounted(h[n - 1], Defaults[n].prefix, Defaults[n].adapter)
                 /\ Preset = h[Len(Defaults)]
    BY MountFold
  <1>2. adapters = h[Len(Defaults)]
    BY <1>1 DEF Init
  <1>3. Len(Defaults) \in Nat /\ DOMAIN Defaults = 1..Len(Defaults)
    OBVIOUS
  <1>4. adapters \in Tables
    BY <1>1, <1>2, <1>3
  <1> DEFINE T == {n \in Nat : TableOf(h[n], n)}
  <1>5. 0 \in T
    <2>1. 1..0 = {}
      OBVIOUS
    <2>2. \A p \in Keys : AdapterIn(<<>>, p) = Missing
      BY DEF AdapterIn, Has
    <2>3. TableOf(h[0], 0)
      BY <1>1, <2>1, <2>2 DEF TableOf
    <2>. QED  BY <2>3
  <1>6. ASSUME NEW n \in 0..(Len(Defaults) - 1), n \in T
        PROVE  n + 1 \in T
    <2> DEFINE d == Defaults[n + 1]
    <2>1. /\ n \in Nat /\ n + 1 \in 1..Len(Defaults) /\ (n + 1) - 1 = n
          /\ n \in 0..Len(Defaults)
          /\ \A i \in 1..(n + 1) : i \in 1..n \/ i = n + 1
          /\ \A i \in 1..n : i \in 1..(n + 1) /\ i < n + 1 /\ ~(n + 1 <= i)
          /\ n + 1 \in 1..(n + 1)
      OBVIOUS
    <2>2. d.prefix \in Keys /\ d.adapter \in Adapters
      <3>1. Defaults \in Seq(Entries) /\ n + 1 \in DOMAIN Defaults
        BY <1>3, <2>1 DEF Entries
      <3>. QED  BY <3>1, EntryParts
    <2>3. h[n] \in Tables /\ h[n + 1] = Mounted(h[n], d.prefix, d.adapter)
      BY <1>1, <2>1
    <2>4. \A p \in Keys : AdapterIn(h[n + 1], p)
              = IF p = d.prefix THEN d.adapter ELSE AdapterIn(h[n], p)
      <3>. HIDE DEF d
      <3>1. \A p \in Keys : AdapterIn(Mounted(h[n], d.prefix, d.adapter), p)
                = IF p = d.prefix THEN d.adapter ELSE AdapterIn(h[n], p)
        BY <2>2, <2>3, MountedTable
      <3>. QED  BY <2>3, <3>1
    <2>5. TableOf(h[n], n)
      BY <1>6
    <2>6. ASSUME NEW p \in Keys, NEW i \in 1..(n + 1), LastFor(i, n + 1, p)
          PROVE  AdapterIn(h[n + 1], p) = Defaults[i].adapter
      <3>1. CASE i = n + 1
        BY <2>4, <2>6, <3>1 DEF LastFor
      <3>2. CASE i \in 1..n
        <4>1. d.prefix # p
          BY <2>1, <2>6, <3>2 DEF LastFor
        <4>2. LastFor(i, n, p)
          BY <2>1, <2>6, <3>2 DEF LastFor
        <4>. QED  BY <2>4, <2>5, <3>2, <4>1, <4>2 DEF TableOf
      <3>. QED  BY <2>1, <3>1, <3>2
    <2>7. ASSUME NEW p \in Keys, \A i \in 1..(n + 1) : Defaults[i].prefix # p
          PROVE  AdapterIn(h[n + 1], p) = Missing
      BY <2>1, <2>4, <2>5, <2>7 DEF TableOf
    <2>8. TableOf(h[n + 1], n + 1)
      BY <2>6, <2>7 DEF TableOf
    <2>. QED  BY <2>1, <2>8
  <1>. HIDE DEF T
  <1>7. Len(Defaults) \in T
    <2>1. Len(Defaults) \in 0..Len(Defaults)
      BY <1>3
    <2>. QED  BY <1>3, <1>5, <1>6, <2>1, BoundedInduction
  <1>8. TableOf(adapters, Len(Defaults))
    BY <1>2, <1>7 DEF T
  <1>9. ASSUME NEW p \in Keys
        PROVE  AdapterIn(adapters, p) = DefaultOf(p)
    <2> DEFINE given == {i \in DOMAIN Defaults : Defaults[i].prefix = p}
               last  == CHOOSE i \in given : \A j \in given : j <= i
    <2>1. CASE given = {}
      <3>1. \A i \in 1..Len(Defaults) : Defaults[i].prefix # p
        BY <1>3, <2>1
      <3>. QED  BY <1>8, <2>1, <3>1 DEF TableOf, DefaultOf
    <2>2. CASE given # {}
      <3>1. \E i \in given : \A j \in given : i >= j
        BY <2>2, MaxExists
      <3>2. last \in given /\ \A j \in given : j <= last
        BY <1>3, <3>1
      <3>. HIDE DEF last
      <3>3. LastFor(last, Len(Defaults), p)
        BY <1>3, <3>2 DEF LastFor
      <3>4. last \in 1..Len(Defaults)
        BY <1>3, <3>2
      <3>. QED  BY <1>8, <2>2, <3>3, <3>4 DEF TableOf, DefaultOf, last
    <2>. QED  BY <2>1, <2>2
  <1>. QED  BY <1>4, <1>9

Held == adapters \in Tables /\ used \in Adapters \cup {Missing}

LEMMA AdapterOfTable ==
  ASSUME NEW p
  PROVE  AdapterOf(p) = AdapterIn(adapters, p)
  BY DEF AdapterOf, AdapterIn

\* The first match of a table is a longest one.
LEMMA FirstIsLongest ==
  ASSUME adapters \in Tables, NEW url \in Targets, GetAdapter(url)
  PROVE  Table!Get(url) /\ used' \in Adapters \cup {Missing}
  <1> DEFINE mounted == [p \in Keys |-> AdapterOf(p)]
             low     == Lower(url)
             hits    == {i \in DOMAIN adapters : IsPrefix(adapters[i].prefix, low)}
             first   == CHOOSE i \in hits : \A j \in hits : i <= j
             found   == Table!Matching(url)
  <1>0. /\ adapters \in Seq(Entries) /\ Distinct(adapters) /\ Ordered(adapters)
        /\ DOMAIN adapters \subseteq Nat
    BY DEF Tables
  <1>1. used' = (IF hits = {} THEN Missing ELSE adapters[first].adapter)
        /\ adapters' = adapters
    BY DEF GetAdapter
  <1>2. low = Table!Lower(url)
    BY DEF Lower, Table!Lower
  <1>3. \A p \in Keys : p \in found <=> mounted[p] # Missing /\ IsPrefix(p, low)
    <2>. HIDE DEF mounted, low
    <2>1. \A p \in Keys : p \in found <=> mounted[p] # Missing /\ Table!IsPrefix(p, low)
      BY <1>2 DEF Table!Matching, mounted
    <2>2. \A p \in Keys : Table!IsPrefix(p, low) <=> IsPrefix(p, low)
      BY DEF Table!IsPrefix, IsPrefix
    <2>. QED  BY <2>1, <2>2
  <1>4. \A p \in Keys : mounted[p] = AdapterIn(adapters, p)
    BY AdapterOfTable
  <1>5. found \subseteq Keys
    BY DEF Table!Matching
  <1>6. mounted' = mounted
    BY <1>1 DEF AdapterOf, Has
  <1>. HIDE DEF low, found
  <1>7. ASSUME NEW i \in hits
        PROVE  /\ adapters[i].prefix \in found
               /\ mounted[adapters[i].prefix] = adapters[i].adapter
               /\ adapters[i].adapter \in Adapters
    <2>1. adapters[i].prefix \in Keys /\ adapters[i].adapter \in Adapters
      BY <1>0, EntryParts
    <2>2. mounted[adapters[i].prefix] = adapters[i].adapter
      BY <1>0, <1>4, <2>1, AdapterAt
    <2>. HIDE DEF mounted
    <2>. QED  BY <1>3, <2>1, <2>2
  <1>8. ASSUME NEW p \in found
        PROVE  \E i \in hits : adapters[i].prefix = p
    <2>1. p \in Keys /\ AdapterIn(adapters, p) # Missing /\ IsPrefix(p, low)
      BY <1>3, <1>4, <1>5
    <2>2. PICK i \in DOMAIN adapters : adapters[i].prefix = p
      BY <1>0, <2>1, NoAdapterAt DEF Has
    <2>. QED  BY <2>1, <2>2
  <1>9. CASE hits = {}
    <2>1. found = {} /\ used' = Missing
      BY <1>1, <1>8, <1>9
    <2>. HIDE DEF mounted, hits, first
    <2>. QED  BY <1>6, <2>1 DEF Table!Get, mounted, found
  <1>10. CASE hits # {}
    <2>1. first \in hits /\ \A j \in hits : first <= j
      <3>1. \E i \in hits : \A j \in hits : i <= j
        BY <1>0, <1>10, MinExists
      <3>. QED  BY <3>1
    <2>2. used' = adapters[first].adapter
      BY <1>1, <1>10
    <2>. HIDE DEF first
    <2> DEFINE longest == adapters[first].prefix
    <2>3. longest \in found /\ used' = mounted[longest] /\ used' \in Adapters
      BY <1>7, <2>1, <2>2
    <2>4. ASSUME NEW q \in found
          PROVE  Len(q) <= Len(longest)
      <3>1. PICK j \in hits : adapters[j].prefix = q
        BY <1>8
      <3>2. /\ first \in DOMAIN adapters /\ j \in DOMAIN adapters
            /\ first \in Nat /\ j \in Nat /\ first <= j
        BY <1>0, <2>1
      <3>3. Len(longest) \in Nat
        BY <1>0, <3>2, EntryParts
      <3>4. CASE first = j
        BY <3>1, <3>3, <3>4
      <3>5. CASE first < j
        BY <1>0, <3>1, <3>2, <3>5 DEF Ordered
      <3>. QED  BY <3>2, <3>4, <3>5
    <2>. HIDE DEF mounted, hits, longest
    <2>5. found # {} /\ \E p \in found : (\A q \in found : Len(q) <= Len(p)) /\ used' = mounted[p]
      BY <2>3, <2>4
    <2>. QED  BY <1>6, <2>3, <2>5 DEF Table!Get, mounted, found
  <1>. QED  BY <1>9, <1>10

\* mount and get_adapter implement AdapterTable: a request goes to the adapter
\* mounted last for the longest mounted prefix of its URL.
THEOREM LongestPrefixMatches == Spec => LongestPrefixWins
  <1>1. Init => Table!Init /\ Held
    <2>. SUFFICES ASSUME Init PROVE Table!Init /\ Held
      OBVIOUS
    <2>1. adapters \in Tables /\ \A p \in Keys : AdapterIn(adapters, p) = DefaultOf(p)
      BY DefaultsTable
    <2>2. [p \in Keys |-> AdapterOf(p)] = [p \in Keys |-> DefaultOf(p)]
      BY <2>1, AdapterOfTable
    <2>3. used = Missing
      BY DEF Init
    <2>. QED  BY <2>1, <2>2, <2>3 DEF Table!Init, Held
  <1>2. Held /\ [Next]_vars => Held' /\ [Table!Next]_<<[p \in Keys |-> AdapterOf(p)], used>>
    <2> DEFINE mounted == [p \in Keys |-> AdapterOf(p)]
    <2>. SUFFICES ASSUME Held, [Next]_vars
                  PROVE  Held' /\ [Table!Next]_<<mounted, used>>
      OBVIOUS
    <2>0. adapters \in Tables /\ used \in Adapters \cup {Missing}
      BY DEF Held
    <2>1. ASSUME NEW p \in Keys, NEW adapter \in Adapters, Mount(p, adapter)
          PROVE  Held' /\ Table!Mount(p, adapter)
      <3>1. adapters' = Mounted(adapters, p, adapter) /\ used' = used
        BY <2>1 DEF Mount
      <3>2. adapters' \in Tables /\ \A q \in Keys : AdapterIn(adapters', q)
                = IF q = p THEN adapter ELSE AdapterIn(adapters, q)
        BY <2>0, <3>1, MountedTable
      <3>3. \A q \in Keys : AdapterOf(q)' = AdapterIn(adapters', q)
        BY DEF AdapterOf, AdapterIn
      <3>4. mounted' = [mounted EXCEPT ![p] = adapter]
        BY <3>2, <3>3, AdapterOfTable
      <3>. HIDE DEF mounted
      <3>. QED  BY <2>0, <3>1, <3>2, <3>4 DEF Held, Table!Mount, mounted
    <2>2. ASSUME NEW url \in Targets, GetAdapter(url)
          PROVE  Held' /\ Table!Get(url)
      <3>1. Table!Get(url) /\ used' \in Adapters \cup {Missing}
        BY <2>0, <2>2, FirstIsLongest
      <3>2. adapters' = adapters
        BY <2>2 DEF GetAdapter
      <3>. QED  BY <2>0, <3>1, <3>2 DEF Held
    <2>3. CASE UNCHANGED vars
      <3>1. adapters' = adapters /\ used' = used
        BY <2>3 DEF vars
      <3>2. mounted' = mounted
        BY <3>1 DEF AdapterOf, Has
      <3>. QED  BY <2>0, <3>1, <3>2 DEF Held
    <2>. QED  BY <2>1, <2>2, <2>3 DEF Next, Table!Next
  <1>. QED  BY <1>1, <1>2, PTL DEF Spec, LongestPrefixWins, Table!Spec
=============================================================================
