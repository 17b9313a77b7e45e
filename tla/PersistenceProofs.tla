------------------------- MODULE PersistenceProofs -------------------------
(***************************************************************************)
(* What is on disk and what a start makes of it, for every database, every *)
(* way of flushing the buffer and any sequence of commands, saves, kills,  *)
(* failures and losses of power.  A file is always the old or the new      *)
(* snapshot, and loading it recovers the last save, until one of the two   *)
(* failures comes that break this guarantee: the unchecked close and,      *)
(* since save() never calls fsync, a loss of power.  What these leave can  *)
(* still be loaded into a database that the commands can work on.          *)
(***************************************************************************)
EXTENDS Persistence, StoreProofs

-----------------------------------------------------------------------------
(* Loading, one line at a time. *)

IsEntry(l) == l.type \in {"string", "list"}

\* The lines of a snapshot, whole or cut: no list is empty, no key has two lines, and
\* the strings come first.
Loadable(f) ==
    /\ f \in Seq(Line)
    /\ \A i \in 1..Len(f) : f[i].type = "list" => f[i].data # <<>>
    /\ \A i, j \in 1..Len(f) : i < j /\ IsEntry(f[i]) /\ IsEntry(f[j]) =>
          /\ f[i].key # f[j].key
          /\ f[i].type = "list" => f[j].type # "string"

LiveLine(l, t) == IsEntry(l) /\ ~(l.expiry # Absent /\ t >= l.expiry)

\* The database has under the key of the line what the line says.
Holds(d, l) == /\ d.expiry[l.key] = l.expiry
               /\ l.type = "string" => d.string_store[l.key] = l.data
               /\ l.type = "list" => d.list_store[l.key] = l.data

StringLines(f) == {i \in 1..Len(f) : f[i].type = "string"}
StringKeys(f) == {f[i].key : i \in StringLines(f)}

\* What the first n lines make of an empty database: nothing that no line says; while
\* they are strings, the LRU list is in step with them; and, if all the strings of the
\* file fit, everything they say.
LoadedTo(d, f, n, t) ==
    /\ Sound(d) /\ Fits(d)
    /\ \A k \in Key : Present(d, k) => \E i \in 1..n : LiveLine(f[i], t) /\ f[i].key = k
    /\ \A k \in Key : Has(d.string_store, k) => \E i \in 1..n : f[i].type = "string" /\ f[i].key = k
    /\ (\A i \in 1..n : f[i].type # "list") => Exact(d) /\ NoLists(d)
    /\ Cardinality(StringKeys(f)) <= MaxCapacity =>
          \A i \in 1..n : LiveLine(f[i], t) => Holds(d, f[i])

\* What a line is made of.
LEMMA LineTyped ==
    ASSUME NEW l \in Line, IsEntry(l)
    PROVE  /\ l.key \in Key /\ l.expiry \in Int \cup {Absent}
           /\ l.type = "string" => l.data \in Value
           /\ l.type = "list" => l.data \in Seq(Value)
BY DEF Line, Record, Header, Footer, Malformed, IsEntry

\* The deadline that follows a set() or the rpush()es of a line.
LEMMA DeadlineSet ==
    ASSUME NEW e, Sound(e), Fits(e), NEW k \in Key, Present(e, k), ~Has(e.expiry, k),
           NEW x \in Int \cup {Absent},
           NEW r, r = IF x = Absent THEN e ELSE ExpireAt(e, k, x)
    PROVE  /\ Sound(r) /\ Fits(r)
           /\ r.string_store = e.string_store /\ r.list_store = e.list_store
           /\ r.expiry[k] = x
           /\ \A j \in Key \ {k} : SameAt(e, r, j)
           /\ Exact(e) => Exact(r)
<1>1. CASE x = Absent
  BY <1>1 DEF SameAt, Has
<1>2. CASE x # Absent
  <2>1. x \in Int /\ r = ExpireAt(e, k, x) /\ e \in Database
    BY <1>2, SoundDatabase
  <2>2. r.lru_order = e.lru_order /\ r.lru_position = e.lru_position
    BY <2>1 DEF ExpireAt, Database
  <2>3. /\ Sound(r) /\ r.string_store = e.string_store /\ r.list_store = e.list_store
        /\ r.expiry[k] = x
        /\ \A j \in Key \ {k} : SameAt(e, r, j)
    BY <2>1, ExpireAtSound, ExpireAtAt
  <2>4. Exact(e) => Exact(r)
    BY <2>2, <2>3 DEF Exact, Points
  <2> QED BY <2>3, <2>4 DEF Fits
<1> QED BY <1>1, <1>2

\* A line of a new key finds no trace of it.
LEMMA NewKey ==
    ASSUME NEW f, Loadable(f), NEW n \in 1..(Len(f) - 1), NEW t, NEW d, LoadedTo(d, f, n, t),
           IsEntry(f[n + 1])
    PROVE  /\ ~Present(d, f[n + 1].key) /\ ~Has(d.expiry, f[n + 1].key)
           /\ n + 1 \in 1..Len(f) /\ f[n + 1] \in Line
           /\ \A i \in 1..n : i \in 1..Len(f) /\ f[i] \in Line
           /\ \A i \in 1..n : IsEntry(f[i]) => f[i].key # f[n + 1].key
<1>1. Len(f) \in Nat
  BY LenProperties DEF Loadable
<1>2. n + 1 \in 1..Len(f) /\ \A i \in 1..n : i \in 1..Len(f) /\ i < n + 1
  BY <1>1
<1>3. f[n + 1] \in Line /\ \A i \in 1..n : f[i] \in Line
  BY <1>2, ElementOfSeq DEF Loadable
<1>4. \A i \in 1..n : IsEntry(f[i]) => f[i].key # f[n + 1].key
  BY <1>2 DEF Loadable
<1>5. f[n + 1].key \in Key
  BY <1>3, LineTyped
<1>6. ~Present(d, f[n + 1].key)
  BY <1>4, <1>5 DEF LoadedTo, LiveLine
<1>7. ~Has(d.expiry, f[n + 1].key)
  BY <1>5, <1>6 DEF LoadedTo, Sound, StoresSound
<1> QED BY <1>2, <1>3, <1>4, <1>6, <1>7

\* A line that is skipped adds nothing.
LEMMA SkipLineTo ==
    ASSUME NEW f, Loadable(f), NEW n \in 1..(Len(f) - 1), NEW t, NEW d, LoadedTo(d, f, n, t),
           ~LiveLine(f[n + 1], t)
    PROVE  LoadedTo(d, f, n + 1, t)
<1>1. n \in Nat /\ \A i \in 1..n : i \in 1..(n + 1)
  BY LenProperties DEF Loadable
<1>2. \A i \in 1..(n + 1) : i \in 1..n \/ i = n + 1
  BY <1>1
<1> QED BY <1>1, <1>2 DEF LoadedTo

\* When all its strings fit, a string that is still to be loaded finds room.
LEMMA RoomForLine ==
    ASSUME NEW f, Loadable(f), NEW n \in 1..(Len(f) - 1), NEW t, NEW d, LoadedTo(d, f, n, t),
           f[n + 1].type = "string", Exact(d), NoLists(d),
           Cardinality(StringKeys(f)) <= MaxCapacity
    PROVE  Size(Overwrite(d, f[n + 1].key)) < MaxCapacity
<1> DEFINE k == f[n + 1].key
           o == Overwrite(d, k)
           S == StringKeys(f)
<1>1. IsEntry(f[n + 1]) /\ Sound(d)
  BY DEF IsEntry, LoadedTo
<1>2. /\ \A i \in 1..n : i \in 1..Len(f) /\ f[i] \in Line
      /\ \A i \in 1..n : IsEntry(f[i]) => f[i].key # k
      /\ n + 1 \in 1..Len(f) /\ f[n + 1] \in Line
  BY <1>1, NewKey
<1>3. k \in Key
  BY <1>1, <1>2, LineTyped
<1>4. S \subseteq Key /\ k \in S
  <2>1. \A i \in StringLines(f) : f[i].key \in Key
    <3>1. \A i \in StringLines(f) : IsEntry(f[i]) /\ f[i] \in Line
      BY ElementOfSeq DEF StringLines, IsEntry, Loadable
    <3> QED BY <3>1, LineTyped
  <2> QED BY <2>1, <1>2 DEF StringKeys, StringLines
<1>5. Held(d.string_store) \subseteq S \ {k}
  BY <1>2 DEF LoadedTo, Held, StringKeys, StringLines, IsEntry
<1>6. IsFiniteSet(S) /\ IsFiniteSet(S \ {k}) /\ Cardinality(S \ {k}) = Cardinality(S) - 1
  BY <1>4, KeyAssumption, FS_Subset, FS_RemoveElement
<1>7. Cardinality(Held(d.string_store)) <= Cardinality(S) - 1
  BY <1>5, <1>6, FS_Subset
<1>8. Sound(o) /\ Exact(o) /\ NoLists(o) /\ o.string_store = d.string_store
  BY <1>1, <1>3, OverwriteSound, OverwriteExact
<1>9. Size(o) = Cardinality(Held(d.string_store))
  BY <1>8, SizeExact, ExactCount
<1> HIDE DEF S, o
<1>10. Cardinality(Held(d.string_store)) \in Nat /\ Cardinality(S) \in Nat
  BY <1>5, <1>6, FS_CardinalityType, FS_Subset
<1> QED BY <1>7, <1>9, <1>10, CapacityAssumption DEF S, o

\* set(), and expire_at() when the line has a deadline.
LEMMA StringLineTo ==
    ASSUME NEW f, Loadable(f), NEW n \in 1..(Len(f) - 1), NEW t \in Int, NEW d,
           LoadedTo(d, f, n, t), LiveLine(f[n + 1], t), f[n + 1].type = "string"
    PROVE  LoadedTo(LoadLine(d, f[n + 1], t), f, n + 1, t)
<1> DEFINE l == f[n + 1]
           k == l.key
           x == l.expiry
           e == Set(d, k, l.data)
           r == IF x = Absent THEN e ELSE ExpireAt(e, k, x)
<1>1. IsEntry(l) /\ Sound(d) /\ Fits(d)
  BY DEF IsEntry, LoadedTo
<1>2. /\ ~Present(d, k) /\ ~Has(d.expiry, k)
      /\ n + 1 \in 1..Len(f) /\ l \in Line
      /\ \A i \in 1..n : i \in 1..Len(f) /\ f[i] \in Line
      /\ \A i \in 1..n : IsEntry(f[i]) => f[i].key # k
  BY <1>1, NewKey
<1>3. k \in Key /\ x \in Int \cup {Absent} /\ l.data \in Value
  BY <1>1, <1>2, LineTyped
<1>4. n \in Nat /\ \A i \in 1..(n + 1) : i \in 1..n \/ i = n + 1
  BY LenProperties DEF Loadable
<1>5. \A i \in 1..(n + 1) : f[i].type # "list"
  <2>1. \A i \in 1..n : i < n + 1
    BY <1>4
  <2> QED BY <2>1, <1>1, <1>2, <1>4 DEF Loadable, IsEntry
<1>6. Exact(d) /\ NoLists(d)
  <2>1. \A i \in 1..n : f[i].type # "list"
    BY <1>4, <1>5
  <2> QED BY <2>1 DEF LoadedTo
<1>7. /\ \E c \in Cell : FreeCell(d, c)
      /\ SetHasRoom(d, k)
  BY <1>1, <1>3, <1>6, CellLeft, OverwriteExact, OverwriteSound, RoomExact, HeapAssumption
     DEF SetHasRoom
<1>8. Sound(e) /\ Fits(e) /\ Exact(e) /\ NoLists(e)
  BY <1>1, <1>3, <1>6, <1>7, SetSound, SetExact
<1>9. /\ e.string_store[k] = l.data /\ ~Has(e.list_store, k) /\ ~Has(e.expiry, k)
      /\ \A j \in Key \ {k} : \/ SameAt(d, e, j)
                              \/ ~Present(e, j) /\ Size(Overwrite(d, k)) >= MaxCapacity
  BY <1>1, <1>3, <1>7, SetSeen
<1>10. Present(e, k)
  BY <1>9, <1>3, AbsentAssumption DEF Present, Has
<1>11. /\ Sound(r) /\ Fits(r) /\ Exact(r)
       /\ r.string_store = e.string_store /\ r.list_store = e.list_store
       /\ r.expiry[k] = x
       /\ \A j \in Key \ {k} : SameAt(e, r, j)
  <2>1. r = IF x = Absent THEN e ELSE ExpireAt(e, k, x)
    OBVIOUS
  <2> HIDE DEF e, r, x, k
  <2> QED BY <2>1, <1>3, <1>8, <1>9, <1>10, DeadlineSet
<1>12. LoadLine(d, l, t) = r
  <2>1. l.type \in {"string", "list"} /\ ~(x # Absent /\ t >= x)
    BY DEF LiveLine, IsEntry
  <2> QED BY <2>1 DEF LoadLine
<1> HIDE DEF r, e
<1>13. \A j \in Key \ {k} : Present(r, j) => SameAt(d, r, j)
  BY <1>9, <1>11 DEF SameAt, Present, Has
<1>14. \A j \in Key : Present(r, j) => \E i \in 1..(n + 1) : LiveLine(f[i], t) /\ f[i].key = j
  <2>1. ASSUME NEW j \in Key \ {k}, Present(r, j)
        PROVE  \E i \in 1..(n + 1) : LiveLine(f[i], t) /\ f[i].key = j
    <3>1. Present(d, j)
      BY <2>1, <1>13 DEF SameAt, Present, Has
    <3> QED BY <3>1, <1>4 DEF LoadedTo
  <2> QED BY <2>1, <1>4
<1>15. \A j \in Key : Has(r.string_store, j) =>
           \E i \in 1..(n + 1) : f[i].type = "string" /\ f[i].key = j
  <2>1. ASSUME NEW j \in Key \ {k}, Has(r.string_store, j)
        PROVE  \E i \in 1..(n + 1) : f[i].type = "string" /\ f[i].key = j
    <3>1. Has(d.string_store, j)
      BY <2>1, <1>13 DEF SameAt, Present, Has
    <3> QED BY <3>1, <1>4 DEF LoadedTo
  <2> QED BY <2>1, <1>4
<1>16. NoLists(r)
  BY <1>8, <1>11 DEF NoLists
<1>17. ASSUME Cardinality(StringKeys(f)) <= MaxCapacity, NEW i \in 1..(n + 1),
              LiveLine(f[i], t)
       PROVE  Holds(r, f[i])
  <2>1. CASE i = n + 1
    BY <2>1, <1>9, <1>11 DEF Holds
  <2>2. CASE i \in 1..n
    <3>1. IsEntry(f[i]) /\ Holds(d, f[i])
      BY <1>17, <2>2 DEF LoadedTo, LiveLine
    <3>2. f[i].key \in Key \ {k}
      BY <2>2, <3>1, <1>2, LineTyped
    <3>3. ~(Size(Overwrite(d, k)) >= MaxCapacity)
      <4>1. Size(Overwrite(d, k)) < MaxCapacity
        BY <1>6, <1>17, RoomForLine
      <4>2. Size(Overwrite(d, k)) \in Nat
        BY <1>1, <1>3, <1>6, OverwriteSound, OverwriteExact, SizeExact
      <4> QED BY <4>1, <4>2, CapacityAssumption
    <3>4. SameAt(d, r, f[i].key)
      BY <3>2, <3>3, <1>9, <1>11 DEF SameAt
    <3> QED BY <3>1, <3>4 DEF Holds, SameAt
  <2> QED BY <1>4, <2>1, <2>2
<1> QED BY <1>11, <1>12, <1>14, <1>15, <1>16, <1>17 DEF LoadedTo

\* The rpush()es, and expire_at() when the line has a deadline.
LEMMA ListLineTo ==
    ASSUME NEW f, Loadable(f), NEW n \in 1..(Len(f) - 1), NEW t \in Int, NEW d,
           LoadedTo(d, f, n, t), LiveLine(f[n + 1], t), f[n + 1].type = "list"
    PROVE  LoadedTo(LoadLine(d, f[n + 1], t), f, n + 1, t)
<1> DEFINE l == f[n + 1]
           k == l.key
           x == l.expiry
           e == RPushAll(d, k, l.data)
           r == IF x = Absent THEN e ELSE ExpireAt(e, k, x)
<1>1. IsEntry(l) /\ Sound(d) /\ Fits(d) /\ d \in Database
  BY SoundDatabase DEF IsEntry, LoadedTo
<1>2. /\ ~Present(d, k) /\ ~Has(d.expiry, k)
      /\ n + 1 \in 1..Len(f) /\ l \in Line
      /\ \A i \in 1..n : i \in 1..Len(f) /\ f[i] \in Line
      /\ \A i \in 1..n : IsEntry(f[i]) => f[i].key # k
  BY <1>1, NewKey
<1>3. k \in Key /\ x \in Int \cup {Absent} /\ l.data \in Seq(Value) /\ l.data # <<>>
  BY <1>1, <1>2, LineTyped DEF Loadable
<1>4. n \in Nat /\ \A i \in 1..(n + 1) : i \in 1..n \/ i = n + 1
  BY LenProperties DEF Loadable
<1>5. e = WithList(d, k, l.data)
  <2>1. ListAt(d, k) = <<>>
    BY <1>2 DEF ListAt, Present
  <2>2. <<>> \o l.data = l.data
    BY <1>3, ConcatEmptySeq
  <2> QED BY <1>3, <2>1, <2>2 DEF RPushAll
<1> HIDE DEF e
<1>6. Sound(e) /\ e.string_store = d.string_store /\ Fits(e)
  BY <1>1, <1>2, <1>3, <1>5, WithListSound DEF Present, Fits
<1>7. /\ e.list_store[k] = l.data /\ e.expiry = d.expiry
      /\ \A j \in Key \ {k} : SameAt(d, e, j)
  BY <1>1, <1>3, <1>5, WithListAt
<1>8. Present(e, k) /\ ~Has(e.expiry, k)
  <2>1. l.data # Absent
    BY <1>3, AbsentAssumption
  <2> QED BY <2>1, <1>2, <1>7 DEF Present, Has
<1>9. /\ Sound(r) /\ Fits(r)
      /\ r.string_store = e.string_store /\ r.list_store = e.list_store
      /\ r.expiry[k] = x
      /\ \A j \in Key \ {k} : SameAt(e, r, j)
  <2>1. r = IF x = Absent THEN e ELSE ExpireAt(e, k, x)
    OBVIOUS
  <2> HIDE DEF r, x, k
  <2> QED BY <2>1, <1>3, <1>6, <1>8, DeadlineSet
<1>10. LoadLine(d, l, t) = r
  <2>1. l.type \in {"string", "list"} /\ ~(x # Absent /\ t >= x) /\ l.type # "string"
    BY DEF LiveLine, IsEntry
  <2> QED BY <2>1 DEF LoadLine, e
<1> HIDE DEF r
<1>11. \A j \in Key \ {k} : SameAt(d, r, j)
  BY <1>7, <1>9 DEF SameAt
<1>12. \A j \in Key : Present(r, j) => \E i \in 1..(n + 1) : LiveLine(f[i], t) /\ f[i].key = j
  <2>1. ASSUME NEW j \in Key \ {k}, Present(r, j)
        PROVE  \E i \in 1..(n + 1) : LiveLine(f[i], t) /\ f[i].key = j
    <3>1. Present(d, j)
      BY <2>1, <1>11 DEF SameAt, Present, Has
    <3> QED BY <3>1, <1>4 DEF LoadedTo
  <2> QED BY <2>1, <1>4
<1>13. \A j \in Key : Has(r.string_store, j) =>
           \E i \in 1..(n + 1) : f[i].type = "string" /\ f[i].key = j
  BY <1>4, <1>6, <1>9 DEF LoadedTo
<1>14. ASSUME Cardinality(StringKeys(f)) <= MaxCapacity, NEW i \in 1..(n + 1),
              LiveLine(f[i], t)
       PROVE  Holds(r, f[i])
  <2>1. CASE i = n + 1
    BY <2>1, <1>7, <1>9 DEF Holds
  <2>2. CASE i \in 1..n
    <3>1. IsEntry(f[i]) /\ Holds(d, f[i])
      BY <1>14, <2>2 DEF LoadedTo, LiveLine
    <3>2. f[i].key \in Key \ {k}
      BY <2>2, <3>1, <1>2, LineTyped
    <3> QED BY <3>1, <3>2, <1>11 DEF Holds, SameAt
  <2> QED BY <1>4, <2>1, <2>2
<1>15. ~ \A i \in 1..(n + 1) : f[i].type # "list"
  BY <1>4
<1> QED BY <1>9, <1>10, <1>12, <1>13, <1>14, <1>15 DEF LoadedTo

\* Every line of a loadable file takes the database one line further.
LEMMA LoadLineTo ==
    ASSUME NEW f, Loadable(f), NEW n \in 1..(Len(f) - 1), NEW t \in Int, NEW d,
           LoadedTo(d, f, n, t)
    PROVE  LoadedTo(LoadLine(d, f[n + 1], t), f, n + 1, t)
<1>1. CASE LiveLine(f[n + 1], t)
  BY <1>1, StringLineTo, ListLineTo DEF LiveLine, IsEntry
<1>2. CASE ~LiveLine(f[n + 1], t)
  <2>1. LoadLine(d, f[n + 1], t) = d
    BY <1>2 DEF LoadLine, LiveLine, IsEntry
  <2> QED BY <1>2, <2>1, SkipLineTo
<1> QED BY <1>1, <1>2

-----------------------------------------------------------------------------
(* Loading, whole files. *)

\* The recursion of Load is well founded: line n looks at what the n - 1 before it made.
LEMMA LoadRecursion ==
    ASSUME NEW f, NEW L \in Nat \ {0}, NEW t
    PROVE  \E g : g = [n \in 1..L |-> IF n = 1 THEN EmptyDb ELSE LoadLine(g[n - 1], f[n], t)]
<1> DEFINE IsLoad(g, m) ==
             g = [n \in 1..m |-> IF n = 1 THEN EmptyDb ELSE LoadLine(g[n - 1], f[n], t)]
           P == {m \in 1..L : \E g : IsLoad(g, m)}
<1>1. 1 \in P
  <2> DEFINE g == [n \in 1..1 |-> EmptyDb]
  <2>1. IsLoad(g, 1)
    OBVIOUS
  <2> HIDE DEF g, IsLoad
  <2> QED BY <2>1
<1>2. ASSUME NEW m \in 1..(L - 1), m \in P
      PROVE  m + 1 \in P
  <2>1. PICK g : IsLoad(g, m)
    BY <1>2
  <2> DEFINE h == [n \in 1..(m + 1) |-> IF n <= m THEN g[n] ELSE LoadLine(g[m], f[m + 1], t)]
  <2>2. \A n \in 1..m : h[n] = g[n]
    OBVIOUS
  <2>3. ASSUME NEW n \in 1..(m + 1)
        PROVE  h[n] = IF n = 1 THEN EmptyDb ELSE LoadLine(h[n - 1], f[n], t)
    <3>1. CASE n <= m
      <4>1. n \in 1..m /\ h[n] = g[n] /\ (n # 1 => n - 1 \in 1..m)
        BY <3>1
      <4>2. g[n] = IF n = 1 THEN EmptyDb ELSE LoadLine(g[n - 1], f[n], t)
        BY <2>1, <4>1
      <4>3. n # 1 => h[n - 1] = g[n - 1]
        BY <2>2, <4>1
      <4> HIDE DEF h, IsLoad
      <4> QED BY <4>1, <4>2, <4>3
    <3>2. CASE ~(n <= m)
      <4>1. n = m + 1 /\ n # 1 /\ n - 1 = m
        BY <3>2
      <4>2. h[n] = LoadLine(g[m], f[m + 1], t) /\ h[m] = g[m]
        BY <4>1
      <4> HIDE DEF h, IsLoad
      <4> QED BY <4>1, <4>2
    <3> QED BY <3>1, <3>2
  <2>4. h = [n \in 1..(m + 1) |-> h[n]]
    OBVIOUS
  <2>5. IsLoad(h, m + 1)
    <3> HIDE DEF h
    <3> QED BY <2>3, <2>4
  <2>6. m + 1 \in 1..L
    OBVIOUS
  <2> HIDE DEF IsLoad
  <2> QED BY <2>5, <2>6
<1> HIDE DEF P
<1>3. L \in P
  BY <1>1, <1>2, UpTo
<1> QED BY <1>3 DEF P

\* load() of a whole or a cut file, with the header as its first line.
LEMMA LoadedWhole ==
    ASSUME NEW f, Loadable(f), f # <<>>, f[1] = Header, NEW t \in Int
    PROVE  LoadedTo(Load(f, t), f, Len(f), t)
<1> DEFINE L == Len(f)
           loaded[n \in 1..L] == IF n = 1 THEN EmptyDb ELSE LoadLine(loaded[n - 1], f[n], t)
           P == {n \in 1..L : LoadedTo(loaded[n], f, n, t)}
<1>1. L \in Nat \ {0} /\ f # Absent
  BY EmptySeq, AbsentFileAssumption DEF Loadable
<1>2. Load(f, t) = loaded[L]
  BY <1>1 DEF Load
<1>3. loaded = [n \in 1..L |-> IF n = 1 THEN EmptyDb ELSE LoadLine(loaded[n - 1], f[n], t)]
  BY <1>1, LoadRecursion
<1> HIDE DEF loaded
<1>4. loaded[1] = EmptyDb /\ \A n \in 1..(L - 1) : loaded[n + 1] = LoadLine(loaded[n], f[n + 1], t)
  BY <1>1, <1>3
<1>5. LoadedTo(EmptyDb, f, 1, t)
  <2>1. \A k \in Key : /\ ~Present(EmptyDb, k) /\ ~Has(EmptyDb.string_store, k)
                       /\ ~Has(EmptyDb.list_store, k)
    BY DEF EmptyDb, EmptyMap, Present, Has
  <2>2. Exact(EmptyDb) /\ NoLists(EmptyDb)
    BY <2>1 DEF Exact, NoLists, EmptyDb
  <2>3. \A i \in 1..1 : ~LiveLine(f[i], t)
    BY DEF LiveLine, IsEntry, Header
  <2> QED BY <2>1, <2>2, <2>3, EmptySound DEF LoadedTo
<1>6. 1 \in P
  BY <1>1, <1>4, <1>5
<1>7. ASSUME NEW n \in 1..(L - 1), n \in P
      PROVE  n + 1 \in P
  <2>1. LoadedTo(loaded[n + 1], f, n + 1, t)
    BY <1>4, <1>7, LoadLineTo
  <2> QED BY <1>1, <2>1
<1>8. L \in P
  <2> HIDE DEF P, L
  <2>1. 1..L \subseteq P
    BY <1>1, <1>6, <1>7, UpTo
  <2> QED BY <2>1, <1>1
<1> QED BY <1>2, <1>8 DEF P

\* The database that a start makes of whatever is on disk is one that the commands
\* can work on.
LEMMA LoadSound ==
    ASSUME NEW f, f = Absent \/ Loadable(f), NEW t \in Int
    PROVE  Sound(Load(f, t)) /\ Fits(Load(f, t))
<1>1. CASE f = Absent \/ f = <<>> \/ f[1] # Header
  <2>1. Load(f, t) = EmptyDb
    BY <1>1 DEF Load
  <2> QED BY <2>1, EmptySound
<1>2. CASE ~(f = Absent \/ f = <<>> \/ f[1] # Header)
  <2>1. LoadedTo(Load(f, t), f, Len(f), t)
    BY <1>2, LoadedWhole
  <2> QED BY <2>1 DEF LoadedTo
<1> QED BY <1>1, <1>2

-----------------------------------------------------------------------------
(* What is left of a file. *)

\* The first lines of a file, any of them cut.
LeftOf(g, f) == /\ g \in Seq(Line) /\ Len(g) <= Len(f)
                /\ \A i \in 1..Len(g) : g[i] = f[i] \/ g[i] \in CutLine(f[i])

\* A cut line is malformed or still of the same key.
LEMMA CutLineTyped ==
    ASSUME NEW l \in Line, NEW c \in CutLine(l)
    PROVE  /\ c \in Line
           /\ IsEntry(c) => /\ IsEntry(l) /\ c.type = l.type /\ c.key = l.key
                            /\ c.type = "list" /\ l.data # <<>> => c.data # <<>>
<1>1. CASE c = Malformed
  BY <1>1 DEF Malformed, IsEntry, Line
<1>2. CASE l.type = "string" /\ c = [l EXCEPT !.data = Empty]
  <2>1. l \in Record("string", Value)
    BY <1>2 DEF Line, Record, Header, Footer, Malformed
  <2>2. c \in Record("string", Value) /\ c.type = "string" /\ c.key = l.key
    BY <1>2, <2>1, EmptyAssumption DEF Record
  <2> QED BY <1>2, <2>2 DEF Line, IsEntry
<1>3. ASSUME l.type = "list", NEW m \in 1..Len(l.data), NEW data \in [1..m -> Value],
             c = [l EXCEPT !.data = data]
      PROVE  /\ c \in Line /\ IsEntry(l) /\ c.type = l.type /\ c.key = l.key /\ c.data # <<>>
  <2>1. l \in Record("list", Seq(Value))
    BY <1>3 DEF Line, Record, Header, Footer, Malformed
  <2>2. Len(l.data) \in Nat
    BY <2>1, LenProperties DEF Record
  <2>3. data \in Seq(Value) /\ Len(data) = m /\ m # 0
    <3>1. m \in Nat
      BY <2>2
    <3> QED BY <3>1, <1>3, SeqDef
  <2>4. data # <<>>
    BY <2>3
  <2>5. c \in Record("list", Seq(Value)) /\ c.type = "list" /\ c.key = l.key /\ c.data = data
    BY <1>3, <2>1, <2>3 DEF Record
  <2> QED BY <1>3, <2>4, <2>5 DEF Line, IsEntry
<1>4. ASSUME l.type = "list", NEW n \in DOMAIN l.data,
             c = [l EXCEPT !.data = [i \in DOMAIN @ |-> IF i < n THEN @[i] ELSE Empty]]
      PROVE  /\ c \in Line /\ IsEntry(l) /\ c.type = l.type /\ c.key = l.key /\ c.data # <<>>
  <2> DEFINE data == [i \in DOMAIN l.data |-> IF i < n THEN l.data[i] ELSE Empty]
  <2>1. l \in Record("list", Seq(Value))
    BY <1>4 DEF Line, Record, Header, Footer, Malformed
  <2>2. l.data \in Seq(Value)
    BY <2>1 DEF Record
  <2>3. /\ Len(l.data) \in Nat /\ DOMAIN l.data = 1..Len(l.data)
        /\ l.data \in [1..Len(l.data) -> Value]
    BY <2>2, LenProperties
  <2>4. data \in [1..Len(l.data) -> Value] /\ Len(l.data) \in 1..Len(l.data)
    BY <2>3, <1>4, EmptyAssumption
  <2>5. c = [l EXCEPT !.data = data]
    BY <1>4
  <2> HIDE DEF data
  <2> QED BY <1>3, <1>4, <2>4, <2>5
<1>5. ASSUME l.type = "list", NEW n \in 1..Len(l.data),
             c = [l EXCEPT !.data = [i \in 1..n |-> Empty]]
      PROVE  /\ c \in Line /\ IsEntry(l) /\ c.type = l.type /\ c.key = l.key /\ c.data # <<>>
  <2>1. [i \in 1..n |-> Empty] \in [1..n -> Value]
    BY EmptyAssumption
  <2> QED BY <2>1, <1>3, <1>5
<1> QED BY <1>1, <1>2, <1>4, <1>5 DEF CutLine

\* What is left of a loadable file is loadable.
LEMMA LeftLoadable ==
    ASSUME NEW f, Loadable(f), NEW g, LeftOf(g, f)
    PROVE  Loadable(g)
<1>1. Len(f) \in Nat /\ Len(g) \in Nat
  BY LenProperties DEF Loadable, LeftOf
<1>2. \A i \in 1..Len(g) : i \in 1..Len(f) /\ f[i] \in Line
  BY <1>1, ElementOfSeq DEF Loadable, LeftOf
<1>3. \A i \in 1..Len(g) : IsEntry(g[i]) =>
          /\ IsEntry(f[i]) /\ g[i].type = f[i].type /\ g[i].key = f[i].key
          /\ g[i].type = "list" /\ f[i].data # <<>> => g[i].data # <<>>
  BY <1>2, CutLineTyped DEF LeftOf
<1>4. \A i \in 1..Len(g) : g[i].type = "list" => g[i].data # <<>>
  BY <1>2, <1>3 DEF Loadable, IsEntry
<1>5. ASSUME NEW i \in 1..Len(g), NEW j \in 1..Len(g), i < j, IsEntry(g[i]), IsEntry(g[j])
      PROVE  g[i].key # g[j].key /\ (g[i].type = "list" => g[j].type # "string")
  BY <1>2, <1>3, <1>5 DEF Loadable
<1> QED BY <1>4, <1>5 DEF Loadable, LeftOf

\* A file that was not written to its end is left of the whole one.
LEMMA CutOffLeft ==
    ASSUME NEW f \in Seq(Line), NEW g \in CutOff(f)
    PROVE  LeftOf(g, f)
<1>1. Len(f) \in Nat /\ \A i \in 1..Len(f) : f[i] \in Line
  BY LenProperties, ElementOfSeq
<1>2. ASSUME NEW n \in 0..Len(f)
      PROVE  /\ SubSeq(f, 1, n) \in Seq(Line) /\ Len(SubSeq(f, 1, n)) = n
             /\ \A i \in 1..n : SubSeq(f, 1, n)[i] = f[i]
  BY <1>1, SubSeqProperties
<1>3. ASSUME NEW n \in 0..(Len(f) - 1), g = SubSeq(f, 1, n)
      PROVE  LeftOf(g, f)
  <2>1. n \in 0..Len(f)
    BY <1>1
  <2> QED BY <1>1, <1>2, <1>3, <2>1 DEF LeftOf
<1>4. ASSUME NEW n \in 1..Len(f), NEW c \in CutLine(f[n]), g = Append(SubSeq(f, 1, n - 1), c)
      PROVE  LeftOf(g, f)
  <2> DEFINE s == SubSeq(f, 1, n - 1)
  <2>1. n - 1 \in 0..Len(f) /\ c \in Line
    BY <1>1, CutLineTyped
  <2>2. s \in Seq(Line) /\ Len(s) = n - 1 /\ \A i \in 1..(n - 1) : s[i] = f[i]
    BY <1>2, <2>1
  <2> HIDE DEF s
  <2>3. /\ Append(s, c) \in Seq(Line) /\ Len(Append(s, c)) = n
        /\ \A i \in 1..(n - 1) : Append(s, c)[i] = f[i]
        /\ Append(s, c)[n] = c
    BY <2>1, <2>2, <1>1, AppendProperties
  <2> QED BY <1>1, <1>4, <2>3 DEF LeftOf, s
<1> QED BY <1>3, <1>4 DEF CutOff

\* So is one of which the first n lines and some of the others were written.
LEMMA WrittenLeft ==
    ASSUME NEW f \in Seq(Line), NEW n \in 0..Len(f),
           NEW g, LeftOf(g, SubSeq(f, n + 1, Len(f)))
    PROVE  LeftOf(SubSeq(f, 1, n) \o g, f)
<1> DEFINE s == SubSeq(f, 1, n)
           q == SubSeq(f, n + 1, Len(f))
<1>1. Len(f) \in Nat /\ \A i \in 1..Len(f) : f[i] \in Line
  BY LenProperties, ElementOfSeq
<1>2. s \in Seq(Line) /\ Len(s) = n /\ \A i \in 1..n : s[i] = f[i]
  BY <1>1, SubSeqProperties
<1>3. Len(q) = Len(f) - n /\ \A i \in 1..(Len(f) - n) : q[i] = f[n + i]
  BY <1>1, SubSeqProperties
<1>4. g \in Seq(Line) /\ Len(g) \in Nat
  BY LenProperties DEF LeftOf
<1>5. /\ Len(g) <= Len(f) - n
      /\ \A i \in 1..Len(g) : g[i] = f[n + i] \/ g[i] \in CutLine(f[n + i])
  <2>1. Len(g) <= Len(q) /\ \A i \in 1..Len(g) : g[i] = q[i] \/ g[i] \in CutLine(q[i])
    BY DEF LeftOf
  <2> HIDE DEF q
  <2> QED BY <1>1, <1>3, <1>4, <2>1
<1> HIDE DEF s, q
<1>6. /\ s \o g \in Seq(Line) /\ Len(s \o g) = n + Len(g)
      /\ \A i \in 1..(n + Len(g)) : (s \o g)[i] = IF i <= n THEN s[i] ELSE g[i - n]
  BY <1>2, <1>4, ConcatProperties
<1>7. ASSUME NEW i \in 1..Len(s \o g)
      PROVE  (s \o g)[i] = f[i] \/ (s \o g)[i] \in CutLine(f[i])
  <2>1. CASE i <= n
    <3>1. i \in 1..n /\ i \in 1..(n + Len(g))
      BY <2>1, <1>4, <1>6
    <3>2. s[i] = f[i]
      BY <3>1, <1>2
    <3>3. (s \o g)[i] = s[i]
      BY <2>1, <3>1, <1>6
    <3> QED BY <3>2, <3>3
  <2>2. CASE ~(i <= n)
    <3>1. PICK j \in 1..Len(g) : i = n + j
      <4>1. Len(s \o g) = n + Len(g) /\ n \in Nat /\ Len(g) \in Nat
        BY <1>4, <1>6
      <4>2. i - n \in 1..Len(g) /\ i = n + (i - n)
        BY <2>2, <4>1
      <4> QED BY <4>2
    <3>2. n + j \in 1..(n + Len(g)) /\ ~(n + j <= n) /\ (n + j) - n = j
      BY <1>1, <1>4
    <3>3. (s \o g)[n + j] = g[j]
      BY <3>2, <1>6
    <3> QED BY <3>1, <3>3, <1>5
  <2> QED BY <2>1, <2>2
<1> QED BY <1>1, <1>4, <1>5, <1>6, <1>7 DEF LeftOf, s

-----------------------------------------------------------------------------
(* Sequences in two parts. *)

\* A sequence is its first m elements followed by the others.
LEMMA SplitSeq ==
    ASSUME NEW S, NEW s \in Seq(S), NEW m \in 0..Len(s)
    PROVE  SubSeq(s, 1, m) \o SubSeq(s, m + 1, Len(s)) = s
<1>1. Len(s) \in Nat
  BY LenProperties
<1>2. 1 \in 1..(Len(s) + 1) /\ m \in (1 - 1)..Len(s) /\ Len(s) \in m..Len(s)
  BY <1>1
<1>3. SubSeq(s, 1, m) \o SubSeq(s, m + 1, Len(s)) = SubSeq(s, 1, Len(s))
  BY <1>2, ConcatAdjacentSubSeq
<1> QED BY <1>3, SubSeqFull

\* Taking n more elements off the rest of a sequence.
LEMMA MoveFront ==
    ASSUME NEW S, NEW s \in Seq(S), NEW m \in 0..Len(s),
           NEW q, q = SubSeq(s, m + 1, Len(s)), NEW n \in 1..Len(q)
    PROVE  /\ m + n \in 0..Len(s)
           /\ SubSeq(s, 1, m) \o SubSeq(q, 1, n) = SubSeq(s, 1, m + n)
           /\ SubSeq(q, n + 1, Len(q)) = SubSeq(s, m + n + 1, Len(s))
<1>1. Len(s) \in Nat
  BY LenProperties
<1>2. Len(q) = Len(s) - m /\ q \in Seq(S)
  BY <1>1, SubSeqProperties, ElementOfSeq
<1>3. n \in 1..(Len(s) - m) /\ m + n \in 0..Len(s) /\ m + n \in m..Len(s)
  BY <1>1, <1>2
<1>4. SubSeq(q, 1, n) = SubSeq(s, m + 1, m + n)
  <2>1. m + 1 \in 1..Len(s) /\ Len(s) \in 1..Len(s)
    BY <1>1, <1>3
  <2>2. 1 \in 1..(Len(s) - (m + 1) + 1) /\ n \in 1..(Len(s) - (m + 1) + 1)
    BY <1>1, <1>3
  <2>3. SubSeq(q, 1, n) = SubSeq(s, m + 1 + 1 - 1, m + 1 + n - 1)
    BY <1>2, <2>1, <2>2, SubSeqOfSubSeq
  <2> QED BY <2>3
<1>5. SubSeq(q, n + 1, Len(q)) = SubSeq(s, m + n + 1, Len(s))
  <2>1. CASE n = Len(q)
    <3>1. Len(q) < n + 1 /\ Len(s) < m + n + 1
      BY <1>1, <1>2, <2>1
    <3>2. n + 1 \in Int /\ Len(q) \in Int /\ m + n + 1 \in Int /\ Len(s) \in Int
      BY <1>1, <1>2
    <3> QED BY <3>1, <3>2, SubSeqEmpty
  <2>2. CASE n < Len(q)
    <3>1. m + 1 \in 1..Len(s) /\ Len(s) \in 1..Len(s)
      BY <1>1, <1>3
    <3>2. /\ n + 1 \in 1..(Len(s) - (m + 1) + 1)
          /\ Len(s) - m \in 1..(Len(s) - (m + 1) + 1)
      BY <1>1, <1>2, <2>2
    <3>3. SubSeq(q, n + 1, Len(s) - m)
            = SubSeq(s, m + 1 + (n + 1) - 1, m + 1 + (Len(s) - m) - 1)
      BY <1>2, <3>1, <3>2, SubSeqOfSubSeq
    <3>4. m + 1 + (n + 1) - 1 = m + n + 1 /\ m + 1 + (Len(s) - m) - 1 = Len(s)
      BY <1>1
    <3> QED BY <1>2, <3>3, <3>4
  <2> QED BY <1>1, <1>2, <1>3, <2>1, <2>2
<1>6. SubSeq(s, 1, m) \o SubSeq(s, m + 1, m + n) = SubSeq(s, 1, m + n)
  <2>1. 1 \in 1..(Len(s) + 1) /\ m \in (1 - 1)..Len(s) /\ m + n \in m..Len(s)
    BY <1>1, <1>3
  <2> QED BY <2>1, ConcatAdjacentSubSeq
<1> QED BY <1>3, <1>4, <1>5, <1>6

-----------------------------------------------------------------------------
(* What save() writes. *)

\* The lines say of every key that is visible what the database holds, and nothing else.
Says(lines, d, t) ==
    /\ \A i \in 1..Len(lines) : IsEntry(lines[i]) =>
          /\ lines[i].key \in Key /\ ~Elapsed(d, lines[i].key, t)
          /\ Holds(d, lines[i])
    /\ \A k \in Key : Visible(d, k, t) =>
          \E i \in 1..Len(lines) : IsEntry(lines[i]) /\ lines[i].key = k

\* Header, strings, lists and footer: os and ol are the orders of the two hash maps.
Layout(lines, d, t, s, l, os, ol) ==
    /\ s \in Seq(Line) /\ l \in Seq(Line) /\ lines \in Seq(Line)
    /\ Len(s) \in Nat /\ Len(l) \in Nat
    /\ Len(lines) = Len(s) + Len(l) + 2
    /\ lines[1] = Header /\ lines[Len(s) + Len(l) + 2] = Footer
    /\ \A i \in 1..Len(s) :
          /\ lines[i + 1] = EntryOf("string", d.expiry, d.string_store, os[i])
          /\ os[i] \in LiveStrings(d, t)
    /\ \A i \in 1..Len(l) :
          /\ lines[i + Len(s) + 1] = EntryOf("list", d.expiry, d.list_store, ol[i])
          /\ ol[i] \in LiveLists(d, t)
    /\ \A i, j \in 1..Len(s) : i # j => os[i] # os[j]
    /\ \A i, j \in 1..Len(l) : i # j => ol[i] # ol[j]
    /\ \A k \in LiveStrings(d, t) : \E i \in 1..Len(s) : os[i] = k
    /\ \A k \in LiveLists(d, t) : \E i \in 1..Len(l) : ol[i] = k

\* That is how save() lays its file out.
LEMMA FileLayout ==
    ASSUME NEW d, Sound(d), NEW t, NEW lines \in Files(d, t)
    PROVE  \E s, l, os, ol : Layout(lines, d, t, s, l, os, ol)
<1> DEFINE strings == LiveStrings(d, t)
           lists == LiveLists(d, t)
<1>2. PICK entries \in Snapshots(d, t) : lines = <<Header>> \o entries \o <<Footer>>
  BY DEF Files
<1>3. Entry \subseteq Line
  BY DEF Entry, Line, Record
<1>4. PICK s, l, os, ol : /\ entries = s \o l
                          /\ Ordered(s, Line, strings, "string", d.expiry, d.string_store, os)
                          /\ Ordered(l, Line, lists, "list", d.expiry, d.list_store, ol)
  BY <1>3, SnapshotEntries
<1> HIDE DEF strings, lists
<1>10. Ordered(s, Line, strings, "string", d.expiry, d.string_store, os)
  BY <1>4
<1>11. Ordered(l, Line, lists, "list", d.expiry, d.list_store, ol)
  BY <1>4
<1>12. s \in Seq(Line) /\ l \in Seq(Line) /\ Len(s) \in Nat /\ Len(l) \in Nat
  BY <1>10, <1>11 DEF Ordered
<1>13. /\ lines \in Seq(Line) /\ Len(lines) = Len(s) + Len(l) + 2
       /\ lines[1] = Header /\ lines[Len(s) + Len(l) + 2] = Footer
       /\ \A i \in 1..Len(s) : lines[i + 1] = s[i]
       /\ \A i \in 1..Len(l) : lines[i + Len(s) + 1] = l[i]
  <2> DEFINE h == <<Header>>
             e == s \o l
             z == <<Footer>>
  <2>1. /\ h \in Seq(Line) /\ Len(h) = 1 /\ h[1] = Header
        /\ z \in Seq(Line) /\ Len(z) = 1 /\ z[1] = Footer
    BY DEF Line
  <2>2. /\ e \in Seq(Line) /\ Len(e) = Len(s) + Len(l)
        /\ \A i \in 1..(Len(s) + Len(l)) : e[i] = IF i <= Len(s) THEN s[i] ELSE l[i - Len(s)]
    BY <1>12, ConcatProperties
  <2>3. lines = (h \o e) \o z
    BY <1>2, <1>4
  <2> HIDE DEF h, e, z
  <2>4. /\ h \o e \in Seq(Line) /\ Len(h \o e) = Len(h) + Len(e)
        /\ \A i \in 1..(Len(h) + Len(e)) :
              (h \o e)[i] = IF i <= Len(h) THEN h[i] ELSE e[i - Len(h)]
    <3>1. h \in Seq(Line) /\ e \in Seq(Line)
      BY <2>1, <2>2
    <3> QED BY <3>1, ConcatProperties
  <2> DEFINE he == h \o e
  <2> HIDE DEF he
  <2>5. /\ he \o z \in Seq(Line) /\ Len(he \o z) = Len(he) + Len(z)
        /\ \A i \in 1..(Len(he) + Len(z)) :
              (he \o z)[i] = IF i <= Len(he) THEN he[i] ELSE z[i - Len(he)]
    BY <2>1, <2>4, ConcatProperties DEF he
  <2>6. /\ Len(he) = Len(s) + Len(l) + 1 /\ he[1] = Header
        /\ \A i \in 1..(Len(s) + Len(l)) : he[i + 1] = e[i]
    <3>1. Len(he) = Len(s) + Len(l) + 1 /\ he[1] = Header
      BY <2>1, <2>2, <2>4, <1>12 DEF he
    <3>2. ASSUME NEW i \in 1..(Len(s) + Len(l))
          PROVE  he[i + 1] = e[i]
      <4>1. i + 1 \in 1..(Len(h) + Len(e)) /\ ~(i + 1 <= Len(h)) /\ (i + 1) - Len(h) = i
        BY <2>1, <2>2, <1>12
      <4> QED BY <4>1, <2>4 DEF he
    <3> QED BY <3>1, <3>2
  <2>7. /\ lines \in Seq(Line) /\ Len(lines) = Len(s) + Len(l) + 2
        /\ lines[Len(s) + Len(l) + 2] = Footer
        /\ \A i \in 1..(Len(s) + Len(l) + 1) : lines[i] = he[i]
    BY <2>1, <2>3, <2>5, <2>6, <1>12 DEF he
  <2>8. ASSUME NEW i \in 1..Len(s)
        PROVE  lines[i + 1] = s[i]
    <3>1. /\ i + 1 \in 1..(Len(s) + Len(l) + 1) /\ i \in 1..(Len(s) + Len(l)) /\ i <= Len(s)
      BY <1>12
    <3> QED BY <3>1, <2>2, <2>6, <2>7
  <2>9. ASSUME NEW i \in 1..Len(l)
        PROVE  lines[i + Len(s) + 1] = l[i]
    <3> DEFINE j == i + Len(s)
    <3>1. /\ j + 1 \in 1..(Len(s) + Len(l) + 1) /\ j \in 1..(Len(s) + Len(l))
          /\ ~(j <= Len(s)) /\ j - Len(s) = i
      BY <1>12
    <3>2. lines[j + 1] = e[j] /\ e[j] = l[j - Len(s)]
      <4> HIDE DEF j
      <4> QED BY <3>1, <2>2, <2>6, <2>7
    <3> QED BY <3>1, <3>2
  <2>10. lines[1] = Header
    <3>1. 1 \in 1..(Len(s) + Len(l) + 1)
      BY <1>12
    <3> QED BY <3>1, <2>6, <2>7
  <2> QED BY <2>7, <2>8, <2>9, <2>10
<1>14. Layout(lines, d, t, s, l, os, ol)
  BY <1>10, <1>11, <1>13 DEF Layout, Ordered, strings, lists
<1> QED BY <1>14

\* What save() writes can be loaded, says what the database holds, and has no more
\* strings than fit.
LEMMA FileLoadable ==
    ASSUME NEW d, Sound(d), NEW t \in Int, NEW lines \in Files(d, t)
    PROVE  /\ Loadable(lines) /\ lines # <<>> /\ lines[1] = Header
           /\ Says(lines, d, t)
           /\ Fits(d) => Cardinality(StringKeys(lines)) <= MaxCapacity
<1>1. PICK s, l, os, ol : Layout(lines, d, t, s, l, os, ol)
  BY FileLayout
<1> DEFINE a == Len(s)
           b == Len(l)
<1>2. a \in Nat /\ b \in Nat /\ Len(lines) = a + b + 2 /\ lines \in Seq(Line)
  BY <1>1 DEF Layout
<1>3. d \in Database
  BY SoundDatabase
<1>4. ASSUME NEW j \in 1..a
      PROVE  /\ j + 1 \in 1..Len(lines) /\ os[j] \in LiveStrings(d, t)
             /\ lines[j + 1].type = "string" /\ lines[j + 1].key = os[j]
             /\ lines[j + 1].expiry = d.expiry[os[j]]
             /\ lines[j + 1].data = d.string_store[os[j]]
  <2>1. /\ lines[j + 1] = EntryOf("string", d.expiry, d.string_store, os[j])
        /\ os[j] \in LiveStrings(d, t)
    BY <1>1 DEF Layout
  <2>2. j + 1 \in 1..Len(lines)
    BY <1>2
  <2> QED BY <2>1, <2>2 DEF EntryOf
<1>5. ASSUME NEW j \in 1..b
      PROVE  /\ j + a + 1 \in 1..Len(lines) /\ ol[j] \in LiveLists(d, t)
             /\ lines[j + a + 1].type = "list" /\ lines[j + a + 1].key = ol[j]
             /\ lines[j + a + 1].expiry = d.expiry[ol[j]]
             /\ lines[j + a + 1].data = d.list_store[ol[j]]
  <2>1. /\ lines[j + a + 1] = EntryOf("list", d.expiry, d.list_store, ol[j])
        /\ ol[j] \in LiveLists(d, t)
    BY <1>1 DEF Layout
  <2>2. j + a + 1 \in 1..Len(lines)
    BY <1>2
  <2> QED BY <2>1, <2>2 DEF EntryOf
<1>6. ASSUME NEW i \in 1..Len(lines), IsEntry(lines[i])
      PROVE  \/ \E j \in 1..a : i = j + 1 /\ lines[i].type = "string"
             \/ \E j \in 1..b : i = j + a + 1 /\ lines[i].type = "list"
  <2>1. i # 1 /\ i # a + b + 2
    BY <1>1, <1>2, <1>6 DEF Layout, Header, Footer, IsEntry
  <2>2. CASE i <= a + 1
    <3>1. i - 1 \in 1..a /\ i = (i - 1) + 1
      BY <1>2, <2>1, <2>2
    <3> HIDE DEF a
    <3>2. lines[i].type = "string"
      BY <1>4, <3>1
    <3> QED BY <3>1, <3>2
  <2>3. CASE ~(i <= a + 1)
    <3>1. i - a - 1 \in 1..b /\ i = (i - a - 1) + a + 1
      BY <1>2, <2>1, <2>3
    <3> HIDE DEF a, b
    <3>2. lines[i].type = "list"
      BY <1>5, <3>1
    <3> QED BY <3>1, <3>2
  <2> QED BY <2>2, <2>3
<1>7. /\ \A i, j \in 1..a : i # j => os[i] # os[j]
      /\ \A i, j \in 1..b : i # j => ol[i] # ol[j]
      /\ \A k \in LiveStrings(d, t) : \E i \in 1..a : os[i] = k
      /\ \A k \in LiveLists(d, t) : \E i \in 1..b : ol[i] = k
      /\ lines[1] = Header
  BY <1>1 DEF Layout
<1> HIDE DEF a, b
<1>8. ASSUME NEW i \in 1..Len(lines), lines[i].type = "list"
      PROVE  lines[i].data # <<>>
  <2>1. PICK j \in 1..b : i = j + a + 1
    BY <1>6, <1>8 DEF IsEntry
  <2> QED BY <2>1, <1>5 DEF LiveLists
<1>9. ASSUME NEW i \in 1..Len(lines), NEW j \in 1..Len(lines), i < j,
             IsEntry(lines[i]), IsEntry(lines[j])
      PROVE  lines[i].key # lines[j].key /\ (lines[i].type = "list" => lines[j].type # "string")
  <2>1. CASE lines[i].type = "string" /\ lines[j].type = "string"
    <3>1. PICK p \in 1..a, q \in 1..a : i = p + 1 /\ j = q + 1
      BY <1>6, <1>9, <2>1
    <3>2. lines[i].key = os[p] /\ lines[j].key = os[q] /\ p # q
      BY <3>1, <1>4, <1>9, <1>2
    <3> QED BY <3>2, <1>7, <2>1
  <2>2. CASE lines[i].type = "list" /\ lines[j].type = "list"
    <3>1. PICK p \in 1..b, q \in 1..b : i = p + a + 1 /\ j = q + a + 1
      BY <1>6, <1>9, <2>2
    <3>2. lines[i].key = ol[p] /\ lines[j].key = ol[q] /\ p # q
      BY <3>1, <1>5, <1>9, <1>2
    <3> QED BY <3>2, <1>7, <2>2
  <2>3. CASE lines[i].type = "string" /\ lines[j].type = "list"
    <3>1. PICK p \in 1..a, q \in 1..b : i = p + 1 /\ j = q + a + 1
      BY <1>6, <1>9, <2>3
    <3>2. /\ lines[i].key = os[p] /\ os[p] \in LiveStrings(d, t)
          /\ lines[j].key = ol[q] /\ ol[q] \in LiveLists(d, t)
      BY <3>1, <1>4, <1>5
    <3>3. os[p] # ol[q]
      BY <3>2 DEF LiveStrings, LiveLists, Held, Sound, StoresSound
    <3> QED BY <3>2, <3>3, <2>3
  <2>4. CASE lines[i].type = "list" /\ lines[j].type = "string"
    <3>1. PICK p \in 1..b, q \in 1..a : i = p + a + 1 /\ j = q + 1
      BY <1>6, <1>9, <2>4
    <3> QED BY <3>1, <1>2, <1>9
  <2> QED BY <2>1, <2>2, <2>3, <2>4, <1>9 DEF IsEntry
<1>10. Loadable(lines)
  BY <1>2, <1>8, <1>9 DEF Loadable
<1>11. ASSUME NEW i \in 1..Len(lines), IsEntry(lines[i])
       PROVE  /\ lines[i].key \in Key /\ ~Elapsed(d, lines[i].key, t)
              /\ Holds(d, lines[i])
              /\ lines[i].type = "string" => lines[i].key \in Held(d.string_store)
  <2>1. CASE lines[i].type = "string"
    <3>1. PICK p \in 1..a : i = p + 1
      BY <1>6, <1>11, <2>1
    <3> QED BY <3>1, <1>4, <2>1 DEF LiveStrings, Held, Holds
  <2>2. CASE lines[i].type = "list"
    <3>1. PICK p \in 1..b : i = p + a + 1
      BY <1>6, <1>11, <2>2
    <3> QED BY <3>1, <1>5, <2>2 DEF LiveLists, Held, Holds
  <2> QED BY <2>1, <2>2, <1>11 DEF IsEntry
<1>12. ASSUME NEW k \in Key, Visible(d, k, t)
       PROVE  \E i \in 1..Len(lines) : IsEntry(lines[i]) /\ lines[i].key = k
  <2>1. CASE Has(d.string_store, k)
    <3>1. k \in LiveStrings(d, t)
      BY <1>12, <2>1 DEF LiveStrings, Held, Visible
    <3>2. PICK p \in 1..a : os[p] = k
      BY <3>1, <1>7
    <3> QED BY <3>2, <1>4 DEF IsEntry
  <2>2. CASE ~Has(d.string_store, k)
    <3>1. k \in LiveLists(d, t)
      BY <1>12, <2>2 DEF LiveLists, Held, Visible, Present, Sound, StoresSound
    <3>2. PICK p \in 1..b : ol[p] = k
      BY <3>1, <1>7
    <3> QED BY <3>2, <1>5 DEF IsEntry
  <2> QED BY <2>1, <2>2
<1>13. ASSUME Fits(d)
       PROVE  Cardinality(StringKeys(lines)) <= MaxCapacity
  <2>1. StringKeys(lines) \subseteq Held(d.string_store)
    BY <1>11 DEF StringKeys, StringLines, IsEntry
  <2>2. IsFiniteSet(Held(d.string_store))
    BY KeyAssumption, FS_Subset DEF Held
  <2>3. /\ Cardinality(StringKeys(lines)) <= Cardinality(Held(d.string_store))
        /\ Cardinality(StringKeys(lines)) \in Nat /\ Cardinality(Held(d.string_store)) \in Nat
    BY <2>1, <2>2, FS_Subset, FS_CardinalityType
  <2> QED BY <2>3, <1>13, CapacityAssumption DEF Fits
<1>14. lines # <<>>
  BY <1>2, EmptySeq
<1> QED BY <1>7, <1>10, <1>11, <1>12, <1>13, <1>14 DEF Says

-----------------------------------------------------------------------------
(* The invariant. *)

\* The lines of the save under way that are still in the buffer of its stream
\* are those after the n that the temporary file holds.
WrittenSoFar(n) ==
    /\ n \in 0..Len(saving.lines)
    /\ tmp[saving.path] = SubSeq(saving.lines, 1, n)
    /\ saving.pending = SubSeq(saving.lines, n + 1, Len(saving.lines))

\* Where a save stands.  A close that failed may have cut the temporary file.
SaveInv ==
    \/ saving = Idle
    \/ /\ saving = Saving(saving.path, saving.step, saving.pending, saving.lines)
       /\ saving.path \in Path /\ mode # "down"
       /\ saving.step \in {"write", "failed", "close", "rename"}
       /\ Loadable(saving.lines)
       /\ saving.step \in {"write", "close"} =>
            \E n \in 0..Len(saving.lines) : WrittenSoFar(n)
       /\ saving.step = "failed" => tmp[saving.path] \in Seq(Line)
       /\ saving.step = "rename" => Loadable(tmp[saving.path])

\* Every database file can be loaded, whatever happened to it.
Disk(f) == f = Absent \/ Loadable(f)
FileInv ==
    /\ file = [p \in Path |-> file[p]] /\ \A p \in Path : Disk(file[p])
    /\ durable = [p \in Path |-> durable[p]] /\ \A p \in Path : Disk(durable[p])
    /\ tmp = [p \in Path |-> tmp[p]] /\ \A p \in Path : tmp[p] \in Seq(Line) \cup {Absent}

DbInv ==
    /\ Sound(db) /\ Fits(db) /\ Sound(saved) /\ Fits(saved)
    /\ now \in 0..MaxTime /\ harmed \in BOOLEAN /\ mode \in {"down", "serving", "stopping"}

\* Until a close fails or the power goes: what a rename publishes is complete, the save
\* under way is of the database, and the file that the next start loads is the last
\* successful save.
UnharmedInv ==
    /\ saving.step = "rename" => tmp[saving.path] = saving.lines
    /\ saving # Idle => \E t \in 0..now : saving.lines \in Files(db, t)
    /\ file[RdbPath] = Absent => saved = EmptyDb
    /\ file[RdbPath] # Absent => \E t \in 0..now : file[RdbPath] \in Files(saved, t)

IInv == DbInv /\ FileInv /\ SaveInv /\ (harmed \/ UnharmedInv)

-----------------------------------------------------------------------------
(* Steps. *)

\* A fresh server has no file and no save under way.
LEMMA InitInv == Init => IInv
<1> SUFFICES ASSUME Init
             PROVE  IInv
  OBVIOUS
<1>1. DbInv
  <2>1. /\ db = EmptyDb /\ saved = EmptyDb /\ now = 0 /\ mode = "serving" /\ harmed = FALSE
    BY DEF Init
  <2>2. Sound(db) /\ Fits(db) /\ Sound(saved) /\ Fits(saved)
    BY <2>1, EmptySound
  <2>3. now \in 0..MaxTime
    BY <2>1, TimeAssumption
  <2> QED BY <2>1, <2>2, <2>3 DEF DbInv
<1>2. FileInv /\ SaveInv
  BY DEF Init, FileInv, SaveInv, NoFiles, Disk
<1>3. UnharmedInv
  BY DEF Init, UnharmedInv, NoFiles, Idle, Path
<1> QED BY <1>1, <1>2, <1>3 DEF IInv

\* Harm is not undone, and the clock does not run backwards.
LEMMA HarmStays == [Next]_vars /\ harmed => harmed'
BY DEF Next, vars, HandleCommand, HandleSave, Stop, BeginSave, Exit, Start, SaveStep,
       FlushBuffer, CheckStream, CloseStream, RenameFile, Kill, WriteBack, PowerLoss, Advance

\* Commands, loading and the publication of a save keep both databases sound.
LEMMA NextDbInv == IInv /\ [Next]_vars => DbInv'
<1> SUFFICES ASSUME IInv, [Next]_vars
             PROVE  DbInv'
  OBVIOUS
<1>1. /\ Sound(db) /\ Fits(db) /\ Sound(saved) /\ Fits(saved) /\ now \in 0..MaxTime
      /\ harmed \in BOOLEAN /\ mode \in {"down", "serving", "stopping"}
      /\ now \in Int /\ MaxTime \in Nat
  BY TimeAssumption DEF IInv, DbInv
<1>2. ASSUME NEW c \in Requests, HandleCommand(c)
      PROVE  DbInv'
  <2> DEFINE r == Execute(db, c, now)
  <2>1. /\ db' = r.db /\ UNCHANGED <<now, saved, harmed>>
        /\ mode' = (IF r.reply = Aborted THEN "down" ELSE mode)
        /\ \E cell \in Cell : FreeCell(db, cell)
    BY <1>2 DEF HandleCommand, HeapHasCell
  <2>2. GoodResult(r)
    BY <1>1, <2>1, ExecuteGood, RequestsAssumption
  <2> HIDE DEF r
  <2> QED BY <1>1, <2>1, <2>2 DEF DbInv, GoodResult
<1>3. CASE Start
  <2>1. /\ db' = Load(file[RdbPath], now) /\ mode' = "serving" /\ UNCHANGED <<now, saved, harmed>>
    BY <1>3 DEF Start
  <2>2. file[RdbPath] = Absent \/ Loadable(file[RdbPath])
    BY DEF IInv, FileInv, Disk, Path
  <2>3. Sound(Load(file[RdbPath], now)) /\ Fits(Load(file[RdbPath], now))
    BY <1>1, <2>2, LoadSound
  <2> QED BY <1>1, <2>1, <2>3 DEF DbInv
<1>4. CASE RenameFile
  BY <1>1, <1>4 DEF RenameFile, DbInv
<1>5. CASE Advance
  BY <1>1, <1>5 DEF Advance, DbInv
<1>6. CASE HandleSave \/ Stop \/ Exit
  BY <1>1, <1>6 DEF HandleSave, Stop, Exit, BeginSave, DbInv
<1>7. CASE FlushBuffer \/ CheckStream \/ CloseStream
  BY <1>1, <1>7 DEF FlushBuffer, CheckStream, CloseStream, DbInv
<1>8. CASE Kill \/ WriteBack \/ PowerLoss
  BY <1>1, <1>8 DEF Kill, WriteBack, PowerLoss, DbInv
<1>9. CASE UNCHANGED vars
  BY <1>1, <1>9 DEF vars, DbInv
<1> QED BY <1>2, <1>3, <1>4, <1>5, <1>6, <1>7, <1>8, <1>9 DEF Next, SaveStep

\* A save begins with nothing written and everything pending.
LEMMA BeginSaveInv ==
    ASSUME IInv, NEW path \in Path, BeginSave(path), saving = Idle, mode' # "down"
    PROVE  FileInv' /\ SaveInv' /\ (harmed \/ UnharmedInv')
<1>1. UNCHANGED <<db, now, file, durable, saved, harmed>>
  BY DEF BeginSave
<1>2. CASE UNCHANGED <<saving, tmp>>
  BY <1>1, <1>2 DEF IInv, FileInv, SaveInv, UnharmedInv
<1>3. ASSUME NEW lines \in Files(db, now), saving' = Saving(path, "write", lines, lines),
             tmp' = [tmp EXCEPT ![path] = <<>>]
      PROVE  FileInv' /\ SaveInv' /\ (harmed \/ UnharmedInv')
  <2>1. Sound(db) /\ now \in 0..MaxTime /\ now \in Int
    BY TimeAssumption DEF IInv, DbInv
  <2>2. Loadable(lines)
    BY <2>1, FileLoadable
  <2>3. lines \in Seq(Line) /\ Len(lines) \in Nat
    BY <2>2, LenProperties DEF Loadable
  <2>4. SubSeq(lines, 1, 0) = <<>> /\ SubSeq(lines, 1, Len(lines)) = lines
    BY <2>3, SubSeqEmpty, SubSeqFull
  <2>5. /\ saving'.path = path /\ saving'.step = "write"
        /\ saving'.pending = lines /\ saving'.lines = lines
    BY <1>3 DEF Saving
  <2>6. tmp'[path] = <<>>
    BY <1>3 DEF IInv, FileInv
  <2>7. WrittenSoFar(0)'
    BY <2>3, <2>4, <2>5, <2>6 DEF WrittenSoFar
  <2>8. SaveInv'
    BY <1>3, <2>2, <2>3, <2>5, <2>7 DEF SaveInv
  <2>9. FileInv'
    BY <1>1, <1>3, EmptySeq DEF IInv, FileInv
  <2>10. harmed \/ UnharmedInv'
    BY <1>1, <2>1, <2>5 DEF IInv, UnharmedInv
  <2> QED BY <2>8, <2>9, <2>10
<1> QED BY <1>2, <1>3 DEF BeginSave

\* Flushing moves the front of what is pending to the end of what is written.
LEMMA FlushBufferInv ==
    ASSUME IInv, FlushBuffer
    PROVE  FileInv' /\ SaveInv' /\ (harmed \/ UnharmedInv')
<1> DEFINE L == saving.lines
           p == saving.path
           q == saving.pending
<1>1. /\ saving = Saving(p, "write", q, L) /\ saving # Idle
      /\ p \in Path /\ mode # "down" /\ Loadable(L) /\ L \in Seq(Line) /\ Len(L) \in Nat
      /\ \E n \in 0..Len(L) : WrittenSoFar(n)
  BY LenProperties DEF IInv, SaveInv, FlushBuffer, In, Idle, Loadable
<1>2. PICK m \in 0..Len(L) : WrittenSoFar(m)
  BY <1>1
<1>3. q = SubSeq(L, m + 1, Len(L)) /\ tmp[p] = SubSeq(L, 1, m)
  BY <1>2 DEF WrittenSoFar
<1>4. UNCHANGED <<db, now, mode, file, durable, saved, harmed>>
  BY DEF FlushBuffer
<1>5. ASSUME NEW n \in 1..Len(q),
             tmp' = [tmp EXCEPT ![p] = @ \o SubSeq(q, 1, n)],
             saving' = [saving EXCEPT !.pending = SubSeq(@, n + 1, Len(@))]
      PROVE  /\ SaveInv' /\ tmp'[p] \in Seq(Line) /\ tmp' = [tmp EXCEPT ![p] = tmp'[p]]
             /\ saving' # Idle /\ saving'.step = "write" /\ saving'.lines = L
  <2> DEFINE rest == SubSeq(q, n + 1, Len(q))
  <2>1. /\ m + n \in 0..Len(L)
        /\ SubSeq(L, 1, m) \o SubSeq(q, 1, n) = SubSeq(L, 1, m + n)
        /\ rest = SubSeq(L, m + n + 1, Len(L))
    BY <1>1, <1>3, MoveFront
  <2>2. saving' = [saving EXCEPT !.pending = rest]
    BY <1>5
  <2> HIDE DEF rest
  <2>3. /\ saving' = Saving(p, "write", rest, L)
        /\ saving'.path = p /\ saving'.step = "write" /\ saving'.lines = L
        /\ saving'.pending = rest /\ saving' # Idle
    BY <1>1, <2>2 DEF Saving, Idle
  <2>4. tmp'[p] = SubSeq(L, 1, m + n) /\ tmp' = [tmp EXCEPT ![p] = tmp'[p]]
    BY <1>1, <1>3, <1>5, <2>1 DEF IInv, FileInv
  <2>5. WrittenSoFar(m + n)'
    BY <2>1, <2>3, <2>4 DEF WrittenSoFar
  <2>6. SaveInv'
    BY <1>1, <1>4, <2>1, <2>3, <2>5 DEF SaveInv
  <2>7. SubSeq(L, 1, m + n) \in Seq(Line)
    <3>1. \A i \in 1..(m + n) : L[i] \in Line
      BY <1>1, <2>1, ElementOfSeq
    <3>2. 1 \in Int /\ m + n \in Int
      BY <1>1, <2>1
    <3> QED BY <3>1, <3>2, SubSeqProperties
  <2> QED BY <2>3, <2>4, <2>6, <2>7
<1>6. ASSUME saving' = [saving EXCEPT !.step = "failed"],
             NEW cut \in CutOff(q), tmp' = [tmp EXCEPT ![p] = @ \o cut]
      PROVE  /\ SaveInv' /\ tmp'[p] \in Seq(Line) /\ tmp' = [tmp EXCEPT ![p] = tmp'[p]]
             /\ saving' # Idle /\ saving'.step = "failed" /\ saving'.lines = L
  <2>1. /\ saving' = Saving(p, "failed", q, L)
        /\ saving'.path = p /\ saving'.step = "failed" /\ saving'.lines = L
        /\ saving'.pending = q /\ saving' # Idle
    BY <1>1, <1>6 DEF Saving, Idle
  <2>2. \A i \in 1..Len(L) : L[i] \in Line
    BY <1>1, ElementOfSeq
  <2>3. q \in Seq(Line) /\ tmp[p] \in Seq(Line)
    BY <1>1, <1>3, <2>2, SubSeqProperties
  <2>4. cut \in Seq(Line)
    BY <2>3, CutOffLeft DEF LeftOf
  <2>5. tmp'[p] = tmp[p] \o cut /\ tmp' = [tmp EXCEPT ![p] = tmp'[p]]
    BY <1>1, <1>6 DEF IInv, FileInv
  <2>6. tmp'[p] \in Seq(Line)
    BY <2>3, <2>4, <2>5, ConcatProperties
  <2> QED BY <1>1, <1>4, <2>1, <2>5, <2>6 DEF SaveInv
<1>7. /\ SaveInv' /\ tmp'[p] \in Seq(Line) /\ tmp' = [tmp EXCEPT ![p] = tmp'[p]]
      /\ saving' # Idle /\ saving'.step # "rename" /\ saving'.lines = L
  BY <1>5, <1>6 DEF FlushBuffer
<1>8. FileInv'
  BY <1>1, <1>4, <1>7 DEF IInv, FileInv
<1>9. harmed \/ UnharmedInv'
  BY <1>1, <1>4, <1>7 DEF IInv, UnharmedInv
<1> QED BY <1>7, <1>8, <1>9

\* A failed save ends; one that has not failed keeps what it has written.
LEMMA CheckStreamInv ==
    ASSUME IInv, CheckStream
    PROVE  FileInv' /\ SaveInv' /\ (harmed \/ UnharmedInv')
<1>1. UNCHANGED <<db, now, mode, file, durable, saved, harmed>>
  BY DEF CheckStream
<1>2. CASE In("write")
  <2>1. saving' = [saving EXCEPT !.step = "close"] /\ UNCHANGED tmp
    BY <1>2 DEF CheckStream, In
  <2>2. /\ saving = Saving(saving.path, "write", saving.pending, saving.lines)
        /\ saving # Idle
    BY <1>2 DEF IInv, SaveInv, In, Idle
  <2>3. /\ saving' = Saving(saving.path, "close", saving.pending, saving.lines)
        /\ saving'.path = saving.path /\ saving'.step = "close"
        /\ saving'.lines = saving.lines /\ saving'.pending = saving.pending
    BY <2>1, <2>2 DEF Saving
  <2>4. \A n : WrittenSoFar(n) => WrittenSoFar(n)'
    BY <2>1, <2>3 DEF WrittenSoFar
  <2>5. SaveInv'
    BY <1>1, <1>2, <2>2, <2>3, <2>4 DEF IInv, SaveInv, In
  <2> QED BY <1>1, <2>1, <2>2, <2>3, <2>5 DEF IInv, FileInv, UnharmedInv
<1>3. CASE In("failed")
  <2>1. /\ saving' = Idle /\ tmp' = [tmp EXCEPT ![saving.path] = Absent]
    BY <1>3 DEF CheckStream, In
  <2> QED BY <1>1, <2>1 DEF IInv, FileInv, SaveInv, UnharmedInv, Idle
<1> QED BY <1>2, <1>3 DEF CheckStream

\* A close that does not fail completes the temporary file; one that fails leaves a
\* part of it.
LEMMA CloseStreamInv ==
    ASSUME IInv, CloseStream
    PROVE  FileInv' /\ SaveInv' /\ (harmed' \/ UnharmedInv')
<1> DEFINE L == saving.lines
           p == saving.path
           q == saving.pending
<1>1. /\ saving = Saving(p, "close", q, L) /\ saving # Idle
      /\ p \in Path /\ mode # "down" /\ Loadable(L) /\ L \in Seq(Line) /\ Len(L) \in Nat
      /\ \E n \in 0..Len(L) : WrittenSoFar(n)
  BY LenProperties DEF IInv, SaveInv, CloseStream, In, Idle, Loadable
<1>2. PICK n \in 0..Len(L) : WrittenSoFar(n)
  BY <1>1
<1>3. q = SubSeq(L, n + 1, Len(L)) /\ tmp[p] = SubSeq(L, 1, n)
  BY <1>2 DEF WrittenSoFar
<1>4. /\ UNCHANGED <<db, now, mode, file, durable, saved>>
      /\ saving' = [saving EXCEPT !.step = "rename", !.pending = <<>>]
  BY DEF CloseStream
<1>5. /\ saving' = Saving(p, "rename", <<>>, L)
      /\ saving'.path = p /\ saving'.step = "rename" /\ saving'.lines = L
      /\ saving'.pending = <<>> /\ saving' # Idle
  BY <1>1, <1>4 DEF Saving, Idle
<1>6. SubSeq(L, 1, n) \o SubSeq(L, n + 1, Len(L)) = L
  BY <1>1, SplitSeq
<1>7. CASE tmp' = [tmp EXCEPT ![p] = @ \o q] /\ UNCHANGED harmed
  <2>1. tmp'[p] = L /\ tmp' = [tmp EXCEPT ![p] = L]
    BY <1>1, <1>3, <1>6, <1>7 DEF IInv, FileInv
  <2>2. SaveInv'
    BY <1>1, <1>4, <1>5, <2>1 DEF SaveInv
  <2>3. FileInv'
    BY <1>1, <1>4, <2>1 DEF IInv, FileInv
  <2>4. harmed' \/ UnharmedInv'
    BY <1>1, <1>4, <1>5, <1>7, <2>1 DEF IInv, UnharmedInv
  <2> QED BY <2>2, <2>3, <2>4
<1>8. ASSUME NEW cut \in CutOff(q), tmp' = [tmp EXCEPT ![p] = @ \o cut], harmed' = TRUE
      PROVE  FileInv' /\ SaveInv'
  <2>1. \A i \in 1..Len(L) : L[i] \in Line
    BY <1>1, ElementOfSeq
  <2>2. q \in Seq(Line)
    BY <1>1, <1>3, <2>1, SubSeqProperties
  <2>3. LeftOf(cut, q)
    BY <2>2, CutOffLeft
  <2>4. Loadable(SubSeq(L, 1, n) \o cut)
    BY <1>1, <1>3, <2>3, WrittenLeft, LeftLoadable
  <2>5. tmp'[p] = SubSeq(L, 1, n) \o cut /\ tmp' = [tmp EXCEPT ![p] = tmp'[p]]
    BY <1>1, <1>3, <1>8 DEF IInv, FileInv
  <2>6. SaveInv'
    BY <1>1, <1>4, <1>5, <2>4, <2>5 DEF SaveInv
  <2>7. FileInv'
    BY <1>1, <1>4, <2>4, <2>5 DEF IInv, FileInv, Loadable
  <2> QED BY <2>6, <2>7
<1> QED BY <1>7, <1>8 DEF CloseStream

\* The rename ends the save; when it succeeds, the file is the save of this database.
LEMMA RenameFileInv ==
    ASSUME IInv, RenameFile
    PROVE  FileInv' /\ SaveInv' /\ (harmed \/ UnharmedInv')
<1> DEFINE p == saving.path
<1>1. /\ saving # Idle /\ p \in Path /\ saving.step = "rename" /\ Loadable(tmp[p])
  BY DEF IInv, SaveInv, RenameFile, In, Idle
<1>2. /\ saving' = Idle /\ tmp' = [tmp EXCEPT ![p] = Absent]
      /\ UNCHANGED <<db, now, durable, harmed>>
  BY DEF RenameFile
<1>3. SaveInv'
  BY <1>2 DEF SaveInv
<1>4. CASE UNCHANGED <<file, saved>>
  BY <1>1, <1>2, <1>3, <1>4 DEF IInv, FileInv, UnharmedInv, Idle
<1>5. CASE /\ file' = [file EXCEPT ![p] = tmp[p]]
           /\ saved' = IF p = RdbPath THEN db ELSE saved
  <2>1. FileInv'
    BY <1>1, <1>2, <1>5 DEF IInv, FileInv, Disk
  <2>2. ASSUME UnharmedInv
        PROVE  UnharmedInv'
    <3>1. /\ tmp[p] = saving.lines /\ \E t \in 0..now : tmp[p] \in Files(db, t)
      BY <1>1, <2>2 DEF UnharmedInv
    <3>2. saving'.step # "rename" /\ saving' = Idle /\ UNCHANGED <<db, now>>
      BY <1>2 DEF Idle
    <3>3. CASE p = RdbPath
      <4>1. file'[RdbPath] = tmp[p] /\ saved' = db /\ tmp[p] # Absent
        BY <1>1, <1>5, <3>3, AbsentFileAssumption DEF IInv, FileInv, Path, Loadable
      <4> QED BY <3>1, <3>2, <4>1 DEF UnharmedInv
    <3>4. CASE p # RdbPath
      <4>1. file'[RdbPath] = file[RdbPath] /\ saved' = saved
        BY <1>1, <1>5, <3>4 DEF IInv, FileInv, Path
      <4> QED BY <2>2, <3>2, <4>1 DEF UnharmedInv
    <3> QED BY <3>3, <3>4
  <2> QED BY <1>3, <2>1, <2>2 DEF IInv
<1> QED BY <1>4, <1>5 DEF RenameFile

\* A loss of power leaves files that are old, new, or the beginning of the new one.
LEMMA PowerLossInv ==
    ASSUME IInv, PowerLoss
    PROVE  FileInv' /\ SaveInv'
<1>1. saving' = Idle /\ tmp' = NoFiles
  BY DEF PowerLoss
<1>2. PICK p \in Path :
        \E left \in {durable[p], file[p]}
                    \cup (IF file[p] \in {durable[p], Absent} THEN {} ELSE CutOff(file[p])) :
           file' = [durable EXCEPT ![p] = left] /\ durable' = file'
  BY DEF PowerLoss
<1>3. PICK left \in {durable[p], file[p]}
                    \cup (IF file[p] \in {durable[p], Absent} THEN {} ELSE CutOff(file[p])) :
           file' = [durable EXCEPT ![p] = left] /\ durable' = file'
  BY <1>2
<1>4. Disk(left)
  <2>1. Disk(durable[p]) /\ Disk(file[p])
    BY DEF IInv, FileInv
  <2>2. ASSUME file[p] # Absent, left \in CutOff(file[p])
        PROVE  Disk(left)
    <3>1. Loadable(file[p]) /\ file[p] \in Seq(Line)
      BY <2>1, <2>2 DEF Disk, Loadable
    <3>2. LeftOf(left, file[p])
      BY <2>2, <3>1, CutOffLeft
    <3> QED BY <3>1, <3>2, LeftLoadable DEF Disk
  <2> QED BY <2>1, <2>2, <1>3
<1>5. FileInv'
  BY <1>1, <1>3, <1>4 DEF IInv, FileInv, NoFiles
<1> QED BY <1>1, <1>5 DEF SaveInv

\* Every step keeps the invariant.
LEMMA NextInv == IInv /\ [Next]_vars => IInv'
<1> SUFFICES ASSUME IInv, [Next]_vars
             PROVE  FileInv' /\ SaveInv' /\ (harmed' \/ UnharmedInv')
  BY NextDbInv DEF IInv
<1>1. ASSUME UNCHANGED <<file, tmp, durable, saved, harmed>>, saving' = Idle,
             now' \in Nat, now' >= now
      PROVE  FileInv' /\ SaveInv' /\ (harmed' \/ UnharmedInv')
  <2>1. now \in Nat /\ \A t \in 0..now : t \in 0..now'
    BY <1>1, TimeAssumption DEF IInv, DbInv
  <2> QED BY <1>1, <2>1 DEF IInv, FileInv, SaveInv, UnharmedInv, Idle
<1>2. now \in Nat
  BY TimeAssumption DEF IInv, DbInv
<1>3. ASSUME NEW c \in Requests, HandleCommand(c)
      PROVE  FileInv' /\ SaveInv' /\ (harmed' \/ UnharmedInv')
  BY <1>1, <1>2, <1>3 DEF HandleCommand
<1>4. CASE HandleSave
  BY <1>4, BeginSaveInv DEF HandleSave, Path, BeginSave
<1>5. CASE Stop
  BY <1>5, BeginSaveInv DEF Stop, Path, BeginSave
<1>6. CASE Exit \/ Kill
  BY <1>1, <1>2, <1>6 DEF Exit, Kill
<1>7. CASE Start
  <2>1. saving' = Idle
    BY <1>7 DEF Start, IInv, SaveInv
  <2> QED BY <1>1, <1>2, <1>7, <2>1 DEF Start
<1>8. CASE SaveStep
  <2>1. CASE FlushBuffer \/ CheckStream \/ RenameFile
    <3>1. UNCHANGED harmed
      BY <2>1 DEF FlushBuffer, CheckStream, RenameFile
    <3> QED BY <2>1, <3>1, FlushBufferInv, CheckStreamInv, RenameFileInv
  <2> QED BY <1>8, <2>1, CloseStreamInv DEF SaveStep
<1>9. CASE WriteBack
  BY <1>9 DEF WriteBack, IInv, FileInv, SaveInv, UnharmedInv, WrittenSoFar
<1>10. CASE PowerLoss
  BY <1>10, PowerLossInv DEF PowerLoss
<1>11. CASE Advance
  <2>1. now' \in Nat /\ \A t \in 0..now : t \in 0..now'
    BY <1>2, <1>11 DEF Advance
  <2>2. UNCHANGED <<db, mode, saving, file, tmp, durable, saved, harmed>>
    BY <1>11 DEF Advance
  <2> QED BY <2>1, <2>2 DEF IInv, FileInv, SaveInv, UnharmedInv, WrittenSoFar
<1>12. CASE UNCHANGED vars
  BY <1>12 DEF vars, IInv, FileInv, SaveInv, UnharmedInv, WrittenSoFar
<1> QED BY <1>3, <1>4, <1>5, <1>6, <1>7, <1>8, <1>9, <1>10, <1>11, <1>12 DEF Next

\* So the invariant holds throughout.
LEMMA Invariance == Spec => []IInv
BY InitInv, NextInv, PTL DEF Spec


\* The type invariant: files are made of lines, and a save under way has its temporary
\* file, whatever failed before.
THEOREM FilesTypeCorrect == Spec => []TypeOK
<1>1. IInv => TypeOK
  <2> SUFFICES ASSUME IInv
               PROVE  TypeOK
    OBVIOUS
  <2>1. /\ db \in Database /\ saved \in Database /\ harmed \in BOOLEAN
        /\ now \in 0..MaxTime /\ mode \in {"down", "serving", "stopping"}
    BY SoundDatabase DEF IInv, DbInv
  <2>2. saving.step \in {"idle", "write", "failed", "close", "rename"}
    BY DEF IInv, SaveInv, Idle
  <2>3. /\ file \in [Path -> Seq(Line) \cup {Absent}]
        /\ durable \in [Path -> Seq(Line) \cup {Absent}]
    BY DEF IInv, FileInv, Disk, Loadable
  <2>4. tmp \in [Path -> Seq(Line) \cup {Absent}]
    BY DEF IInv, FileInv
  <2>5. ASSUME saving # Idle
        PROVE  mode # "down" /\ tmp[saving.path] # Absent
    <3>1. CASE saving.step \in {"write", "close"}
      <4>1. PICK n \in 0..Len(saving.lines) : WrittenSoFar(n)
        BY <2>5, <3>1 DEF IInv, SaveInv
      <4>2. saving.lines \in Seq(Line)
        BY <2>5 DEF IInv, SaveInv, Loadable
      <4>3. \A i \in 1..n : saving.lines[i] \in Line
        BY <4>2, LenProperties, ElementOfSeq
      <4>4. tmp[saving.path] \in Seq(Line)
        BY <4>1, <4>3, SubSeqProperties DEF WrittenSoFar
      <4> QED BY <2>5, <4>4, AbsentFileAssumption DEF IInv, SaveInv
    <3>2. CASE saving.step \in {"failed", "rename"}
      BY <2>5, <3>2, AbsentFileAssumption DEF IInv, SaveInv, Loadable
    <3> QED BY <2>5, <3>1, <3>2 DEF IInv, SaveInv
  <2> QED BY <2>1, <2>2, <2>3, <2>4, <2>5 DEF TypeOK
<1> QED BY <1>1, Invariance, PTL

\* Whatever the disk has been left with, the commands always work on a sound database:
\* the strings fit, every iterator of one is valid, no list is empty, no key has two
\* types or a deadline without a value.
THEOREM LoadedDatabaseSound == Spec => []LoadedIsSound
<1>1. IInv => LoadedIsSound
  <2> SUFFICES ASSUME Sound(db), Fits(db)
               PROVE  LoadedIsSound
    BY DEF IInv, DbInv
  <2>1. ASSUME NEW k \in Key, Has(db.string_store, k)
        PROVE  \E i \in 1..Len(db.lru_order) : Points(db, k, i)
    BY <2>1 DEF Sound, Tracked, LruSound, Linked
  <2> QED BY <2>1 DEF LoadedIsSound, Fits, Sound, StoresSound
<1> QED BY <1>1, Invariance, PTL

\* Only a rename changes a database file before a close has failed or the power has
\* gone, and then the temporary file is complete.
THEOREM FilesOldOrNew == Spec => OldOrNew
<1> DEFINE Step == harmed' \/ \A p \in Path : file'[p] # file[p] => Complete(p)
<1>1. IInv /\ [Next]_vars => [Step]_vars
  <2> SUFFICES ASSUME IInv, Next, ~harmed'
               PROVE  \A p \in Path : file'[p] # file[p] => Complete(p)
    OBVIOUS
  <2>1. ~harmed
    BY HarmStays
  <2>2. CASE RenameFile
    <3>1. tmp[saving.path] = saving.lines /\ saving # Idle
      BY <2>1, <2>2 DEF IInv, UnharmedInv, RenameFile, In, Idle
    <3>2. \/ file' = file
          \/ file' = [file EXCEPT ![saving.path] = tmp[saving.path]]
      BY <2>2 DEF RenameFile
    <3>3. file = [p \in Path |-> file[p]]
      BY DEF IInv, FileInv
    <3> QED BY <3>1, <3>2, <3>3 DEF Complete
  <2>3. CASE ~RenameFile
    <3>1. ~PowerLoss
      BY DEF PowerLoss
    <3>2. file' = file
      BY <2>3, <3>1 DEF Next, HandleCommand, HandleSave, Stop, BeginSave, Exit, Start,
         SaveStep, FlushBuffer, CheckStream, CloseStream, Kill, WriteBack, Advance
    <3> QED BY <3>2
  <2> QED BY <2>2, <2>3
<1> QED BY <1>1, Invariance, PTL DEF Spec, OldOrNew

\* What is loaded from a file is what the file says and has not expired since.
LEMMA LoadedSays ==
    ASSUME NEW d, Sound(d), Fits(d), NEW t \in Int, NEW u \in Int, t <= u,
           NEW f \in Files(d, t), NEW e, e = Load(f, u), NEW k \in Key
    PROVE  /\ Visible(e, k, u) <=> Visible(d, k, u)
           /\ Visible(d, k, u) => SameAt(d, e, k)
<1>1. /\ Loadable(f) /\ f # <<>> /\ f[1] = Header /\ Says(f, d, t)
      /\ Cardinality(StringKeys(f)) <= MaxCapacity
  BY FileLoadable
<1>2. LoadedTo(e, f, Len(f), u)
  BY <1>1, LoadedWhole
<1>3. d \in Database /\ e \in Database
  BY <1>2, SoundDatabase DEF LoadedTo
<1>4. ASSUME NEW i \in 1..Len(f), LiveLine(f[i], u), f[i].key = k
      PROVE  Visible(d, k, u) /\ Visible(e, k, u) /\ SameAt(d, e, k)
  <2>1. Holds(e, f[i]) /\ IsEntry(f[i]) /\ Holds(d, f[i]) /\ f[i] \in Line
    BY <1>1, <1>2, <1>4, ElementOfSeq DEF LoadedTo, Says, LiveLine, Loadable
  <2>2. /\ f[i].type = "string" => f[i].data \in Value
        /\ f[i].type = "list" => f[i].data \in Seq(Value)
    BY <2>1, LineTyped
  <2>3. ~Elapsed(d, k, u) /\ ~Elapsed(e, k, u)
    BY <1>4, <2>1 DEF LiveLine, Holds, Elapsed, Has
  <2>4. \/ /\ Has(d.string_store, k) /\ Has(e.string_store, k)
           /\ d.string_store[k] = e.string_store[k]
        \/ /\ Has(d.list_store, k) /\ Has(e.list_store, k)
           /\ d.list_store[k] = e.list_store[k]
    BY <1>4, <2>1, <2>2, AbsentAssumption DEF Holds, IsEntry, Has
  <2>5. SameAt(d, e, k)
    BY <1>2, <1>4, <2>1, <2>4 DEF LoadedTo, Sound, StoresSound, SameAt, Holds, Has
  <2> QED BY <2>3, <2>4, <2>5 DEF Visible, Present
<1>5. ASSUME Visible(e, k, u)
      PROVE  Visible(d, k, u)
  <2>1. PICK i \in 1..Len(f) : LiveLine(f[i], u) /\ f[i].key = k
    BY <1>2, <1>5 DEF LoadedTo, Visible
  <2> QED BY <2>1, <1>4
<1>6. ASSUME Visible(d, k, u)
      PROVE  Visible(e, k, u) /\ SameAt(d, e, k)
  <2>1. Visible(d, k, t)
    BY <1>3, <1>6 DEF Visible, Elapsed, Database, Has
  <2>2. PICK i \in 1..Len(f) : IsEntry(f[i]) /\ f[i].key = k
    BY <1>1, <2>1 DEF Says
  <2>3. Holds(d, f[i])
    BY <1>1, <2>2 DEF Says
  <2>4. LiveLine(f[i], u)
    BY <1>6, <2>2, <2>3 DEF LiveLine, Holds, Visible, Elapsed, Has
  <2> QED BY <2>2, <2>4, <1>4
<1> QED BY <1>5, <1>6

\* A start recovers the last successful save of its file, key by key, and nothing else,
\* until a close fails or the power goes.
THEOREM LastSaveRecovered == Spec => RecoversLastSave
<1> DEFINE Same(k) == /\ Data(db', k) = Data(saved, k)
                      /\ Data(saved, k) # Absent => db'.expiry[k] = saved.expiry[k]
           Step == Start /\ ~harmed => \A k \in Key : Same(k)
<1>1. IInv /\ [Next]_vars => [Step]_vars
  <2> SUFFICES ASSUME IInv, Start, ~harmed, NEW k \in Key
               PROVE  Same(k)
    OBVIOUS
  <2>1. /\ Sound(saved) /\ Fits(saved) /\ now \in Nat /\ now \in Int
    BY TimeAssumption DEF IInv, DbInv
  <2>2. db' = Load(file[RdbPath], now)
    BY DEF Start
  <2>3. CASE file[RdbPath] = Absent
    <3>1. saved = EmptyDb
      BY <2>3 DEF IInv, UnharmedInv
    <3>2. db' = saved
      BY <2>2, <2>3, <3>1 DEF Load
    <3> QED BY <3>2
  <2>4. CASE file[RdbPath] # Absent
    <3>1. PICK t \in 0..now : file[RdbPath] \in Files(saved, t)
      BY <2>4 DEF IInv, UnharmedInv
    <3>2. t \in Int /\ t <= now
      BY <2>1
    <3>3. /\ Visible(db', k, now) <=> Visible(saved, k, now)
          /\ Visible(saved, k, now) => SameAt(saved, db', k)
      BY <2>1, <2>2, <3>1, <3>2, LoadedSays
    <3> QED BY <3>3 DEF Data, SameAt, IsString, Has
  <2> QED BY <2>3, <2>4
<1> QED BY <1>1, Invariance, PTL DEF Spec, RecoversLastSave
=============================================================================
