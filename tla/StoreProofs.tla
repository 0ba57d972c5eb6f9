---------------------------- MODULE StoreProofs ----------------------------
(***************************************************************************)
(* A store that loads is the one that saving the loaded state would write, *)
(* and one that was saved is loaded as it was: OneEncoding, and            *)
(* SavedIsLoaded, for every state, every limit and every rewriting.        *)
(*                                                                         *)
(* The loops of the reader are folds: FieldTurns, EntryTurns and           *)
(* RecordTurns give their readers turn by turn. Reads is what each part of *)
(* the reader is shown to do with any tokens: those between two readers    *)
(* are what the writer would append of what was read, and nothing else was *)
(* read over. Ready is the reader before tokens that were written: each    *)
(* part goes on behind them, with what they were written of. Either way    *)
(* the fields of a layout, a list, a record, a collection, and the body    *)
(* are each made of the ones before. The second way also takes sizes: that *)
(* of a sequence is the total of its parts, so the least sizes the reader  *)
(* asks for are there.                                                     *)
(***************************************************************************)
EXTENDS Store, SlotTheorems, SequenceTheorems

----------------------------------------------------------------------------
(* Folds over a sequence, turn by turn.                                     *)

\* The greatest of some of the numbers up to n is one of them.
LEMMA MaxIsIn ==
  ASSUME NEW n \in Nat, NEW s \in SUBSET (1..n), s # {}
  PROVE  Max(s) \in s
<1>1. s \in SUBSET Nat /\ \A x \in s : x <= n
  OBVIOUS
<1>2. \E x \in s : \A y \in s : y <= x
  BY <1>1, GreatestNatural
<1>3. \E x \in s : \A y \in s : x >= y
  BY <1>1, <1>2
<1> QED
  BY <1>3 DEF Max

\* It is n if n is among them.
LEMMA MaxIsLast ==
  ASSUME NEW n \in Nat, NEW s \in SUBSET (1..n), n \in s
  PROVE  Max(s) = n
<1>1. Max(s) \in s /\ \A y \in s : Max(s) >= y
  <2>1. \E x \in s : \A y \in s : x >= y
    OBVIOUS
  <2> QED
    BY <2>1 DEF Max
<1>2. Max(s) \in 1..n /\ Max(s) >= n
  BY <1>1
<1> QED
  BY <1>2

\* The turns of GetAll: each field of the layout is read where the last one ended.
LEMMA FieldTurns ==
  ASSUME NEW reader, NEW layout, NEW n \in Nat, DOMAIN layout = 1..n
  PROVE  \E h : /\ h[0] = reader /\ h[n] = GetAll(reader, layout)
                /\ \A i \in 1..n : h[i] = Get(h[i - 1], layout[i][1], layout[i][2])
<1> DEFINE Step(g, s) == IF s = {} THEN reader
                         ELSE Get(g[s \ {Max(s)}], layout[Max(s)][1], layout[Max(s)][2])
           Fix(g, k) == g = [s \in SUBSET (1..k) |-> Step(g, s)]
           P == {k \in Nat : \E g : Fix(g, k)}
<1>1. 0 \in P
  <2>1. Fix([s \in SUBSET (1..0) |-> reader], 0)
    OBVIOUS
  <2> QED
    BY <2>1
<1>2. ASSUME NEW k \in Nat, k \in P PROVE k + 1 \in P
  <2>1. PICK g : Fix(g, k)
    BY <1>2
  <2> DEFINE f == [s \in SUBSET (1..(k + 1)) |-> IF s \in SUBSET (1..k) THEN g[s] ELSE Step(g, s)]
  <2>2. ASSUME NEW s \in SUBSET (1..(k + 1)) PROVE f[s] = Step(f, s)
    <3>1. CASE s = {}
      BY <2>1, <3>1
    <3>2. CASE s # {} /\ s \in SUBSET (1..k)
      <4>1. Max(s) \in s
        BY <3>2, MaxIsIn
      <4>2. s \ {Max(s)} \in SUBSET (1..k) /\ s \ {Max(s)} \in SUBSET (1..(k + 1))
        BY <3>2
      <4>3. f[s] = g[s] /\ f[s \ {Max(s)}] = g[s \ {Max(s)}]
        BY <3>2, <4>2
      <4>4. g[s] = Step(g, s)
        BY <2>1, <3>2
      <4> HIDE DEF f
      <4> QED
        BY <3>2, <4>3, <4>4
    <3>3. CASE s \notin SUBSET (1..k)
      <4>1. k + 1 \in s
        BY <3>3
      <4>2. Max(s) = k + 1
        BY <4>1, MaxIsLast
      <4>3. s \ {Max(s)} \in SUBSET (1..k) /\ s \ {Max(s)} \in SUBSET (1..(k + 1))
        BY <4>2
      <4>4. f[s] = Step(g, s) /\ f[s \ {Max(s)}] = g[s \ {Max(s)}]
        BY <3>3, <4>3
      <4> HIDE DEF f
      <4> QED
        BY <4>1, <4>4
    <3> QED
      BY <3>1, <3>2, <3>3
  <2>3. f = [s \in SUBSET (1..(k + 1)) |-> Step(f, s)]
    <3>1. DOMAIN f = SUBSET (1..(k + 1)) /\ f = [s \in SUBSET (1..(k + 1)) |-> f[s]]
      OBVIOUS
    <3> HIDE DEF f, Step
    <3> QED
      BY <2>2, <3>1
  <2> HIDE DEF f, Step
  <2>4. \E q : Fix(q, k + 1)
    BY <2>3
  <2> QED
    BY <2>4
<1>3. \E g : Fix(g, n)
  <2> HIDE DEF P, Fix
  <2>1. Nat \subseteq P
    BY <1>1, <1>2, EveryNatural
  <2> QED
    BY <2>1 DEF P
<1> DEFINE iter == CHOOSE g : Fix(g, n)
<1>4. Fix(iter, n)
  <2> HIDE DEF Fix
  <2> QED
    BY <1>3
<1>5. iter = CHOOSE g : g = [s \in SUBSET (1..n) |-> Step(g, s)]
  OBVIOUS
<1>6. GetAll(reader, layout) = iter[1..n]
  BY <1>5, Zenon DEF GetAll, FoldLeft, MapThenFoldSet
<1> HIDE DEF iter
<1> DEFINE h == [i \in 0..n |-> iter[1..i]]
<1>7. h[0] = reader
  <2>1. 1..0 = {} /\ {} \in SUBSET (1..n)
    OBVIOUS
  <2>2. iter[{}] = Step(iter, {})
    BY <1>4, <2>1
  <2>3. h[0] = iter[{}]
    BY <2>1
  <2> HIDE DEF h
  <2> QED
    BY <2>2, <2>3
<1>8. ASSUME NEW i \in 1..n PROVE h[i] = Get(h[i - 1], layout[i][1], layout[i][2])
  <2>1. 1..i \in SUBSET (1..n) /\ i \in 1..i /\ 1..i \in SUBSET (1..i) /\ (1..i) \ {i} = 1..(i - 1)
    OBVIOUS
  <2>2. Max(1..i) = i
    BY <2>1, MaxIsLast
  <2>3. iter[1..i] = Step(iter, 1..i)
    BY <1>4, <2>1
  <2>4. 1..i # {}
    BY <2>1
  <2>5. iter[1..i] = Get(iter[1..(i - 1)], layout[i][1], layout[i][2])
    BY <2>1, <2>2, <2>3, <2>4, Zenon
  <2>6. h[i] = iter[1..i] /\ h[i - 1] = iter[1..(i - 1)]
    OBVIOUS
  <2> HIDE DEF h
  <2> QED
    BY <2>5, <2>6
<1>9. h[n] = GetAll(reader, layout)
  BY <1>6
<1> HIDE DEF h
<1> QED
  BY <1>7, <1>8, <1>9

\* The turns of GetEntries: each entry is read where the last one ended.
LEMMA EntryTurns ==
  ASSUME NEW reader, NEW name, NEW layout, NEW n \in Nat
  PROVE  \E h : /\ h[0] = reader
                /\ h[n] = EntryLoop(reader, name, layout, n)
                /\ \A i \in 1..n : h[i] = GetEntry(h[i - 1], name, layout)
<1> DEFINE Step(g, s) == IF s = {} THEN reader
                         ELSE GetEntry(g[s \ {Max(s)}], name, layout)
           Fix(g, k) == g = [s \in SUBSET (1..k) |-> Step(g, s)]
           P == {k \in Nat : \E g : Fix(g, k)}
<1>1. 0 \in P
  <2>1. Fix([s \in SUBSET (1..0) |-> reader], 0)
    OBVIOUS
  <2> QED
    BY <2>1
<1>2. ASSUME NEW k \in Nat, k \in P PROVE k + 1 \in P
  <2>1. PICK g : Fix(g, k)
    BY <1>2
  <2> DEFINE f == [s \in SUBSET (1..(k + 1)) |-> IF s \in SUBSET (1..k) THEN g[s] ELSE Step(g, s)]
  <2>2. ASSUME NEW s \in SUBSET (1..(k + 1)) PROVE f[s] = Step(f, s)
    <3>1. CASE s = {}
      BY <2>1, <3>1
    <3>2. CASE s # {} /\ s \in SUBSET (1..k)
      <4>1. Max(s) \in s
        BY <3>2, MaxIsIn
      <4>2. s \ {Max(s)} \in SUBSET (1..k) /\ s \ {Max(s)} \in SUBSET (1..(k + 1))
        BY <3>2
      <4>3. f[s] = g[s] /\ f[s \ {Max(s)}] = g[s \ {Max(s)}]
        BY <3>2, <4>2
      <4>4. g[s] = Step(g, s)
        BY <2>1, <3>2
      <4> HIDE DEF f
      <4> QED
        BY <3>2, <4>3, <4>4
    <3>3. CASE s \notin SUBSET (1..k)
      <4>1. k + 1 \in s
        BY <3>3
      <4>2. Max(s) = k + 1
        BY <4>1, MaxIsLast
      <4>3. s \ {Max(s)} \in SUBSET (1..k) /\ s \ {Max(s)} \in SUBSET (1..(k + 1))
        BY <4>2
      <4>4. f[s] = Step(g, s) /\ f[s \ {Max(s)}] = g[s \ {Max(s)}]
        BY <3>3, <4>3
      <4> HIDE DEF f
      <4> QED
        BY <4>1, <4>4
    <3> QED
      BY <3>1, <3>2, <3>3
  <2>3. f = [s \in SUBSET (1..(k + 1)) |-> Step(f, s)]
    <3>1. DOMAIN f = SUBSET (1..(k + 1)) /\ f = [s \in SUBSET (1..(k + 1)) |-> f[s]]
      OBVIOUS
    <3> HIDE DEF f, Step
    <3> QED
      BY <2>2, <3>1
  <2> HIDE DEF f, Step
  <2>4. \E q : Fix(q, k + 1)
    BY <2>3
  <2> QED
    BY <2>4
<1>3. \E g : Fix(g, n)
  <2> HIDE DEF P, Fix
  <2>1. Nat \subseteq P
    BY <1>1, <1>2, EveryNatural
  <2> QED
    BY <2>1 DEF P
<1> DEFINE iter == CHOOSE g : Fix(g, n)
<1>4. Fix(iter, n)
  <2> HIDE DEF Fix
  <2> QED
    BY <1>3
<1>5. iter = CHOOSE g : g = [s \in SUBSET (1..n) |-> Step(g, s)]
  OBVIOUS
<1>6. EntryLoop(reader, name, layout, n) = iter[1..n]
  <2>1. DOMAIN [i \in 1..n |-> i] = 1..n
    OBVIOUS
  <2> QED
    BY <1>5, <2>1, Zenon DEF EntryLoop, FoldLeft, MapThenFoldSet
<1> HIDE DEF iter
<1> DEFINE h == [i \in 0..n |-> iter[1..i]]
<1>7. h[0] = reader
  <2>1. 1..0 = {} /\ {} \in SUBSET (1..n)
    OBVIOUS
  <2>2. iter[{}] = Step(iter, {})
    BY <1>4, <2>1
  <2>3. h[0] = iter[{}]
    BY <2>1
  <2> HIDE DEF h
  <2> QED
    BY <2>2, <2>3
<1>8. ASSUME NEW i \in 1..n PROVE h[i] = GetEntry(h[i - 1], name, layout)
  <2>1. 1..i \in SUBSET (1..n) /\ i \in 1..i /\ 1..i \in SUBSET (1..i) /\ (1..i) \ {i} = 1..(i - 1)
    OBVIOUS
  <2>2. Max(1..i) = i
    BY <2>1, MaxIsLast
  <2>3. iter[1..i] = Step(iter, 1..i)
    BY <1>4, <2>1
  <2>4. 1..i # {}
    BY <2>1
  <2>5. iter[1..i] = GetEntry(iter[1..(i - 1)], name, layout)
    BY <2>1, <2>2, <2>3, <2>4, Zenon
  <2>6. h[i] = iter[1..i] /\ h[i - 1] = iter[1..(i - 1)]
    OBVIOUS
  <2> HIDE DEF h
  <2> QED
    BY <2>5, <2>6
<1>9. h[n] = EntryLoop(reader, name, layout, n)
  BY <1>6
<1> HIDE DEF h
<1> QED
  BY <1>7, <1>8, <1>9

\* The turns of GetCounted: each record is read where the last one ended.
LEMMA RecordTurns ==
  ASSUME NEW reader, NEW name, NEW n \in Nat
  PROVE  \E h : /\ h[0] = reader
                /\ h[n] = RecordLoop(reader, name, n)
                /\ \A i \in 1..n : h[i] = GetRecord(h[i - 1], name)
<1> DEFINE Step(g, s) == IF s = {} THEN reader
                         ELSE GetRecord(g[s \ {Max(s)}], name)
           Fix(g, k) == g = [s \in SUBSET (1..k) |-> Step(g, s)]
           P == {k \in Nat : \E g : Fix(g, k)}
<1>1. 0 \in P
  <2>1. Fix([s \in SUBSET (1..0) |-> reader], 0)
    OBVIOUS
  <2> QED
    BY <2>1
<1>2. ASSUME NEW k \in Nat, k \in P PROVE k + 1 \in P
  <2>1. PICK g : Fix(g, k)
    BY <1>2
  <2> DEFINE f == [s \in SUBSET (1..(k + 1)) |-> IF s \in SUBSET (1..k) THEN g[s] ELSE Step(g, s)]
  <2>2. ASSUME NEW s \in SUBSET (1..(k + 1)) PROVE f[s] = Step(f, s)
    <3>1. CASE s = {}
      BY <2>1, <3>1
    <3>2. CASE s # {} /\ s \in SUBSET (1..k)
      <4>1. Max(s) \in s
        BY <3>2, MaxIsIn
      <4>2. s \ {Max(s)} \in SUBSET (1..k) /\ s \ {Max(s)} \in SUBSET (1..(k + 1))
        BY <3>2
      <4>3. f[s] = g[s] /\ f[s \ {Max(s)}] = g[s \ {Max(s)}]
        BY <3>2, <4>2
      <4>4. g[s] = Step(g, s)
        BY <2>1, <3>2
      <4> HIDE DEF f
      <4> QED
        BY <3>2, <4>3, <4>4
    <3>3. CASE s \notin SUBSET (1..k)
      <4>1. k + 1 \in s
        BY <3>3
      <4>2. Max(s) = k + 1
        BY <4>1, MaxIsLast
      <4>3. s \ {Max(s)} \in SUBSET (1..k) /\ s \ {Max(s)} \in SUBSET (1..(k + 1))
        BY <4>2
      <4>4. f[s] = Step(g, s) /\ f[s \ {Max(s)}] = g[s \ {Max(s)}]
        BY <3>3, <4>3
      <4> HIDE DEF f
      <4> QED
        BY <4>1, <4>4
    <3> QED
      BY <3>1, <3>2, <3>3
  <2>3. f = [s \in SUBSET (1..(k + 1)) |-> Step(f, s)]
    <3>1. DOMAIN f = SUBSET (1..(k + 1)) /\ f = [s \in SUBSET (1..(k + 1)) |-> f[s]]
      OBVIOUS
    <3> HIDE DEF f, Step
    <3> QED
      BY <2>2, <3>1
  <2> HIDE DEF f, Step
  <2>4. \E q : Fix(q, k + 1)
    BY <2>3
  <2> QED
    BY <2>4
<1>3. \E g : Fix(g, n)
  <2> HIDE DEF P, Fix
  <2>1. Nat \subseteq P
    BY <1>1, <1>2, EveryNatural
  <2> QED
    BY <2>1 DEF P
<1> DEFINE iter == CHOOSE g : Fix(g, n)
<1>4. Fix(iter, n)
  <2> HIDE DEF Fix
  <2> QED
    BY <1>3
<1>5. iter = CHOOSE g : g = [s \in SUBSET (1..n) |-> Step(g, s)]
  OBVIOUS
<1>6. RecordLoop(reader, name, n) = iter[1..n]
  <2>1. DOMAIN [i \in 1..n |-> i] = 1..n
    OBVIOUS
  <2> QED
    BY <1>5, <2>1, Zenon DEF RecordLoop, FoldLeft, MapThenFoldSet
<1> HIDE DEF iter
<1> DEFINE h == [i \in 0..n |-> iter[1..i]]
<1>7. h[0] = reader
  <2>1. 1..0 = {} /\ {} \in SUBSET (1..n)
    OBVIOUS
  <2>2. iter[{}] = Step(iter, {})
    BY <1>4, <2>1
  <2>3. h[0] = iter[{}]
    BY <2>1
  <2> HIDE DEF h
  <2> QED
    BY <2>2, <2>3
<1>8. ASSUME NEW i \in 1..n PROVE h[i] = GetRecord(h[i - 1], name)
  <2>1. 1..i \in SUBSET (1..n) /\ i \in 1..i /\ 1..i \in SUBSET (1..i) /\ (1..i) \ {i} = 1..(i - 1)
    OBVIOUS
  <2>2. Max(1..i) = i
    BY <2>1, MaxIsLast
  <2>3. iter[1..i] = Step(iter, 1..i)
    BY <1>4, <2>1
  <2>4. 1..i # {}
    BY <2>1
  <2>5. iter[1..i] = GetRecord(iter[1..(i - 1)], name)
    BY <2>1, <2>2, <2>3, <2>4, Zenon
  <2>6. h[i] = iter[1..i] /\ h[i - 1] = iter[1..(i - 1)]
    OBVIOUS
  <2> HIDE DEF h
  <2> QED
    BY <2>5, <2>6
<1>9. h[n] = RecordLoop(reader, name, n)
  BY <1>6
<1> HIDE DEF h
<1> QED
  BY <1>7, <1>8, <1>9

----------------------------------------------------------------------------
(* Reading fields.                                                          *)

\* A field, as a token of its kind with a number, unless it is a digest or a record.
IsField(t) ==
  /\ t = [kind |-> t.kind, value |-> t.value]
  /\ t.kind \notin {"digest", "record"} => t.value \in Nat

IsReader(r) == DOMAIN r = {"rest", "read", "code"}

\* No two fields of a layout have the same name.
IsLayout(layout, n) ==
  /\ DOMAIN layout = 1..n
  /\ \A i, j \in 1..n : layout[i][2] = layout[j][2] => i = j

\* The reader asks for the fields that the writer appends, in their order.
Matches(write, layout) ==
  /\ DOMAIN write = DOMAIN layout
  /\ \A i \in DOMAIN write : write[i][1] = Base(layout[i][1]) /\ write[i][2] = layout[i][2]

\* The reader g took the next field of r, of the kind asked for, under a name.
Took(r, g, kind, name) ==
  /\ r.code = "Ok" /\ r.rest # <<>> /\ g.rest = Tail(r.rest)
  /\ g.read = With(r.read, name, Head(r.rest).value)
  /\ Head(r.rest).kind = Base(kind)
  /\ kind \in DOMAIN Known => Head(r.rest).value \in Known[kind]

\* A field that is read was the next one, of the kind asked for.
LEMMA FieldRead ==
  ASSUME NEW T, NEW r, IsReader(r), r.rest \in Seq(T), NEW kind, NEW name
  PROVE  /\ IsReader(Get(r, kind, name)) /\ Get(r, kind, name).rest \in Seq(T)
         /\ Get(r, kind, name).code = "Ok" => Took(r, Get(r, kind, name), kind, name)
<1> DEFINE g == Get(r, kind, name)
           value == Head(r.rest).value
           next == [r EXCEPT !.rest = Tail(@), !.read = With(@, name, value)]
           reject(code) == [r EXCEPT !.code = code]
           Goal == IsReader(g) /\ g.rest \in Seq(T) /\ (g.code = "Ok" => Took(r, g, kind, name))
<1> SUFFICES Goal
  OBVIOUS
<1>1. /\ IsReader(next) /\ next.rest = Tail(r.rest) /\ next.code = r.code
      /\ next.read = With(r.read, name, value)
  BY DEF IsReader
<1>2. ASSUME NEW code PROVE IsReader(reject(code)) /\ reject(code).rest = r.rest /\ reject(code).code = code
  BY DEF IsReader
<1>3. r.rest # <<>> => Tail(r.rest) \in Seq(T)
  OBVIOUS
<1> HIDE DEF next, reject
<1>4. CASE r.code # "Ok"
  BY <1>4 DEF Get
<1>5. CASE g \in {reject("Corrupt"), reject("ResourceLimit")}
  <2>1. PICK code \in {"Corrupt", "ResourceLimit"} : g = reject(code)
    BY <1>5
  <2>2. IsReader(g) /\ g.rest = r.rest /\ g.code = code
    BY <1>2, <2>1
  <2> HIDE DEF g
  <2> QED
    BY <2>1, <2>2
<1>6. CASE /\ r.code = "Ok" /\ r.rest # <<>> /\ Head(r.rest).kind = Base(kind)
           /\ ~(kind = "string" /\ value > MaxRecord) /\ (kind \in DOMAIN Known => value \in Known[kind])
  <2>1. g = next
    BY <1>6 DEF Get, next
  <2> HIDE DEF g
  <2> QED
    BY <1>1, <1>3, <1>6, <2>1, Zenon DEF Took
<1>7. \/ r.code # "Ok"
      \/ g \in {reject("Corrupt"), reject("ResourceLimit")}
      \/ /\ r.code = "Ok" /\ r.rest # <<>> /\ Head(r.rest).kind = Base(kind)
         /\ ~(kind = "string" /\ value > MaxRecord) /\ (kind \in DOMAIN Known => value \in Known[kind])
  BY Zenon DEF Get, Reject, reject
<1> QED
  BY <1>4, <1>5, <1>6, <1>7

\* A sequence is the fields read of it and the rest.
LEMMA ReadAndRest ==
  ASSUME NEW T, NEW s \in Seq(T), NEW k \in 0..Len(s)
  PROVE  /\ SubSeq(s, 1, k) \in Seq(T) /\ SubSeq(s, k + 1, Len(s)) \in Seq(T)
         /\ s = SubSeq(s, 1, k) \o SubSeq(s, k + 1, Len(s))
         /\ SubSeq(s, 1, k) = [j \in 1..k |-> s[j]]
         /\ SubSeq(s, k + 1, Len(s)) # <<>> =>
              /\ k + 1 \in 1..Len(s) /\ Head(SubSeq(s, k + 1, Len(s))) = s[k + 1]
              /\ Tail(SubSeq(s, k + 1, Len(s))) = SubSeq(s, k + 2, Len(s))
         /\ SubSeq(s, k + 1, Len(s)) = <<>> => k = Len(s)
<1>1. SubSeq(s, 1, k) \o SubSeq(s, k + 1, Len(s)) = SubSeq(s, 1, Len(s))
  <2>1. 1 \in 1..Len(s) + 1 /\ k \in 1 - 1..Len(s) /\ Len(s) \in k..Len(s)
    OBVIOUS
  <2> QED
    BY <2>1, ConcatAdjacentSubSeq
<1>2. SubSeq(s, 1, Len(s)) = s
  BY SubSeqFull
<1>3. Len(SubSeq(s, k + 1, Len(s))) = Len(s) - k
  OBVIOUS
<1>4. ASSUME k < Len(s)
      PROVE  /\ Head(SubSeq(s, k + 1, Len(s))) = s[k + 1]
             /\ Tail(SubSeq(s, k + 1, Len(s))) = SubSeq(s, k + 2, Len(s))
  BY <1>4, HeadTailOfSubSeq
<1>5. SubSeq(s, 1, k) = [j \in 1..k |-> s[j]]
  OBVIOUS
<1>6. SubSeq(s, 1, k) \in Seq(T) /\ SubSeq(s, k + 1, Len(s)) \in Seq(T)
  BY SubSeqProperties
<1>7. SubSeq(s, k + 1, Len(s)) # <<>> => k < Len(s) /\ k + 1 \in 1..Len(s)
  BY <1>3
<1>8. SubSeq(s, k + 1, Len(s)) = <<>> => k = Len(s)
  BY <1>3
<1> QED
  BY <1>1, <1>2, <1>4, <1>5, <1>6, <1>7, <1>8, Zenon

\* Between the readers r and out, tokens were read into names, and nothing else changed.
Reads(T, r, out, tokens, names) ==
  /\ r.code = "Ok" /\ IsReader(out) /\ out.rest \in Seq(T) /\ tokens \in Seq(T)
  /\ r.rest = tokens \o out.rest
  /\ DOMAIN out.read = DOMAIN r.read \cup names
  /\ \A x \in DOMAIN r.read \ names : out.read[x] = r.read[x]

\* Sequences over a set may be joined in any order of joining.
JoinsAny(T) == \A s, t, u \in Seq(T) : (s \o t) \o u = s \o (t \o u)

\* They are, whatever their elements.
LEMMA Joined ==
  ASSUME NEW T
  PROVE  JoinsAny(T)
<1> SUFFICES ASSUME NEW s \in Seq(T), NEW t \in Seq(T), NEW u \in Seq(T)
             PROVE  (s \o t) \o u = s \o (t \o u)
  BY DEF JoinsAny
<1> QED
  BY ConcatAssociative

\* What is read first and what is read then were read together.
LEMMA ReadThen ==
  ASSUME NEW T, NEW a, NEW b, NEW c, NEW s, NEW t, NEW M, NEW N,
         Reads(T, a, b, s, M), Reads(T, b, c, t, N)
  PROVE  Reads(T, a, c, s \o t, M \cup N)
<1>1. s \in Seq(T) /\ t \in Seq(T) /\ c.rest \in Seq(T)
  BY DEF Reads
<1>2. (s \o t) \o c.rest = s \o (t \o c.rest)
  <2>1. JoinsAny(T)
    BY Joined, Zenon
  <2> QED
    BY <1>1, <2>1 DEF JoinsAny
<1>3. s \o t \in Seq(T)
  BY <1>1
<1>4. a.rest = (s \o t) \o c.rest
  BY <1>2, Zenon DEF Reads
<1>5. /\ DOMAIN c.read = DOMAIN a.read \cup (M \cup N)
      /\ \A x \in DOMAIN a.read \ (M \cup N) : c.read[x] = a.read[x]
  BY DEF Reads
<1>6. a.code = "Ok" /\ IsReader(c) /\ c.rest \in Seq(T)
  BY DEF Reads
<1> QED
  BY <1>3, <1>4, <1>5, <1>6, Zenon DEF Reads

\* What GetAll reads of a layout are the fields that Put would write of it.
LEMMA FieldsRead ==
  ASSUME NEW T, NEW r, IsReader(r), r.rest \in Seq(T), \A t \in T : IsField(t),
         NEW layout, NEW n \in Nat, IsLayout(layout, n), NEW write, Matches(write, layout),
         NEW out, out = GetAll(r, layout), out.code = "Ok"
  PROVE  Reads(T, r, out, Put(write, out.read), Names(layout))
<1> DEFINE token(j) == [kind |-> Base(layout[j][1]), value |-> r.rest[j].value]
<1>1. PICK h : /\ h[0] = r /\ h[n] = out
               /\ \A i \in 1..n : h[i] = Get(h[i - 1], layout[i][1], layout[i][2])
  BY FieldTurns DEF IsLayout
<1> DEFINE Upto(i) ==
             /\ i <= Len(r.rest) /\ r.code = "Ok"
             /\ h[i].rest = SubSeq(r.rest, i + 1, Len(r.rest))
             /\ DOMAIN h[i].read = DOMAIN r.read \cup {layout[j][2] : j \in 1..i}
             /\ \A j \in 1..i : /\ r.rest[j] = token(j)
                                /\ h[i].read[layout[j][2]] = r.rest[j].value
             /\ \A x \in DOMAIN r.read \ {layout[j][2] : j \in 1..i} : h[i].read[x] = r.read[x]
           Good(i) == IsReader(h[i]) /\ h[i].rest \in Seq(T) /\ (h[i].code = "Ok" => Upto(i))
           P == {i \in Nat : i <= n => Good(i)}
<1>2. 0 \in P
  <2>1. SubSeq(r.rest, 1, Len(r.rest)) = r.rest /\ Len(r.rest) \in Nat
    BY SubSeqFull
  <2>2. h[0].code = "Ok" => Upto(0)
    BY <1>1, <2>1
  <2> HIDE DEF Upto
  <2> QED
    BY <1>1, <2>2
<1> HIDE DEF Upto, Good
<1>3. ASSUME NEW i \in Nat, i \in P PROVE i + 1 \in P
  <2> SUFFICES ASSUME i + 1 <= n PROVE Good(i + 1)
    OBVIOUS
  <2> DEFINE kind == layout[i + 1][1]
             name == layout[i + 1][2]
  <2>1. Good(i)
    BY <1>3
  <2>5. IsReader(h[i]) /\ h[i].rest \in Seq(T)
    BY <2>1 DEF Good
  <2>2. h[i + 1] = Get(h[i], kind, name)
    <3>1. i + 1 \in 1..n /\ (i + 1) - 1 = i
      OBVIOUS
    <3> QED
      BY <1>1, <3>1
  <2>3. /\ IsReader(h[i + 1]) /\ h[i + 1].rest \in Seq(T)
        /\ h[i + 1].code = "Ok" => Took(h[i], h[i + 1], kind, name)
    <3>1. /\ IsReader(Get(h[i], kind, name)) /\ Get(h[i], kind, name).rest \in Seq(T)
          /\ Get(h[i], kind, name).code = "Ok" => Took(h[i], Get(h[i], kind, name), kind, name)
      BY <2>5, FieldRead
    <3> QED
      BY <2>2, <3>1, Zenon
  <2>4. ASSUME h[i + 1].code = "Ok" PROVE Upto(i + 1)
    <3>1. Upto(i)
      BY <2>1, <2>3, <2>4 DEF Good, Took
    <3>2. i \in 0..Len(r.rest) /\ h[i].rest = SubSeq(r.rest, i + 1, Len(r.rest))
      BY <3>1 DEF Upto
    <3>3. /\ i + 1 \in 1..Len(r.rest) /\ Head(h[i].rest) = r.rest[i + 1]
          /\ Tail(h[i].rest) = SubSeq(r.rest, i + 2, Len(r.rest))
      BY <2>3, <2>4, <3>2, ReadAndRest DEF Took
    <3>4. r.rest[i + 1] = token(i + 1)
      <4>1. r.rest[i + 1] \in T
        BY <3>3
      <4> QED
        BY <2>3, <2>4, <3>3, <4>1 DEF IsField, Took
    <3>5. h[i + 1].read = With(h[i].read, name, r.rest[i + 1].value)
      BY <2>3, <2>4, <3>3 DEF Took
    <3>6. /\ DOMAIN h[i + 1].read = DOMAIN h[i].read \cup {name}
          /\ h[i + 1].read[name] = r.rest[i + 1].value
          /\ \A x \in DOMAIN h[i].read \ {name} : h[i + 1].read[x] = h[i].read[x]
      BY <3>5 DEF With
    <3>7. /\ {layout[j][2] : j \in 1..(i + 1)} = {layout[j][2] : j \in 1..i} \cup {name}
          /\ \A j \in 1..i : layout[j][2] # name
      BY DEF IsLayout
    <3>8. DOMAIN h[i + 1].read = DOMAIN r.read \cup {layout[j][2] : j \in 1..(i + 1)}
      BY <3>1, <3>6, <3>7 DEF Upto
    <3>9. \A x \in DOMAIN r.read \ {layout[j][2] : j \in 1..(i + 1)} : h[i + 1].read[x] = r.read[x]
      BY <3>1, <3>6, <3>7 DEF Upto
    <3>10. ASSUME NEW j \in 1..(i + 1)
           PROVE  r.rest[j] = token(j) /\ h[i + 1].read[layout[j][2]] = r.rest[j].value
      <4>1. CASE j = i + 1
        BY <2>3, <2>4, <3>3, <3>4, <3>6, <4>1 DEF Took
      <4>2. CASE j \in 1..i
        <5>1. layout[j][2] # name /\ layout[j][2] \in DOMAIN h[i].read
          BY <3>1, <3>7, <4>2 DEF Upto
        <5> QED
          BY <3>1, <3>6, <4>2, <5>1 DEF Upto
      <4> QED
        BY <4>1, <4>2
    <3>11. h[i + 1].rest = SubSeq(r.rest, (i + 1) + 1, Len(r.rest)) /\ r.code = "Ok" /\ i + 1 <= Len(r.rest)
      <4>1. r.code = "Ok"
        BY <3>1 DEF Upto
      <4>2. (i + 1) + 1 = i + 2
        OBVIOUS
      <4>3. h[i + 1].rest = SubSeq(r.rest, i + 2, Len(r.rest))
        BY <2>3, <2>4, <3>3, Zenon DEF Took
      <4>4. i + 1 <= Len(r.rest)
        BY <3>3
      <4> QED
        BY <4>1, <4>2, <4>3, <4>4
    <3> QED
      BY <3>8, <3>9, <3>10, <3>11 DEF Upto
  <2> QED
    BY <2>3, <2>4 DEF Good
<1>4. Good(n)
  <2>1. Nat \subseteq P
    <3> HIDE DEF P
    <3> QED
      BY <1>2, <1>3, EveryNatural
  <2> QED
    BY <2>1
<1>5. Upto(n) /\ IsReader(out) /\ out.rest \in Seq(T)
  BY <1>1, <1>4 DEF Good
<1>6. n \in 0..Len(r.rest)
  BY <1>5 DEF Upto
<1>7. SubSeq(r.rest, 1, n) = Put(write, out.read)
  <2>1. SubSeq(r.rest, 1, n) = [j \in 1..n |-> r.rest[j]]
    BY <1>6, ReadAndRest
  <2>2. ASSUME NEW j \in 1..n
        PROVE  r.rest[j] = [kind |-> write[j][1], value |-> out.read[write[j][2]]]
    <3>1. r.rest[j] = token(j) /\ out.read[layout[j][2]] = r.rest[j].value
      BY <1>1, <1>5 DEF Upto
    <3>2. write[j][1] = Base(layout[j][1]) /\ write[j][2] = layout[j][2]
      BY DEF Matches, IsLayout
    <3> QED
      BY <3>1, <3>2
  <2>3. DOMAIN write = 1..n
    BY DEF Matches, IsLayout
  <2> QED
    BY <2>1, <2>2, <2>3 DEF Put
<1>8. r.rest = Put(write, out.read) \o out.rest /\ Put(write, out.read) \in Seq(T)
  <2>1. out.rest = SubSeq(r.rest, n + 1, Len(r.rest))
    BY <1>1, <1>5 DEF Upto
  <2>2. SubSeq(r.rest, 1, n) \in Seq(T) /\ r.rest = SubSeq(r.rest, 1, n) \o SubSeq(r.rest, n + 1, Len(r.rest))
    BY <1>6, ReadAndRest
  <2> QED
    BY <1>7, <2>1, <2>2
<1>9. /\ DOMAIN out.read = DOMAIN r.read \cup Names(layout)
      /\ \A x \in DOMAIN r.read \ Names(layout) : out.read[x] = r.read[x]
  <2>1. Names(layout) = {layout[j][2] : j \in 1..n}
    BY DEF Names, IsLayout
  <2> QED
    BY <1>1, <1>5, <2>1 DEF Upto
<1>10. r.code = "Ok"
  BY <1>5 DEF Upto
<1> QED
  BY <1>5, <1>8, <1>9, <1>10 DEF Reads

----------------------------------------------------------------------------
(* Reading lists of entries.                                                *)

\* A sequence that is not empty is its head and its tail.
LEMMA HeadAndTail ==
  ASSUME NEW T, NEW s \in Seq(T), s # <<>>
  PROVE  Head(s) \in T /\ Tail(s) \in Seq(T) /\ s = <<Head(s)>> \o Tail(s)
<1>1. Len(s) \in Nat /\ 1 \in 1..Len(s) /\ Head(s) = s[1] /\ Tail(s) \in Seq(T)
  OBVIOUS
<1>2. SubSeq(s, 1, Len(s)) = s /\ SubSeq(s, 2, Len(s)) = Tail(s)
  BY SubSeqFull, TailIsSubSeq
<1>3. SubSeq(s, 1, Len(s)) = <<s[1]>> \o SubSeq(s, 1 + 1, Len(s))
  BY <1>1, SubSeqRecursiveFirst
<1>4. s[1] \in T
  BY <1>1
<1> QED
  BY <1>1, <1>2, <1>3, <1>4

\* FlattenSeq of a sequence of sequences, one by one.
LEMMA FlattenTurns ==
  ASSUME NEW T, NEW ss \in Seq(Seq(T)), ss # <<>>
  PROVE  \E f : /\ f[1] = ss[1] /\ f[Len(ss)] = FlattenSeq(ss)
                /\ \A i \in 2..Len(ss) : f[i] = f[i - 1] \o ss[i]
<1> DEFINE n == Len(ss)
           Step(f, i) == IF i = 1 THEN ss[i] ELSE f[i - 1] \o ss[i]
           Fix(f, k) == f = [i \in 1..k |-> Step(f, i)]
           P == {k \in Nat : \E f : Fix(f, k)}
<1>1. 0 \in P
  <2>1. Fix([i \in 1..0 |-> 0], 0)
    OBVIOUS
  <2> QED
    BY <2>1
<1>2. ASSUME NEW k \in Nat, k \in P PROVE k + 1 \in P
  <2>1. PICK g : Fix(g, k)
    BY <1>2
  <2> DEFINE f == [i \in 1..(k + 1) |-> IF i <= k THEN g[i] ELSE Step(g, i)]
  <2>2. ASSUME NEW i \in 1..(k + 1) PROVE f[i] = Step(f, i)
    <3>1. CASE i = 1
      BY <2>1, <3>1
    <3>2. CASE i # 1
      <4>1. i - 1 \in 1..k /\ i - 1 \in 1..(k + 1)
        BY <3>2
      <4>2. f[i - 1] = g[i - 1]
        BY <4>1
      <4>3. f[i] = Step(g, i)
        <5>1. i <= k => i \in 1..k /\ f[i] = g[i]
          OBVIOUS
        <5>2. i > k => f[i] = Step(g, i)
          OBVIOUS
        <5>3. \A j \in 1..k : g[j] = Step(g, j)
          BY <2>1
        <5> HIDE DEF f, Step
        <5> QED
          BY <5>1, <5>2, <5>3
      <4> HIDE DEF f
      <4> QED
        BY <4>2, <4>3
    <3> QED
      BY <3>1, <3>2
  <2>3. f = [i \in 1..(k + 1) |-> Step(f, i)]
    <3>1. f = [i \in 1..(k + 1) |-> f[i]]
      OBVIOUS
    <3> HIDE DEF f, Step
    <3> QED
      BY <2>2, <3>1
  <2> HIDE DEF f, Step
  <2>4. \E q : Fix(q, k + 1)
    BY <2>3
  <2> QED
    BY <2>4
<1>3. n \in Nat /\ n # 0
  OBVIOUS
<1>4. \E f : Fix(f, n)
  <2> HIDE DEF P, Fix
  <2>1. Nat \subseteq P
    BY <1>1, <1>2, EveryNatural
  <2> HIDE DEF n
  <2> QED
    BY <1>3, <2>1 DEF P
<1> DEFINE f == CHOOSE q : Fix(q, n)
<1>5. Fix(f, n)
  <2> HIDE DEF Fix
  <2> QED
    BY <1>4
<1>6. FlattenSeq(ss) = f[n]
  BY <1>3, Zenon DEF FlattenSeq
<1> HIDE DEF f
<1>7. f[1] = ss[1] /\ \A i \in 2..n : f[i] = f[i - 1] \o ss[i]
  <2> HIDE DEF n
  <2>1. \A i \in 1..n : f[i] = Step(f, i)
    BY <1>5
  <2>2. f[1] = Step(f, 1) /\ \A i \in 2..n : f[i] = Step(f, i)
    <3> HIDE DEF Step
    <3> QED
      BY <1>3, <2>1
  <2>3. \A i \in 2..n : i # 1
    BY <1>3
  <2> QED
    BY <2>2, <2>3
<1> QED
  BY <1>6, <1>7

\* What is flattened is a sequence of the same elements, and one sequence more comes
\* after it.
LEMMA FlattenAppend ==
  ASSUME NEW T, NEW ss \in Seq(Seq(T)), NEW s \in Seq(T)
  PROVE  /\ FlattenSeq(ss) \in Seq(T)
         /\ FlattenSeq(Append(ss, s)) = FlattenSeq(ss) \o s
<1> DEFINE n == Len(ss)
           tt == Append(ss, s)
<1>1. /\ tt \in Seq(Seq(T)) /\ Len(tt) = n + 1 /\ tt[n + 1] = s /\ n \in Nat
      /\ \A i \in 1..n : tt[i] = ss[i]
  OBVIOUS
<1>2. tt # <<>>
  BY AppendProperties
<1> HIDE DEF tt, n
<1>3. PICK g : /\ g[1] = tt[1] /\ g[n + 1] = FlattenSeq(tt)
               /\ \A i \in 2..(n + 1) : g[i] = g[i - 1] \o tt[i]
  <2>1. \E g : /\ g[1] = tt[1] /\ g[Len(tt)] = FlattenSeq(tt)
                /\ \A i \in 2..Len(tt) : g[i] = g[i - 1] \o tt[i]
    BY <1>1, <1>2, FlattenTurns, Zenon
  <2> QED
    BY <1>1, <2>1, Zenon
<1>4. CASE ss = <<>>
  <2>1. FlattenSeq(ss) = <<>>
    BY <1>4 DEF FlattenSeq
  <2>2. FlattenSeq(tt) = s
    BY <1>1, <1>3, <1>4 DEF n
  <2> QED
    BY <2>1, <2>2 DEF tt
<1>5. CASE ss # <<>>
  <2>1. PICK f : /\ f[1] = ss[1] /\ f[n] = FlattenSeq(ss)
                 /\ \A i \in 2..n : f[i] = f[i - 1] \o ss[i]
    BY <1>5, FlattenTurns DEF n
  <2> DEFINE P == {k \in Nat : k + 1 <= n => f[k + 1] = g[k + 1] /\ f[k + 1] \in Seq(T)}
  <2>2. 1 \in 1..n
    BY <1>5 DEF n
  <2>3. 0 \in P
    BY <1>1, <1>3, <2>1, <2>2
  <2>4. ASSUME NEW k \in Nat, k \in P PROVE k + 1 \in P
    <3> SUFFICES ASSUME (k + 1) + 1 <= n
                 PROVE  f[(k + 1) + 1] = g[(k + 1) + 1] /\ f[(k + 1) + 1] \in Seq(T)
      OBVIOUS
    <3>1. (k + 1) + 1 \in 2..n /\ (k + 1) + 1 \in 2..(n + 1) /\ ((k + 1) + 1) - 1 = k + 1
          /\ (k + 1) + 1 \in 1..n
      BY <1>1
    <3>2. f[k + 1] = g[k + 1] /\ f[k + 1] \in Seq(T)
      BY <1>1, <2>4, <3>1
    <3>3. ss[(k + 1) + 1] = tt[(k + 1) + 1] /\ ss[(k + 1) + 1] \in Seq(T)
      BY <1>1, <3>1 DEF n
    <3>4. f[(k + 1) + 1] = f[k + 1] \o ss[(k + 1) + 1] /\ g[(k + 1) + 1] = g[k + 1] \o tt[(k + 1) + 1]
      BY <1>3, <2>1, <3>1
    <3> QED
      BY <3>2, <3>3, <3>4
  <2>5. n - 1 \in P
    <3> HIDE DEF P
    <3>1. Nat \subseteq P
      BY <2>3, <2>4, EveryNatural
    <3> QED
      BY <1>1, <2>2, <3>1
  <2>6. f[n] = g[n] /\ f[n] \in Seq(T)
    BY <1>1, <2>2, <2>5
  <2>7. g[n + 1] = g[n] \o s
    <3>1. n + 1 \in 2..(n + 1) /\ (n + 1) - 1 = n
      BY <1>1, <2>2
    <3> QED
      BY <1>1, <1>3, <3>1
  <2> QED
    BY <1>3, <2>1, <2>6, <2>7 DEF tt
<1> QED
  BY <1>4, <1>5

Entries(write, rs) == [i \in DOMAIN rs |-> Put(write, rs[i])]

\* One entry more is written after the others.
LEMMA EntriesAppend ==
  ASSUME NEW E, NEW rs \in Seq(E), NEW e \in E, NEW write, NEW S,
         Entries(write, rs) \in Seq(S), Put(write, e) \in S
  PROVE  Entries(write, Append(rs, e)) = Append(Entries(write, rs), Put(write, e))
<1> DEFINE n == Len(rs)
           es == Entries(write, rs)
           all == Append(rs, e)
           p == Put(write, e)
           more == Append(es, p)
<1>1. /\ n \in Nat /\ DOMAIN rs = 1..n /\ DOMAIN all = 1..(n + 1) /\ all[n + 1] = e
      /\ \A i \in 1..n : all[i] = rs[i]
  OBVIOUS
<1>2. DOMAIN es = 1..n /\ Len(es) = n /\ \A i \in 1..n : es[i] = Put(write, rs[i])
  <2>1. DOMAIN es = 1..n /\ \A i \in 1..n : es[i] = Put(write, rs[i])
    BY <1>1 DEF Entries
  <2>2. DOMAIN es = 1..Len(es) /\ Len(es) \in Nat
    OBVIOUS
  <2> HIDE DEF es, n
  <2> QED
    BY <1>1, <2>1, <2>2
<1>3. es \in Seq(S) /\ p \in S
  OBVIOUS
<1> HIDE DEF es, p
<1>4. /\ more \in Seq(S) /\ Len(more) = n + 1 /\ more[n + 1] = p
      /\ \A i \in 1..n : more[i] = es[i]
  BY <1>1, <1>2, <1>3, AppendProperties
<1>5. more = [i \in 1..(n + 1) |-> more[i]]
  <2> HIDE DEF more, n
  <2> QED
    BY <1>4
<1>6. Entries(write, all) = [i \in 1..(n + 1) |-> Put(write, all[i])]
  <2> HIDE DEF all, n
  <2> QED
    BY <1>1 DEF Entries
<1> HIDE DEF all, n, more
<1>7. \A i \in 1..(n + 1) : more[i] = Put(write, all[i])
  BY <1>1, <1>2, <1>4 DEF p
<1>8. Entries(write, all) = more
  BY <1>5, <1>6, <1>7
<1> QED
  BY <1>8, Zenon DEF all, more, es, p

\* What the turns of GetEntries read are the entries that PutList would write.
LEMMA EntriesRead ==
  ASSUME NEW T, NEW r, IsReader(r), r.rest \in Seq(T), \A t \in T : IsField(t),
         NEW layout, NEW n \in Nat, IsLayout(layout, n), NEW write, Matches(write, layout),
         NEW name, name \in DOMAIN r.read, r.read[name] = <<>>, NEW count \in Nat,
         NEW out, out = EntryLoop(r, name, layout, count), out.code = "Ok"
  PROVE  /\ \E E : out.read[name] \in Seq(E)
         /\ Len(out.read[name]) = count
         /\ Reads(T, r, out, FlattenSeq(Entries(write, out.read[name])), {name})
<1>1. PICK h : /\ h[0] = r /\ h[count] = out
               /\ \A i \in 1..count : h[i] = GetEntry(h[i - 1], name, layout)
  <2>1. \E h : /\ h[0] = r /\ h[count] = EntryLoop(r, name, layout, count)
               /\ \A i \in 1..count : h[i] = GetEntry(h[i - 1], name, layout)
    BY EntryTurns
  <2> QED
    BY <2>1
<1> DEFINE start(i) == [h[i] EXCEPT !.read = <<>>]
           entry(i) == GetAll(start(i), layout)
           E == {entry(i).read : i \in 0..count}
           rs(i) == h[i].read[name]
           written(i) == Entries(write, rs(i))
           Upto(i) == /\ rs(i) \in Seq(E) /\ Len(rs(i)) = i /\ written(i) \in Seq(Seq(T))
                      /\ Reads(T, r, h[i], FlattenSeq(written(i)), {name})
           P == {i \in Nat : i <= count /\ h[i].code = "Ok" => Upto(i)}
<1>2. 0 \in P
  <2> SUFFICES ASSUME h[0].code = "Ok" PROVE Upto(0)
    OBVIOUS
  <2>1. rs(0) = <<>> /\ Entries(write, <<>>) = <<>> /\ written(0) = <<>>
    BY <1>1 DEF Entries
  <2>2. FlattenSeq(<<>>) = <<>> /\ <<>> \o r.rest = r.rest /\ <<>> \in Seq(Seq(T)) /\ <<>> \in Seq(E)
        /\ <<>> \in Seq(T)
    BY DEF FlattenSeq
  <2>3. Reads(T, r, h[0], <<>>, {name})
    BY <1>1, <2>2 DEF Reads
  <2>4. Len(<<>>) = 0
    OBVIOUS
  <2> HIDE DEF E, rs, written
  <2> QED
    BY <2>1, <2>2, <2>3, <2>4
<1> HIDE DEF E, Upto
<1>3. ASSUME NEW i \in Nat, i \in P PROVE i + 1 \in P
  <2> SUFFICES ASSUME i + 1 <= count, h[i + 1].code = "Ok" PROVE Upto(i + 1)
    OBVIOUS
  <2>1. i + 1 \in 1..count /\ (i + 1) - 1 = i /\ i \in 0..count /\ i <= count
    OBVIOUS
  <2>2. h[i + 1] = GetEntry(h[i], name, layout)
    BY <1>1, <2>1
  <2>3. h[i].code = "Ok"
    BY <2>2 DEF GetEntry
  <2>4. Upto(i)
    BY <1>3, <2>1, <2>3
  <2>5. h[i + 1] = [entry(i) EXCEPT !.read = [h[i].read EXCEPT ![name] = Append(@, entry(i).read)]]
    BY <2>2, <2>3 DEF GetEntry
  <2>6. IsReader(h[i]) /\ h[i].rest \in Seq(T)
    BY <2>4 DEF Reads, Upto
  <2>7. IsReader(start(i)) /\ start(i).rest = h[i].rest /\ start(i).rest \in Seq(T) /\ start(i).code = h[i].code
    BY <2>6 DEF IsReader
  <2> DEFINE e == entry(i).read
             p == Put(write, e)
             q == FlattenSeq(written(i))
  <2> HIDE DEF start
  <2>8. IsReader(entry(i)) => entry(i).code = "Ok"
    BY <2>5 DEF IsReader
  <2>9. entry(i).code = "Ok"
    BY <2>5
  <2>10. e \in E
    BY <2>1 DEF E
  <2>11. Reads(T, start(i), entry(i), p, Names(layout))
    <3>1. entry(i) = GetAll(start(i), layout)
      OBVIOUS
    <3> HIDE DEF entry
    <3> QED
      BY <2>7, <2>9, <3>1, FieldsRead
  <2> HIDE DEF entry
  <2>12. /\ IsReader(entry(i)) /\ entry(i).rest \in Seq(T) /\ p \in Seq(T)
         /\ h[i].rest = p \o entry(i).rest
    BY <2>7, <2>11 DEF Reads
  <2>13. /\ IsReader(h[i + 1]) /\ h[i + 1].rest = entry(i).rest
         /\ h[i + 1].read = [h[i].read EXCEPT ![name] = Append(@, e)]
    BY <2>5, <2>12 DEF IsReader
  <2>14. /\ rs(i) \in Seq(E) /\ Len(rs(i)) = i /\ written(i) \in Seq(Seq(T))
         /\ Reads(T, r, h[i], q, {name})
    BY <2>4 DEF Upto
  <2>15. rs(i + 1) = Append(rs(i), e) /\ Reads(T, h[i], h[i + 1], p, {name})
    <3>1. name \in DOMAIN h[i].read
      BY <2>14 DEF Reads
    <3> QED
      BY <2>3, <2>6, <2>12, <2>13, <3>1 DEF Reads
  <2> HIDE DEF rs, e
  <2>16. rs(i + 1) \in Seq(E) /\ Len(rs(i + 1)) = i + 1
    <3>1. rs(i) \in Seq(E) /\ e \in E /\ rs(i + 1) = Append(rs(i), e) /\ Len(rs(i)) = i
      BY <2>10, <2>14, <2>15
    <3>2. Append(rs(i), e) \in Seq(E) /\ Len(Append(rs(i), e)) = Len(rs(i)) + 1
      BY <3>1, AppendProperties, Zenon
    <3> QED
      BY <3>1, <3>2
  <2>17. written(i + 1) = Append(written(i), p)
    <3>1. Entries(write, rs(i)) \in Seq(Seq(T)) /\ p \in Seq(T)
      BY <2>12, <2>14
    <3>2. Entries(write, Append(rs(i), e)) = Append(Entries(write, rs(i)), p)
      BY <2>10, <2>14, <3>1, EntriesAppend
    <3> QED
      BY <2>15, <3>2
  <2> HIDE DEF p
  <2>18. FlattenSeq(Append(written(i), p)) = q \o p
    <3> HIDE DEF written
    <3> QED
      BY <2>12, <2>14, FlattenAppend
  <2> HIDE DEF written, q
  <2>19. written(i + 1) \in Seq(Seq(T)) /\ FlattenSeq(written(i + 1)) = q \o p
    <3>1. written(i + 1) = Append(written(i), p) /\ p \in Seq(T) /\ written(i) \in Seq(Seq(T))
      BY <2>12, <2>14, <2>17
    <3>2. Append(written(i), p) \in Seq(Seq(T))
      BY <3>1, AppendProperties, Zenon
    <3> QED
      BY <2>18, <3>1, <3>2
  <2>20. Reads(T, r, h[i + 1], q \o p, {name} \cup {name})
    BY <2>14, <2>15, ReadThen
  <2>21. Reads(T, r, h[i + 1], q \o p, {name})
    BY <2>20, Zenon
  <2> QED
    BY <2>16, <2>19, <2>21 DEF Upto
<1>4. Upto(count)
  <2>1. Nat \subseteq P
    <3> HIDE DEF P
    <3> QED
      BY <1>2, <1>3, EveryNatural
  <2> QED
    BY <1>1, <2>1
<1>5. rs(count) = out.read[name]
  BY <1>1
<1> HIDE DEF rs
<1> QED
  BY <1>1, <1>4, <1>5 DEF Upto

\* A reader that has rejected reads nothing more.
LEMMA RejectedGets ==
  ASSUME NEW r, NEW kind, NEW name, Get(r, kind, name).code = "Ok"
  PROVE  r.code = "Ok"
BY DEF Get

\* A reader that has rejected reads no field.
LEMMA RejectedReads ==
  ASSUME NEW r, NEW layout, NEW n \in Nat, IsLayout(layout, n), r.code # "Ok"
  PROVE  GetAll(r, layout) = r
<1>1. PICK h : /\ h[0] = r /\ h[n] = GetAll(r, layout)
               /\ \A i \in 1..n : h[i] = Get(h[i - 1], layout[i][1], layout[i][2])
  BY FieldTurns DEF IsLayout
<1> DEFINE P == {i \in Nat : i <= n => h[i] = r}
<1>2. ASSUME NEW i \in Nat, i \in P PROVE i + 1 \in P
  <2> SUFFICES ASSUME i + 1 <= n PROVE h[i + 1] = r
    OBVIOUS
  <2>1. h[i] = r /\ i + 1 \in 1..n /\ (i + 1) - 1 = i
    BY <1>2
  <2>2. h[i + 1] = Get(h[i], layout[i + 1][1], layout[i + 1][2])
    BY <1>1, <2>1
  <2> QED
    BY <2>1, <2>2 DEF Get
<1>3. Nat \subseteq P
  <2>1. 0 \in P
    BY <1>1
  <2> HIDE DEF P
  <2> QED
    BY <1>2, <2>1, EveryNatural
<1> QED
  BY <1>1, <1>3

\* The reader g with other fields read.
ReadAs(g, read) == [g EXCEPT !.read = read]

\* One field was read, under a name, and with it the fields are some others.
TookOne(T, r, kind, name, names, read) ==
  LET value == Get(r, kind, name).read[name]
      out   == ReadAs(Get(r, kind, name), read)
  IN  /\ Reads(T, r, out, <<[kind |-> Base(kind), value |-> value]>>, names)
      /\ out.read = read /\ out.rest = Get(r, kind, name).rest /\ out.code = "Ok"
      /\ Base(kind) \notin {"digest", "record"} => value \in Nat
      /\ kind \in DOMAIN Known => value \in Known[kind]

\* A field that is read was there, of its kind and with a value the reader knows.
LEMMA OneRead ==
  ASSUME NEW T, NEW r, IsReader(r), r.rest \in Seq(T), \A t \in T : IsField(t),
         NEW kind, NEW name, Get(r, kind, name).code = "Ok",
         NEW names, NEW read, DOMAIN read = DOMAIN r.read \cup names,
         \A x \in DOMAIN r.read \ names : read[x] = r.read[x]
  PROVE  TookOne(T, r, kind, name, names, read)
<1> DEFINE g == Get(r, kind, name)
           out == ReadAs(g, read)
<1>1. IsReader(g) /\ g.rest \in Seq(T) /\ Took(r, g, kind, name)
  BY FieldRead
<1>10. g.code = "Ok" /\ out = [g EXCEPT !.read = read]
  BY DEF ReadAs
<1> HIDE DEF g, out
<1>2. /\ Head(r.rest) \in T /\ Tail(r.rest) \in Seq(T) /\ r.rest = <<Head(r.rest)>> \o Tail(r.rest)
  BY <1>1, HeadAndTail DEF Took
<1>3. g.read[name] = Head(r.rest).value
  BY <1>1 DEF Took, With
<1>4. Head(r.rest) = [kind |-> Base(kind), value |-> g.read[name]]
  <2>1. Head(r.rest) = [kind |-> Head(r.rest).kind, value |-> Head(r.rest).value]
    BY <1>2 DEF IsField
  <2> QED
    BY <1>1, <1>3, <2>1, Zenon DEF Took
<1>5. /\ IsReader(out) /\ out.rest = Tail(r.rest) /\ out.rest = g.rest /\ out.read = read /\ out.code = "Ok"
  BY <1>1, <1>10 DEF IsReader, Took
<1>6. <<Head(r.rest)>> \in Seq(T)
  BY <1>2
<1>7. Reads(T, r, out, <<Head(r.rest)>>, names)
  BY <1>1, <1>2, <1>5, <1>6, Zenon DEF Reads, Took
<1>8. Base(kind) \notin {"digest", "record"} => g.read[name] \in Nat
  BY <1>1, <1>2, <1>3 DEF IsField, Took
<1>9. kind \in DOMAIN Known => g.read[name] \in Known[kind]
  BY <1>1, <1>3, Zenon DEF Took
<1> QED
  BY <1>4, <1>5, <1>7, <1>8, <1>9, Zenon DEF TookOne, g, out

\* Between the readers r and out a list was read under a name: its count and its entries.
TookList(T, r, out, name, write) ==
  LET rs == out.read[name] IN
  /\ \E E : rs \in Seq(E)
  /\ Len(rs) = Get(r, "u32", "count").read.count
  /\ Reads(T, r, out, PutList(write, rs), {name})

\* A list that is read is the list that PutList would write.
LEMMA ListRead ==
  ASSUME NEW T, NEW r, IsReader(r), r.rest \in Seq(T), \A t \in T : IsField(t),
         NEW layout, NEW n \in Nat, IsLayout(layout, n), NEW write, Matches(write, layout),
         NEW name, NEW limit, NEW unit,
         NEW out, out = GetList(r, name, layout, limit, unit), out.code = "Ok"
  PROVE  TookList(T, r, out, name, write)
<1> DEFINE counted == Get(r, "u32", "count")
           empty == With(r.read, name, <<>>)
           start == ReadAs(counted, empty)
           count == counted.read.count
           rs == out.read[name]
           token == [kind |-> "u32", value |-> count]
<1>1. counted.code = "Ok" /\ out = EntryLoop(start, name, layout, count)
  BY DEF GetList, GetEntries, Reject, ReadAs
<1>2. /\ DOMAIN empty = DOMAIN r.read \cup {name} /\ empty[name] = <<>>
      /\ \A x \in DOMAIN r.read \ {name} : empty[x] = r.read[x]
  BY DEF With
<1>3. Base("u32") = "u32" /\ "u32" \notin {"digest", "record"}
  BY DEF Base, Known
<1> HIDE DEF empty
<1>4. TookOne(T, r, "u32", "count", {name}, empty)
  BY <1>1, <1>2, OneRead
<1>5. Reads(T, r, start, <<[kind |-> Base("u32"), value |-> counted.read["count"]]>>, {name})
      /\ start.read = empty /\ start.code = "Ok"
      /\ (Base("u32") \notin {"digest", "record"} => counted.read["count"] \in Nat)
  BY <1>4, Zenon DEF TookOne
<1> HIDE DEF counted, start
<1>6. Reads(T, r, start, <<token>>, {name}) /\ count \in Nat
  BY <1>3, <1>5
<1>7. IsReader(start) /\ start.rest \in Seq(T) /\ name \in DOMAIN start.read /\ start.read[name] = <<>>
  BY <1>2, <1>5, <1>6 DEF Reads
<1> HIDE DEF count
<1>8. /\ \E E : rs \in Seq(E)
      /\ Len(rs) = count
      /\ Reads(T, start, out, FlattenSeq(Entries(write, rs)), {name})
  BY <1>1, <1>6, <1>7, EntriesRead
<1>9. Reads(T, r, out, <<token>> \o FlattenSeq(Entries(write, rs)), {name} \cup {name})
  BY <1>6, <1>8, ReadThen
<1>10. PutList(write, rs) = <<token>> \o FlattenSeq(Entries(write, rs))
  BY <1>8 DEF PutList, Count, Entries
<1>11. Reads(T, r, out, PutList(write, rs), {name})
  BY <1>9, <1>10, Zenon
<1> QED
  BY <1>8, <1>11 DEF TookList, count, counted

----------------------------------------------------------------------------
(* The layouts of the encoders and those of the decoders.                   *)

\* Each decoder asks for the fields that the encoder appends, no two of one name.
LEMMA LayoutsAgree ==
  /\ IsLayout(ReadCounters, 5) /\ Matches(Counters, ReadCounters)
  /\ IsLayout(ReadPath, 3) /\ Matches(PathFields, ReadPath)
  /\ IsLayout(ReadPublisher, 9) /\ Matches(PublisherFields, ReadPublisher)
  /\ IsLayout(ReadAttempt, 6) /\ Matches(AttemptFields, ReadAttempt)
  /\ IsLayout(ReadSetHead, 16) /\ Matches(SetFields, ReadSetHead)
  /\ IsLayout(ReadMember, 11) /\ Matches(MemberFields, ReadMember)
  /\ IsLayout(ReadStanding, 7) /\ Matches(StandingFields, ReadStanding)
  /\ IsLayout(ReadHistory, 10) /\ Matches(HistoryFields, ReadHistory)
  /\ IsLayout(MultipathFields, 2) /\ Matches(MultipathFields, MultipathFields)
  /\ IsLayout(ListedFields, 1) /\ Matches(ListedFields, ListedFields)
<1>1. IsLayout(ReadCounters, 5) /\ Matches(Counters, ReadCounters)
  BY DEF IsLayout, Matches, Base, Known, ReadCounters, Counters
<1>2. IsLayout(ReadPath, 3) /\ Matches(PathFields, ReadPath)
  BY DEF IsLayout, Matches, Base, Known, ReadPath, PathFields
<1>3. IsLayout(ReadPublisher, 9) /\ Matches(PublisherFields, ReadPublisher)
  BY DEF IsLayout, Matches, Base, Known, ReadPublisher, PublisherFields
<1>4. IsLayout(ReadAttempt, 6) /\ Matches(AttemptFields, ReadAttempt)
  BY DEF IsLayout, Matches, Base, Known, ReadAttempt, AttemptFields
<1>5. IsLayout(ReadSetHead, 16) /\ Matches(SetFields, ReadSetHead)
  BY DEF IsLayout, Matches, Base, Known, ReadSetHead, SetFields
<1>6. IsLayout(ReadMember, 11) /\ Matches(MemberFields, ReadMember)
  BY DEF IsLayout, Matches, Base, Known, ReadMember, MemberFields
<1>7. IsLayout(ReadStanding, 7) /\ Matches(StandingFields, ReadStanding)
  BY DEF IsLayout, Matches, Base, Known, ReadStanding, StandingFields
<1>8. IsLayout(ReadHistory, 10) /\ Matches(HistoryFields, ReadHistory)
  BY DEF IsLayout, Matches, Base, Known, ReadHistory, HistoryFields
<1>9. IsLayout(MultipathFields, 2) /\ Matches(MultipathFields, MultipathFields)
  BY DEF IsLayout, Matches, Base, Known, MultipathFields
<1>10. IsLayout(ListedFields, 1) /\ Matches(ListedFields, ListedFields)
  BY DEF IsLayout, Matches, Base, Known, ListedFields
<1> QED
  BY <1>1, <1>2, <1>3, <1>4, <1>5, <1>6, <1>7, <1>8, <1>9, <1>10

\* What the parts of a record or of the body are read into has different names.
LEMMA LayoutsApart ==
  /\ "space" \in Names(ReadSetHead)
  /\ Names(ReadSetHead) \cap (Names(ReadStanding) \cup {"members", "owners", "history"}) = {}
  /\ Names(ReadStanding) \cap {"members", "owners", "history"} = {}
  /\ "members" \notin Names(MultipathFields)
  /\ Names(ReadCounters) \cap {"sets", "paths", "multipath", "publishers", "attempts"} = {}
<1>1. ReadSetHead[15] = <<"u32", "space">> /\ 15 \in DOMAIN ReadSetHead
  BY DEF ReadSetHead
<1>2. \A i \in DOMAIN ReadSetHead :
        ReadSetHead[i][2] \in {"id", "fabric", "namespace", "route", "multipath", "policy_name",
          "policy_id", "set_generation", "policy_generation", "assignment_generation",
          "authority_generation", "lifecycle", "minimum_positive", "maximum", "space",
          "min_effective_members"}
  BY DEF ReadSetHead
<1>3. \A i \in DOMAIN ReadStanding :
        ReadStanding[i][2] \in {"authoritative", "epoch_bound", "publisher", "boot", "revision",
                                "churn_last", "churn_total"}
  BY DEF ReadStanding
<1>4. \A i \in DOMAIN MultipathFields : MultipathFields[i][2] \in {"set", "generation"}
  BY DEF MultipathFields
<1>5. \A i \in DOMAIN ReadCounters :
        ReadCounters[i][2] \in {"epoch", "next_set_id", "next_policy_id", "next_plan_id",
                                "next_attempt_sequence"}
  BY DEF ReadCounters
<1>6. "space" \in Names(ReadSetHead)
  BY <1>1 DEF Names
<1> QED
  BY <1>2, <1>3, <1>4, <1>5, <1>6 DEF Names

----------------------------------------------------------------------------
(* Reading one record.                                                      *)

\* A slot map that is read is the one that PutSlots would write: both of its counts are
\* the selection space, which is not 0.
LEMMA OwnersRead ==
  ASSUME NEW T, NEW r, IsReader(r), r.rest \in Seq(T), \A t \in T : IsField(t),
         r.read.space # 0,
         NEW out, out = GetOwners(r), out.code = "Ok"
  PROVE  Reads(T, r, out, PutSlots(out.read.owners), {"owners"})
<1> DEFINE flagged == Get(r, "flag", "present")
           present == flagged.read["present"]
           none == With(r.read, "owners", <<>>)
           owners == out.read.owners
<1>1. /\ Base("flag") = "u8" /\ "flag" \in DOMAIN Known /\ Known["flag"] = 0..1
      /\ Base("u32") = "u32" /\ "u32" \notin {"digest", "record"}
  BY DEF Base, Known
<1>2. out = GetMap(flagged, r.read) /\ flagged.code = "Ok"
  BY DEF GetOwners, GetMap
<1>3. CASE present = 0
  <2>1. out = ReadAs(flagged, none)
    BY <1>2, <1>3 DEF GetMap, ReadAs
  <2>2. /\ DOMAIN none = DOMAIN r.read \cup {"owners"} /\ none["owners"] = <<>>
        /\ \A x \in DOMAIN r.read \ {"owners"} : none[x] = r.read[x]
    BY DEF With
  <2> HIDE DEF none
  <2>3. TookOne(T, r, "flag", "present", {"owners"}, none)
    BY <1>2, <2>2, OneRead
  <2>4. /\ Reads(T, r, ReadAs(flagged, none), <<[kind |-> Base("flag"), value |-> present]>>, {"owners"})
        /\ ReadAs(flagged, none).read = none
    BY <2>3, Zenon DEF TookOne
  <2>5. PutSlots(owners) = <<[kind |-> "u8", value |-> 0]>>
    BY <2>1, <2>2, <2>4 DEF PutSlots
  <2>6. PutSlots(owners) = <<[kind |-> Base("flag"), value |-> present]>>
    BY <1>1, <1>3, <2>5
  <2> HIDE DEF flagged, present, owners, none
  <2>7. Reads(T, r, out, PutSlots(owners), {"owners"})
    BY <2>1, <2>4, <2>6, Zenon
  <2> QED
    BY <2>7 DEF owners
<1>4. CASE present # 0
  <2> DEFINE named == ReadAs(flagged, r.read)
             sized == Get(flagged, "u32", "size")
             size == sized.read["size"]
             counted == Get(sized, "u32", "count")
             base == ReadAs(sized, r.read)
  <2>1. out = GetSized(sized, r.read)
    BY <1>2, <1>4 DEF GetMap
  <2>2. /\ sized.code = "Ok" /\ counted.code = "Ok"
        /\ size = r.read.space /\ counted.read["count"] = r.read.space
        /\ out = GetList(base, "owners", ListedFields, MaxSpace, MinimumOwner)
    <3>1. counted.code = "Ok"
      BY <2>1 DEF GetSized
    <3>2. sized.code = "Ok"
      BY <3>1, RejectedGets, Zenon
    <3>3. {size, counted.read["count"]} = {r.read.space}
      BY <2>1, <3>1 DEF GetSized, Reject
    <3>4. out = GetList(base, "owners", ListedFields, MaxSpace, MinimumOwner)
      BY <2>1, <3>1, <3>3 DEF GetSized, ReadAs
    <3> QED
      BY <3>1, <3>2, <3>3, <3>4
  <2>3. TookOne(T, r, "flag", "present", {}, r.read)
    BY <1>2, OneRead
  <2>4. /\ Reads(T, r, named, <<[kind |-> "u8", value |-> present]>>, {})
        /\ named.read = r.read /\ named.rest = flagged.rest /\ named.code = "Ok"
        /\ present \in 0..1
    BY <1>1, <2>3, Zenon DEF TookOne
  <2>5. present = 1
    BY <1>4, <2>4
  <2>6. IsReader(flagged) /\ flagged.rest \in Seq(T)
    BY FieldRead
  <2> HIDE DEF flagged, present
  <2>7. TookOne(T, flagged, "u32", "size", {}, flagged.read)
    BY <2>2, <2>6, OneRead
  <2>8. /\ Reads(T, flagged, ReadAs(sized, flagged.read), <<[kind |-> "u32", value |-> size]>>, {})
        /\ ReadAs(sized, flagged.read).rest = sized.rest
    BY <1>1, <2>7, Zenon DEF TookOne
  <2>9. IsReader(sized) /\ sized.rest \in Seq(T)
    BY <2>6, FieldRead
  <2> HIDE DEF sized, size
  <2>10. IsReader(base) /\ base.rest = sized.rest /\ base.read = r.read /\ base.code = "Ok"
    BY <2>2, <2>9 DEF IsReader, ReadAs
  <2> HIDE DEF base, named
  <2>11. Reads(T, named, base, <<[kind |-> "u32", value |-> size]>>, {})
    <3>1. /\ <<[kind |-> "u32", value |-> size]>> \in Seq(T)
          /\ flagged.rest = <<[kind |-> "u32", value |-> size]>> \o sized.rest
      BY <2>8, Zenon DEF Reads
    <3>2. DOMAIN base.read = DOMAIN named.read \cup {} /\ \A x \in DOMAIN named.read \ {} : base.read[x] = named.read[x]
      BY <2>4, <2>10
    <3> QED
      BY <2>4, <2>9, <2>10, <3>1, <3>2, Zenon DEF Reads
  <2>12. /\ \E E : owners \in Seq(E)
         /\ Len(owners) = Get(base, "u32", "count").read.count
         /\ Reads(T, base, out, PutList(ListedFields, owners), {"owners"})
    <3>1. IsLayout(ListedFields, 1) /\ Matches(ListedFields, ListedFields)
      BY LayoutsAgree
    <3>2. TookList(T, base, out, "owners", ListedFields)
      BY <2>2, <2>9, <2>10, <3>1, ListRead
    <3> QED
      BY <3>2, Zenon DEF TookList
  <2>13. Get(base, "u32", "count").read.count = counted.read["count"]
    <3>1. Get(base, "u32", "count").code = "Ok"
      BY <2>2 DEF GetList, GetEntries
    <3>2. Took(base, Get(base, "u32", "count"), "u32", "count") /\ Took(sized, counted, "u32", "count")
      BY <2>2, <2>9, <2>10, <3>1, FieldRead
    <3> QED
      BY <2>10, <3>2 DEF Took, With
  <2>14. owners # <<>> /\ Count(owners) = <<[kind |-> "u32", value |-> size]>>
    BY <2>2, <2>12, <2>13 DEF Count
  <2>15. PutSlots(owners) = (<<[kind |-> "u8", value |-> present]>> \o <<[kind |-> "u32", value |-> size]>>)
                              \o PutList(ListedFields, owners)
    BY <2>5, <2>14, Zenon DEF PutSlots
  <2>16. Reads(T, r, base, <<[kind |-> "u8", value |-> present]>> \o <<[kind |-> "u32", value |-> size]>>, {} \cup {})
    BY <2>4, <2>11, ReadThen
  <2>17. Reads(T, r, out, PutSlots(owners), ({} \cup {}) \cup {"owners"})
    <3>1. Reads(T, base, out, PutList(ListedFields, owners), {"owners"})
      BY <2>12
    <3> DEFINE front == <<[kind |-> "u8", value |-> present]>> \o <<[kind |-> "u32", value |-> size]>>
               back == PutList(ListedFields, owners)
    <3> HIDE DEF front, back
    <3>2. Reads(T, r, base, front, {} \cup {}) /\ Reads(T, base, out, back, {"owners"})
      BY <2>16, <3>1 DEF front, back
    <3>3. Reads(T, r, out, front \o back, ({} \cup {}) \cup {"owners"})
      BY <3>2, ReadThen
    <3> QED
      BY <2>15, <3>3, Zenon DEF front, back
  <2>18. ({} \cup {}) \cup {"owners"} = {"owners"}
    OBVIOUS
  <2> QED
    BY <2>17, <2>18, Zenon
<1> QED
  BY <1>3, <1>4

\* The records f and g have the names X, and the same under each.
Same(f, g, X) ==
  /\ X \subseteq DOMAIN f /\ X \subseteq DOMAIN g
  /\ \A x \in X : f[x] = g[x]

\* What is read keeps what was read before under other names.
LEMMA ReadKeeps ==
  ASSUME NEW T, NEW a, NEW b, NEW s, NEW M, NEW X,
         Reads(T, a, b, s, M), X \subseteq DOMAIN a.read, X \cap M = {}
  PROVE  Same(a.read, b.read, X)
BY DEF Reads, Same

\* Put writes of the names of its layout alone.
LEMMA PutKeeps ==
  ASSUME NEW layout, NEW n \in Nat, IsLayout(layout, n), NEW write, Matches(write, layout),
         NEW f, NEW g, Same(f, g, Names(layout))
  PROVE  Put(write, f) = Put(write, g)
<1>1. \A i \in DOMAIN write : f[write[i][2]] = g[write[i][2]]
  BY DEF IsLayout, Matches, Names, Same
<1> QED
  BY <1>1 DEF Put

\* The tokens are a record and what the reader has left of them.
WasRecord(T, tokens, reader, record) ==
  tokens = record \o reader.rest /\ record \in Seq(T) /\ reader.rest \in Seq(T)

\* Fields that are read of a layout of the code's, behind what may have been read before.
LEMMA LayoutRead ==
  ASSUME NEW T, NEW r, IsReader(r), r.rest \in Seq(T), \A t \in T : IsField(t),
         NEW layout, NEW n \in Nat, IsLayout(layout, n), NEW write, Matches(write, layout),
         GetAll(r, layout).code = "Ok"
  PROVE  Reads(T, r, GetAll(r, layout), Put(write, GetAll(r, layout).read), Names(layout))
BY FieldsRead

\* A set record that is read is the one that encode_set_record would write of it.
LEMMA SetRead ==
  ASSUME NEW T, NEW tokens \in Seq(T), \A t \in T : IsField(t), DecodeSet(tokens).code = "Ok"
  PROVE  WasRecord(T, tokens, DecodeSet(tokens), SetRecord(DecodeSet(tokens).read))
<1> DEFINE r0 == Reader(tokens)
           r1 == GetAll(r0, ReadSetHead)
           r2 == GetMembers(r1)
           r3 == GetOwners(r2)
           r4 == GetAll(r3, ReadStanding)
           r5 == GetHistory(r4)
<1>0. r5 = DecodeSet(tokens)
  BY DEF DecodeSet
<1>1. r4.code = "Ok" /\ r3.code = "Ok" /\ r2.code = "Ok" /\ r1.code = "Ok"
  <2>1. r4.code = "Ok"
    BY <1>0 DEF GetHistory, GetList, GetEntries, Get
  <2>2. r3.code = "Ok"
    BY <2>1, LayoutsAgree, RejectedReads
  <2>3. r2.code = "Ok"
    BY <2>2 DEF GetOwners, GetMap, Get
  <2>4. r1.code = "Ok"
    BY <2>3 DEF GetMembers, GetList, GetEntries, Get, Reject
  <2> QED
    BY <2>1, <2>2, <2>3, <2>4
<1>2. IsReader(r0) /\ r0.rest = tokens
  BY DEF Reader, IsReader
<1> HIDE DEF r0
<1>3. Reads(T, r0, r1, Put(SetFields, r1.read), Names(ReadSetHead))
  BY <1>1, <1>2, LayoutsAgree, LayoutRead
<1> HIDE DEF r1
<1>4. IsReader(r1) /\ r1.rest \in Seq(T)
  BY <1>3 DEF Reads
<1>5. r1.read.space # 0 /\ r2 = GetList(r1, "members", ReadMember, MaxMembers, MinimumMember)
  BY <1>1 DEF GetMembers, Reject
<1>6. Reads(T, r1, r2, PutList(MemberFields, r2.read["members"]), {"members"})
  BY <1>1, <1>4, <1>5, LayoutsAgree, ListRead DEF TookList
<1> HIDE DEF r2
<1>7. IsReader(r2) /\ r2.rest \in Seq(T) /\ r2.read.space # 0
  BY <1>3, <1>5, <1>6, LayoutsApart DEF Reads
<1>8. Reads(T, r2, r3, PutSlots(r3.read.owners), {"owners"})
  BY <1>1, <1>7, OwnersRead
<1> HIDE DEF r3
<1>9. IsReader(r3) /\ r3.rest \in Seq(T)
  BY <1>8 DEF Reads
<1>10. Reads(T, r3, r4, Put(StandingFields, r4.read), Names(ReadStanding))
  BY <1>1, <1>9, LayoutsAgree, LayoutRead
<1> HIDE DEF r4
<1>11. IsReader(r4) /\ r4.rest \in Seq(T)
  BY <1>10 DEF Reads
<1>12. Reads(T, r4, r5, PutList(HistoryFields, r5.read["history"]), {"history"})
  BY <1>0, <1>11, LayoutsAgree, ListRead DEF GetHistory, TookList
<1> HIDE DEF r5
<1> DEFINE a == Put(SetFields, r1.read)
           b == PutList(MemberFields, r2.read["members"])
           c == PutSlots(r3.read.owners)
           d == Put(StandingFields, r4.read)
           e == PutList(HistoryFields, r5.read["history"])
           M == (((Names(ReadSetHead) \cup {"members"}) \cup {"owners"}) \cup Names(ReadStanding))
                  \cup {"history"}
<1>13. Reads(T, r0, r5, (((a \o b) \o c) \o d) \o e, M)
  <2>1. Reads(T, r0, r1, a, Names(ReadSetHead)) /\ Reads(T, r1, r2, b, {"members"})
        /\ Reads(T, r2, r3, c, {"owners"}) /\ Reads(T, r3, r4, d, Names(ReadStanding))
        /\ Reads(T, r4, r5, e, {"history"})
    BY <1>3, <1>6, <1>8, <1>10, <1>12
  <2> HIDE DEF a, b, c, d, e
  <2>2. Reads(T, r0, r2, a \o b, Names(ReadSetHead) \cup {"members"})
    BY <2>1, ReadThen
  <2>3. Reads(T, r0, r3, (a \o b) \o c, (Names(ReadSetHead) \cup {"members"}) \cup {"owners"})
    BY <2>1, <2>2, ReadThen
  <2>4. Reads(T, r0, r4, ((a \o b) \o c) \o d,
              ((Names(ReadSetHead) \cup {"members"}) \cup {"owners"}) \cup Names(ReadStanding))
    BY <2>1, <2>3, ReadThen
  <2> QED
    BY <2>1, <2>4, ReadThen
<1>14. a = Put(SetFields, r5.read)
  <2> DEFINE X == Names(ReadSetHead)
  <2>1. X \subseteq DOMAIN r1.read
    BY <1>3 DEF Reads
  <2>2. X \cap {"members"} = {} /\ X \cap {"owners"} = {} /\ X \cap Names(ReadStanding) = {} /\ X \cap {"history"} = {}
    BY LayoutsApart
  <2> HIDE DEF X
  <2>3. Same(r1.read, r2.read, X)
    BY <1>6, <2>1, <2>2, ReadKeeps
  <2>4. Same(r2.read, r3.read, X)
    BY <1>8, <2>2, <2>3, ReadKeeps DEF Same
  <2>5. Same(r3.read, r4.read, X)
    BY <1>10, <2>2, <2>4, ReadKeeps DEF Same
  <2>6. Same(r4.read, r5.read, X)
    BY <1>12, <2>2, <2>5, ReadKeeps DEF Same
  <2>7. Same(r1.read, r5.read, X)
    BY <2>3, <2>4, <2>5, <2>6 DEF Same
  <2>8. IsLayout(ReadSetHead, 16) /\ Matches(SetFields, ReadSetHead)
    BY LayoutsAgree
  <2> QED
    BY <2>7, <2>8, PutKeeps DEF X
<1>15. d = Put(StandingFields, r5.read)
  <2>1. Names(ReadStanding) \subseteq DOMAIN r4.read
    BY <1>10 DEF Reads
  <2>2. Names(ReadStanding) \cap {"history"} = {}
    BY LayoutsApart
  <2>3. Same(r4.read, r5.read, Names(ReadStanding))
    BY <1>12, <2>1, <2>2, ReadKeeps
  <2>4. IsLayout(ReadStanding, 7) /\ Matches(StandingFields, ReadStanding)
    BY LayoutsAgree
  <2> QED
    BY <2>3, <2>4, PutKeeps
<1>16. r2.read["members"] = r5.read["members"] /\ r3.read["owners"] = r5.read["owners"]
  <2> DEFINE X == {"members"}
             Y == {"owners"}
  <2>1. X \subseteq DOMAIN r2.read /\ Y \subseteq DOMAIN r3.read
    BY <1>6, <1>8 DEF Reads
  <2>2. /\ X \cap {"owners"} = {} /\ X \cap Names(ReadStanding) = {} /\ X \cap {"history"} = {}
        /\ Y \cap Names(ReadStanding) = {} /\ Y \cap {"history"} = {}
    BY LayoutsApart
  <2> HIDE DEF X, Y
  <2>3. Same(r2.read, r3.read, X)
    BY <1>8, <2>1, <2>2, ReadKeeps
  <2>4. Same(r3.read, r4.read, X)
    BY <1>10, <2>2, <2>3, ReadKeeps DEF Same
  <2>5. Same(r3.read, r4.read, Y)
    BY <1>10, <2>1, <2>2, ReadKeeps
  <2>6. Same(r4.read, r5.read, X)
    BY <1>12, <2>2, <2>4, ReadKeeps DEF Same
  <2>7. Same(r4.read, r5.read, Y)
    BY <1>12, <2>2, <2>5, ReadKeeps DEF Same
  <2>8. \A x \in X : r2.read[x] = r5.read[x]
    BY <2>3, <2>4, <2>6 DEF Same
  <2>9. \A x \in Y : r3.read[x] = r5.read[x]
    BY <2>5, <2>7 DEF Same
  <2> QED
    BY <2>8, <2>9 DEF X, Y
<1>17. (((a \o b) \o c) \o d) \o e = SetRecord(r5.read)
  <2>1. b = PutList(MemberFields, r5.read.members) /\ c = PutSlots(r5.read.owners)
    BY <1>16
  <2> HIDE DEF a, b, c, d
  <2> QED
    BY <1>14, <1>15, <2>1, Zenon DEF SetRecord
<1>18. Reads(T, r0, r5, SetRecord(r5.read), M)
  BY <1>13, <1>17, Zenon
<1> HIDE DEF M
<1>19. WasRecord(T, tokens, r5, SetRecord(r5.read))
  BY <1>2, <1>18 DEF Reads, WasRecord
<1> QED
  BY <1>0, <1>19

\* A path record that is read is the one that encode_path_record would write of it.
LEMMA PathRead ==
  ASSUME NEW T, NEW tokens \in Seq(T), \A t \in T : IsField(t), DecodePath(tokens).code = "Ok"
  PROVE  WasRecord(T, tokens, DecodePath(tokens), Put(PathFields, DecodePath(tokens).read))
<1> DEFINE r == Reader(tokens)
<1>1. IsReader(r) /\ r.rest = tokens /\ DecodePath(tokens) = GetAll(r, ReadPath)
  BY DEF Reader, IsReader, DecodePath
<1> HIDE DEF r
<1>2. Reads(T, r, GetAll(r, ReadPath), Put(PathFields, GetAll(r, ReadPath).read), Names(ReadPath))
  BY <1>1, LayoutsAgree, LayoutRead
<1> QED
  BY <1>1, <1>2 DEF Reads, WasRecord

\* A publisher record that is read is the one that encode_publisher_record would write.
LEMMA PublisherRead ==
  ASSUME NEW T, NEW tokens \in Seq(T), \A t \in T : IsField(t), DecodePublisher(tokens).code = "Ok"
  PROVE  WasRecord(T, tokens, DecodePublisher(tokens), Put(PublisherFields, DecodePublisher(tokens).read))
<1> DEFINE r == Reader(tokens)
<1>1. IsReader(r) /\ r.rest = tokens /\ DecodePublisher(tokens) = GetAll(r, ReadPublisher)
  BY DEF Reader, IsReader, DecodePublisher
<1> HIDE DEF r
<1>2. Reads(T, r, GetAll(r, ReadPublisher), Put(PublisherFields, GetAll(r, ReadPublisher).read),
            Names(ReadPublisher))
  BY <1>1, LayoutsAgree, LayoutRead
<1> QED
  BY <1>1, <1>2 DEF Reads, WasRecord

\* An attempt record that is read is the one that encode_attempt_record would write.
LEMMA AttemptRead ==
  ASSUME NEW T, NEW tokens \in Seq(T), \A t \in T : IsField(t), DecodeAttempt(tokens).code = "Ok"
  PROVE  WasRecord(T, tokens, DecodeAttempt(tokens), Put(AttemptFields, DecodeAttempt(tokens).read))
<1> DEFINE r == Reader(tokens)
<1>1. IsReader(r) /\ r.rest = tokens /\ DecodeAttempt(tokens) = GetAll(r, ReadAttempt)
  BY DEF Reader, IsReader, DecodeAttempt
<1> HIDE DEF r
<1>2. Reads(T, r, GetAll(r, ReadAttempt), Put(AttemptFields, GetAll(r, ReadAttempt).read),
            Names(ReadAttempt))
  BY <1>1, LayoutsAgree, LayoutRead
<1> QED
  BY <1>1, <1>2 DEF Reads, WasRecord

\* A multipath record that is read is the one that encode_multipath_record would write.
LEMMA MultipathRead ==
  ASSUME NEW T, NEW tokens \in Seq(T), \A t \in T : IsField(t), DecodeMultipath(tokens).code = "Ok"
  PROVE  WasRecord(T, tokens, DecodeMultipath(tokens), MultipathRecord(DecodeMultipath(tokens).read))
<1> DEFINE r0 == Reader(tokens)
           r1 == GetAll(r0, MultipathFields)
           r2 == DecodeMultipath(tokens)
<1>1. IsReader(r0) /\ r0.rest = tokens
  BY DEF Reader, IsReader
<1>2. r2 = GetList(r1, "members", ListedFields, Unlimited(r1), MinimumOwner)
  BY DEF DecodeMultipath, GetListed
<1>3. r1.code = "Ok"
  BY <1>2 DEF GetList, GetEntries, Get
<1> HIDE DEF r0
<1>4. Reads(T, r0, r1, Put(MultipathFields, r1.read), Names(MultipathFields))
  BY <1>1, <1>3, LayoutsAgree, LayoutRead
<1> HIDE DEF r1, r2
<1>5. IsReader(r1) /\ r1.rest \in Seq(T)
  BY <1>4 DEF Reads
<1>6. TookList(T, r1, r2, "members", ListedFields)
  <2>1. r2.code = "Ok"
    BY DEF r2
  <2> QED
    BY <1>2, <1>5, <2>1, LayoutsAgree, ListRead
<1>7. Reads(T, r1, r2, PutList(ListedFields, r2.read["members"]), {"members"})
  BY <1>6, Zenon DEF TookList
<1>8. Put(MultipathFields, r1.read) = Put(MultipathFields, r2.read)
  <2>1. Names(MultipathFields) \subseteq DOMAIN r1.read /\ Names(MultipathFields) \cap {"members"} = {}
    BY <1>4, LayoutsApart DEF Reads
  <2>2. Same(r1.read, r2.read, Names(MultipathFields))
    BY <1>7, <2>1, ReadKeeps
  <2>3. IsLayout(MultipathFields, 2) /\ Matches(MultipathFields, MultipathFields)
    BY LayoutsAgree
  <2> QED
    BY <2>2, <2>3, PutKeeps
<1>9. Reads(T, r0, r2, Put(MultipathFields, r1.read) \o PutList(ListedFields, r2.read["members"]),
            Names(MultipathFields) \cup {"members"})
  BY <1>4, <1>7, ReadThen
<1>10. Put(MultipathFields, r1.read) \o PutList(ListedFields, r2.read["members"]) = MultipathRecord(r2.read)
  BY <1>8, Zenon DEF MultipathRecord
<1>11. Reads(T, r0, r2, MultipathRecord(r2.read), Names(MultipathFields) \cup {"members"})
  BY <1>9, <1>10, Zenon
<1>12. WasRecord(T, tokens, r2, MultipathRecord(r2.read))
  BY <1>1, <1>11 DEF Reads, WasRecord
<1> QED
  BY <1>12 DEF r2

----------------------------------------------------------------------------
(* Reading the collections.                                                 *)

\* The record that the encoder writes of an entry.
Written(name, e) ==
  CASE name = "sets"       -> SetRecord(e)
    [] name = "paths"      -> Put(PathFields, e)
    [] name = "multipath"  -> MultipathRecord(e)
    [] name = "publishers" -> Put(PublisherFields, e)
    [] name = "attempts"   -> Put(AttemptFields, e)

RecordToken(name, e) == [kind |-> "record", value |-> Written(name, e)]
RecordTokens(name, es) == [i \in DOMAIN es |-> RecordToken(name, es[i])]

\* A field of a record.
Kinds == {"u8", "u16", "u32", "u64", "digest", "string"}
IsPlain(t) == IsField(t) /\ t.kind \in Kinds

\* A sequence of fields.
IsFields(s) == \E T : s \in Seq(T) /\ \A t \in T : IsPlain(t)

\* A token of the body is a field, and a record is one of fields.
IsBodyToken(t) == IF t.kind = "record" THEN IsField(t) /\ IsFields(t.value) ELSE IsPlain(t)

\* A decoded entry that is consumed was written of what was read.
LEMMA EntryRead ==
  ASSUME NEW name \in Collections, NEW tokens, IsFields(tokens),
         DecodeEntry(name, tokens).code = "Ok", Consumed(DecodeEntry(name, tokens))
  PROVE  tokens = Written(name, DecodeEntry(name, tokens).read)
<1> DEFINE entry == DecodeEntry(name, tokens)
           record == Written(name, entry.read)
<1>1. PICK T : tokens \in Seq(T) /\ \A t \in T : IsField(t)
  BY DEF IsFields, IsPlain
<1>2. WasRecord(T, tokens, entry, record)
  <2>1. CASE name = "sets"
    <3>1. entry = DecodeSet(tokens) /\ record = SetRecord(DecodeSet(tokens).read)
      BY <2>1 DEF DecodeEntry, Written
    <3> QED
      BY <1>1, <3>1, SetRead
  <2>2. CASE name = "paths"
    <3>1. entry = DecodePath(tokens) /\ record = Put(PathFields, DecodePath(tokens).read)
      BY <2>2 DEF DecodeEntry, Written
    <3> QED
      BY <1>1, <3>1, PathRead
  <2>3. CASE name = "multipath"
    <3>1. entry = DecodeMultipath(tokens) /\ record = MultipathRecord(DecodeMultipath(tokens).read)
      BY <2>3 DEF DecodeEntry, Written
    <3> QED
      BY <1>1, <3>1, MultipathRead
  <2>4. CASE name = "publishers"
    <3>1. entry = DecodePublisher(tokens) /\ record = Put(PublisherFields, DecodePublisher(tokens).read)
      BY <2>4 DEF DecodeEntry, Written
    <3> QED
      BY <1>1, <3>1, PublisherRead
  <2>5. CASE name = "attempts"
    <3>1. entry = DecodeAttempt(tokens) /\ record = Put(AttemptFields, DecodeAttempt(tokens).read)
      BY <2>5 DEF DecodeEntry, Written
    <3> QED
      BY <1>1, <3>1, AttemptRead
  <2> QED
    BY <2>1, <2>2, <2>3, <2>4, <2>5 DEF Collections
<1>3. entry.rest = <<>>
  BY DEF Consumed
<1> HIDE DEF entry, record
<1>4. tokens = record \o <<>> /\ record \in Seq(T)
  BY <1>2, <1>3, Zenon DEF WasRecord
<1>5. record \o <<>> = record
  BY <1>4
<1> QED
  BY <1>4, <1>5, Zenon DEF record, entry

\* One record more is written after the others.
LEMMA RecordsAppend ==
  ASSUME NEW E, NEW es \in Seq(E), NEW e \in E, NEW name, NEW B,
         RecordTokens(name, es) \in Seq(B), RecordToken(name, e) \in B
  PROVE  RecordTokens(name, Append(es, e)) = RecordTokens(name, es) \o <<RecordToken(name, e)>>
<1> DEFINE n == Len(es)
           ts == RecordTokens(name, es)
           all == Append(es, e)
           p == RecordToken(name, e)
           more == Append(ts, p)
<1>1. /\ n \in Nat /\ DOMAIN es = 1..n /\ DOMAIN all = 1..(n + 1) /\ all[n + 1] = e
      /\ \A i \in 1..n : all[i] = es[i]
  OBVIOUS
<1>2. DOMAIN ts = 1..n /\ Len(ts) = n /\ \A i \in 1..n : ts[i] = RecordToken(name, es[i])
  <2>1. DOMAIN ts = 1..n /\ \A i \in 1..n : ts[i] = RecordToken(name, es[i])
    BY <1>1 DEF RecordTokens
  <2>2. DOMAIN ts = 1..Len(ts) /\ Len(ts) \in Nat
    OBVIOUS
  <2> HIDE DEF ts, n
  <2> QED
    BY <1>1, <2>1, <2>2
<1>3. ts \in Seq(B) /\ p \in B
  OBVIOUS
<1> HIDE DEF ts, p
<1>4. /\ more \in Seq(B) /\ Len(more) = n + 1 /\ more[n + 1] = p
      /\ \A i \in 1..n : more[i] = ts[i]
  BY <1>1, <1>2, <1>3, AppendProperties
<1>5. more = [i \in 1..(n + 1) |-> more[i]]
  <2> HIDE DEF more, n
  <2> QED
    BY <1>4
<1>6. RecordTokens(name, all) = [i \in 1..(n + 1) |-> RecordToken(name, all[i])]
  <2> HIDE DEF all, n
  <2> QED
    BY <1>1 DEF RecordTokens
<1> HIDE DEF all, n, more
<1>7. \A i \in 1..(n + 1) : more[i] = RecordToken(name, all[i])
  BY <1>1, <1>2, <1>4 DEF p
<1>8. RecordTokens(name, all) = more
  BY <1>5, <1>6, <1>7
<1>9. more = ts \o <<p>>
  BY <1>3, AppendIsConcat DEF more
<1> QED
  BY <1>8, <1>9, Zenon DEF all, ts, p

\* Between the readers r and g a record was read, and its entry put behind those of the name.
TookRecord(B, r, g, name) ==
  \E e : /\ RecordToken(name, e) \in B
         /\ Reads(B, r, g, <<RecordToken(name, e)>>, {name})
         /\ g.read[name] = Append(r.read[name], e)

\* A record that is taken was the next token, written of the entry that is taken.
LEMMA RecordRead ==
  ASSUME NEW B, NEW r, IsReader(r), r.rest \in Seq(B), \A t \in B : IsBodyToken(t),
         NEW name \in Collections, name \in DOMAIN r.read, GetRecord(r, name).code = "Ok"
  PROVE  TookRecord(B, r, GetRecord(r, name), name)
<1> DEFINE g == GetRecord(r, name)
           t == Head(r.rest)
           entry == DecodeEntry(name, t.value)
           e == entry.read
<1>1. /\ r.code = "Ok" /\ r.rest # <<>> /\ t.kind = "record"
      /\ g = Taken(r, name, entry)
  BY DEF GetRecord, Reject
<1>2. /\ entry.code = "Ok" /\ Consumed(entry)
      /\ g = [r EXCEPT !.rest = Tail(@), !.read[name] = Append(@, e)]
  <2> HIDE DEF entry
  <2> QED
    BY <1>1 DEF Taken, Reject
<1>3. t \in B /\ Tail(r.rest) \in Seq(B) /\ r.rest = <<t>> \o Tail(r.rest)
  BY <1>1, HeadAndTail
<1>4. t = [kind |-> t.kind, value |-> t.value] /\ IsFields(t.value)
  BY <1>1, <1>3 DEF IsBodyToken, IsField
<1>5. t.value = Written(name, e)
  BY <1>2, <1>4, EntryRead
<1>6. t = RecordToken(name, e)
  BY <1>1, <1>4, <1>5, Zenon DEF RecordToken
<1> HIDE DEF entry, t, g
<1>7. /\ IsReader(g) /\ g.rest = Tail(r.rest) /\ DOMAIN g.read = DOMAIN r.read
      /\ g.read[name] = Append(r.read[name], e)
      /\ \A x \in DOMAIN r.read \ {name} : g.read[x] = r.read[x]
  BY <1>2 DEF IsReader
<1>8. <<t>> \in Seq(B)
  BY <1>3
<1>9. DOMAIN g.read = DOMAIN r.read \cup {name}
  BY <1>7
<1>10. Reads(B, r, g, <<t>>, {name})
  BY <1>1, <1>3, <1>7, <1>8, <1>9, Zenon DEF Reads
<1>11. RecordToken(name, e) \in B /\ Reads(B, r, g, <<RecordToken(name, e)>>, {name})
  BY <1>3, <1>6, <1>10, Zenon
<1> HIDE DEF e
<1> QED
  BY <1>7, <1>11, Zenon DEF g, TookRecord

\* Between the readers r and out, count records were read under a name.
TookRecords(B, r, out, name, count) ==
  LET es == out.read[name] IN
  /\ \E E : es \in Seq(E)
  /\ Len(es) = count
  /\ Reads(B, r, out, RecordTokens(name, es), {name})

\* What the turns of GetCounted read are the records that Collection would write.
LEMMA RecordsRead ==
  ASSUME NEW B, NEW r, IsReader(r), r.rest \in Seq(B), \A t \in B : IsBodyToken(t),
         NEW name \in Collections, name \in DOMAIN r.read, r.read[name] = <<>>, NEW count \in Nat,
         NEW out, out = RecordLoop(r, name, count), out.code = "Ok"
  PROVE  TookRecords(B, r, out, name, count)
<1>1. PICK h : /\ h[0] = r /\ h[count] = out
               /\ \A i \in 1..count : h[i] = GetRecord(h[i - 1], name)
  <2>1. \E h : /\ h[0] = r /\ h[count] = RecordLoop(r, name, count)
               /\ \A i \in 1..count : h[i] = GetRecord(h[i - 1], name)
    BY RecordTurns
  <2> QED
    BY <2>1
<1> DEFINE es(i) == h[i].read[name]
           Upto(i) == /\ \E E : es(i) \in Seq(E)
                      /\ Len(es(i)) = i /\ RecordTokens(name, es(i)) \in Seq(B)
                      /\ Reads(B, r, h[i], RecordTokens(name, es(i)), {name})
           P == {i \in Nat : i <= count /\ h[i].code = "Ok" => Upto(i)}
<1>2. 0 \in P
  <2> SUFFICES ASSUME h[0].code = "Ok" PROVE Upto(0)
    OBVIOUS
  <2>1. es(0) = <<>> /\ RecordTokens(name, <<>>) = <<>>
    BY <1>1 DEF RecordTokens
  <2>2. <<>> \o r.rest = r.rest /\ <<>> \in Seq(B) /\ <<>> \in Seq({}) /\ Len(<<>>) = 0
    OBVIOUS
  <2>3. Reads(B, r, h[0], <<>>, {name})
    BY <1>1, <2>2 DEF Reads
  <2> HIDE DEF es
  <2>4. \E E : es(0) \in Seq(E)
    BY <2>1, <2>2
  <2> QED
    BY <2>1, <2>2, <2>3, <2>4, Zenon
<1> HIDE DEF Upto
<1>3. ASSUME NEW i \in Nat, i \in P PROVE i + 1 \in P
  <2> SUFFICES ASSUME i + 1 <= count, h[i + 1].code = "Ok" PROVE Upto(i + 1)
    OBVIOUS
  <2>1. i + 1 \in 1..count /\ (i + 1) - 1 = i /\ i <= count
    OBVIOUS
  <2>2. h[i + 1] = GetRecord(h[i], name)
    BY <1>1, <2>1
  <2>3. h[i].code = "Ok"
    BY <2>2 DEF GetRecord
  <2>4. Upto(i)
    BY <1>3, <2>1, <2>3
  <2>5. IsReader(h[i]) /\ h[i].rest \in Seq(B) /\ name \in DOMAIN h[i].read
    BY <2>4 DEF Reads, Upto
  <2>6. PICK e : /\ RecordToken(name, e) \in B
                 /\ Reads(B, h[i], h[i + 1], <<RecordToken(name, e)>>, {name})
                 /\ es(i + 1) = Append(es(i), e)
    <3>1. TookRecord(B, h[i], GetRecord(h[i], name), name)
      BY <2>2, <2>5, RecordRead
    <3> QED
      BY <2>2, <3>1, Zenon DEF TookRecord
  <2> DEFINE ts == RecordTokens(name, es(i))
             p == <<RecordToken(name, e)>>
  <2>7. Len(es(i)) = i /\ ts \in Seq(B) /\ Reads(B, r, h[i], ts, {name})
    BY <2>4 DEF Upto
  <2>8. PICK E : es(i) \in Seq(E)
    BY <2>4 DEF Upto
  <2> HIDE DEF es
  <2>9. es(i) \in Seq(E \cup {e}) /\ e \in E \cup {e}
    BY <2>8, SeqMonotonic
  <2>10. es(i + 1) \in Seq(E \cup {e}) /\ Len(es(i + 1)) = i + 1
    <3>1. Append(es(i), e) \in Seq(E \cup {e}) /\ Len(Append(es(i), e)) = Len(es(i)) + 1
      BY <2>9, AppendProperties, Zenon
    <3> QED
      BY <2>6, <2>7, <3>1
  <2>11. RecordTokens(name, es(i + 1)) = ts \o p
    <3>1. RecordTokens(name, Append(es(i), e)) = ts \o p
      BY <2>6, <2>7, <2>9, RecordsAppend
    <3> QED
      BY <2>6, <3>1, Zenon
  <2> HIDE DEF ts, p
  <2>12. Reads(B, h[i], h[i + 1], p, {name})
    BY <2>6 DEF p
  <2>13. Reads(B, r, h[i + 1], ts \o p, {name} \cup {name})
    BY <2>7, <2>12, ReadThen
  <2>14. Reads(B, r, h[i + 1], RecordTokens(name, es(i + 1)), {name})
    BY <2>11, <2>13, Zenon
  <2>15. RecordTokens(name, es(i + 1)) \in Seq(B)
    BY <2>14, Zenon DEF Reads
  <2> QED
    BY <2>10, <2>14, <2>15, Zenon DEF Upto
<1>4. Upto(count)
  <2>1. Nat \subseteq P
    <3> HIDE DEF P
    <3> QED
      BY <1>2, <1>3, EveryNatural
  <2> QED
    BY <1>1, <2>1
<1>5. es(count) = out.read[name]
  BY <1>1
<1> HIDE DEF es
<1> QED
  BY <1>1, <1>4, <1>5 DEF TookRecords, Upto

\* A collection that is read is the one that Collection would write.
TookAll(B, r, out, name) ==
  LET records == [i \in DOMAIN out.read[name] |-> Written(name, out.read[name][i])]
  IN  Reads(B, r, out, Collection(records), {name})

\* A collection that is read is the one that the encoder would write of what is read.
LEMMA CollectionRead ==
  ASSUME NEW B, NEW r, IsReader(r), r.rest \in Seq(B), \A t \in B : IsBodyToken(t),
         NEW name \in Collections, NEW limit, NEW unit,
         GetRecords(r, name, limit, unit).code = "Ok"
  PROVE  TookAll(B, r, GetRecords(r, name, limit, unit), name)
<1> DEFINE counted == Get(r, "u32", "count")
           empty == With(r.read, name, <<>>)
           start == ReadAs(counted, empty)
           count == counted.read["count"]
           out == GetRecords(r, name, limit, unit)
           es == out.read[name]
           records == [i \in DOMAIN es |-> Written(name, es[i])]
           token == [kind |-> "u32", value |-> count]
<1>1. counted.code = "Ok" /\ out = RecordLoop(start, name, count)
  BY DEF GetRecords, GetCounted, Reject, ReadAs
<1>2. /\ DOMAIN empty = DOMAIN r.read \cup {name} /\ empty[name] = <<>>
      /\ \A x \in DOMAIN r.read \ {name} : empty[x] = r.read[x]
  BY DEF With
<1>3. Base("u32") = "u32" /\ "u32" \notin {"digest", "record"}
  BY DEF Base, Known
<1> HIDE DEF empty
<1>4. TookOne(B, r, "u32", "count", {name}, empty)
  <2>1. \A t \in B : IsField(t)
    BY DEF IsBodyToken, IsPlain
  <2> QED
    BY <1>1, <1>2, <2>1, OneRead
<1>5. /\ Reads(B, r, start, <<[kind |-> Base("u32"), value |-> count]>>, {name})
      /\ start.read = empty /\ start.code = "Ok"
      /\ Base("u32") \notin {"digest", "record"} => count \in Nat
  BY <1>4, Zenon DEF TookOne
<1> HIDE DEF counted, start, count
<1>6. Reads(B, r, start, <<token>>, {name}) /\ count \in Nat
  BY <1>3, <1>5
<1>7. IsReader(start) /\ start.rest \in Seq(B) /\ name \in DOMAIN start.read /\ start.read[name] = <<>>
  BY <1>2, <1>5, <1>6 DEF Reads
<1>8. out.code = "Ok"
  OBVIOUS
<1> HIDE DEF out
<1>9. /\ \E E : es \in Seq(E)
      /\ Len(es) = count
      /\ Reads(B, start, out, RecordTokens(name, es), {name})
  <2>1. TookRecords(B, start, out, name, count)
    BY <1>1, <1>6, <1>7, <1>8, RecordsRead
  <2> QED
    BY <2>1, Zenon DEF TookRecords
<1>10. Reads(B, r, out, <<token>> \o RecordTokens(name, es), {name} \cup {name})
  BY <1>6, <1>9, ReadThen
<1>11. Collection(records) = <<token>> \o RecordTokens(name, es)
  <2>1. DOMAIN es = 1..count /\ DOMAIN records = 1..count /\ count \in Nat
    BY <1>6, <1>9
  <2>2. Len(records) = count
    BY <2>1
  <2>3. [i \in DOMAIN records |-> [kind |-> "record", value |-> records[i]]] = RecordTokens(name, es)
    BY DEF RecordTokens, RecordToken
  <2> HIDE DEF records
  <2> QED
    BY <2>2, <2>3, Zenon DEF Collection, Count
<1>12. Reads(B, r, out, Collection(records), {name})
  BY <1>10, <1>11, Zenon
<1> QED
  BY <1>12 DEF TookAll, out

----------------------------------------------------------------------------
(* Reading the file.                                                        *)

\* A file: its header, a body of tokens, and its trailer.
IsFile(f) ==
  /\ f = [magic |-> f.magic, version |-> f.version, flags |-> f.flags, body |-> f.body,
          digest |-> f.digest]
  /\ \E B : f.body \in Seq(B) /\ \A t \in B : IsBodyToken(t)

\* A collection that is read is the one of its name among the records of the state.
LEMMA RecordsOf ==
  ASSUME NEW B, NEW r, NEW out
  PROVE  /\ TookAll(B, r, out, "sets") => Reads(B, r, out, Collection(Records(out.read).sets), {"sets"})
         /\ TookAll(B, r, out, "paths") => Reads(B, r, out, Collection(Records(out.read).paths), {"paths"})
         /\ TookAll(B, r, out, "multipath") =>
              Reads(B, r, out, Collection(Records(out.read).multipath), {"multipath"})
         /\ TookAll(B, r, out, "publishers") =>
              Reads(B, r, out, Collection(Records(out.read).publishers), {"publishers"})
         /\ TookAll(B, r, out, "attempts") =>
              Reads(B, r, out, Collection(Records(out.read).attempts), {"attempts"})
<1> DEFINE s == out.read
           W(name) == [i \in DOMAIN s[name] |-> Written(name, s[name][i])]
<1>1. /\ W("sets") = Records(s).sets /\ W("paths") = Records(s).paths
      /\ W("multipath") = Records(s).multipath /\ W("publishers") = Records(s).publishers
      /\ W("attempts") = Records(s).attempts
  BY DEF Records, Written
<1>2. \A name : TookAll(B, r, out, name) => Reads(B, r, out, Collection(W(name)), {name})
  BY Zenon DEF TookAll
<1> HIDE DEF W
<1> QED
  BY <1>1, <1>2

\* The records of a collection depend on that collection alone.
LEMMA RecordsKeep ==
  ASSUME NEW s, NEW t
  PROVE  /\ s["sets"] = t["sets"] => Records(s).sets = Records(t).sets
         /\ s["paths"] = t["paths"] => Records(s).paths = Records(t).paths
         /\ s["multipath"] = t["multipath"] => Records(s).multipath = Records(t).multipath
         /\ s["publishers"] = t["publishers"] => Records(s).publishers = Records(t).publishers
         /\ s["attempts"] = t["attempts"] => Records(s).attempts = Records(t).attempts
BY DEF Records

\* A file that is decoded is the encoding of what is decoded.
LEMMA DecodedIsEncoded ==
  ASSUME NEW f, IsFile(f), Decoded(f).code = "Ok"
  PROVE  f = Encoded(Decoded(f).read)
<1> DEFINE r0 == Reader(f.body)
           r1 == GetAll(r0, ReadCounters)
           g2 == GetRecords(r1, "sets", MaxSets, Length)
           r2 == GetSets(r1)
           r3 == GetPaths(r2)
           r4 == GetMultipath(r3)
           r5 == GetPublishers(r4)
           r6 == GetAttempts(r5)
           out == Ended(r6)
<1>1. PICK B : f.body \in Seq(B) /\ \A t \in B : IsBodyToken(t)
  BY DEF IsFile
<1>2. /\ f.magic = "WPFS" /\ f.version = Version /\ f.flags = 0
      /\ f.digest = <<f.magic, f.version, f.flags, f.body>>
      /\ out = Decoded(f)
  <2> DEFINE last == out
  <2> HIDE DEF last
  <2>1. \A code : code # "Ok" => Reject(Reader(<<>>), code).code # "Ok"
    BY DEF Reject, Reader
  <2>2. /\ Reject(Reader(<<>>), "Corrupt").code # "Ok"
        /\ Reject(Reader(<<>>), "VersionUnsupported").code # "Ok"
        /\ Reject(Reader(<<>>), "IntegrityFailure").code # "Ok"
    BY <2>1
  <2>3. Decoded(f) = IF f.magic # "WPFS" THEN Reject(Reader(<<>>), "Corrupt")
                     ELSE IF f.version # Version \/ f.flags # 0
                     THEN Reject(Reader(<<>>), "VersionUnsupported")
                     ELSE IF f.digest # <<f.magic, f.version, f.flags, f.body>>
                     THEN Reject(Reader(<<>>), "IntegrityFailure") ELSE last
    BY Zenon DEF Decoded, last
  <2>4. /\ f.magic = "WPFS" /\ f.version = Version /\ f.flags = 0
        /\ f.digest = <<f.magic, f.version, f.flags, f.body>>
        /\ last = Decoded(f)
    BY <2>2, <2>3
  <2> QED
    BY <2>4 DEF last
<1>3. r6.code = "Ok"
  <2> HIDE DEF r6
  <2> QED
    BY <1>2 DEF Ended
<1>4. r5.code = "Ok" /\ r4.code = "Ok" /\ r3.code = "Ok" /\ r2.code = "Ok" /\ g2.code = "Ok" /\ r1.code = "Ok"
  <2>1. \A r, name, limit, unit : GetRecords(r, name, limit, unit).code = "Ok" => r.code = "Ok"
    <3> TAKE r, name, limit, unit
    <3>1. GetRecords(r, name, limit, unit).code = "Ok" => Get(r, "u32", "count").code = "Ok"
      BY DEF GetRecords, GetCounted
    <3> QED
      BY <3>1, RejectedGets
  <2> HIDE DEF r0, r1
  <2>2. r5.code = "Ok"
    <3> HIDE DEF r5
    <3> QED
      BY <1>3, <2>1 DEF GetAttempts
  <2>3. r4.code = "Ok"
    <3> HIDE DEF r4
    <3> QED
      BY <2>1, <2>2 DEF GetPublishers
  <2>4. r3.code = "Ok"
    <3> HIDE DEF r3
    <3> QED
      BY <2>1, <2>3 DEF GetMultipath
  <2>5. r2.code = "Ok"
    <3> HIDE DEF r2
    <3> QED
      BY <2>1, <2>4 DEF GetPaths
  <2>6. g2.code = "Ok"
    <3> HIDE DEF g2
    <3>1. r2 = WithinTotals(g2)
      BY DEF GetSets, g2
    <3> QED
      BY <2>5, <3>1 DEF WithinTotals, Reject
  <2>7. r1.code = "Ok"
    BY <2>1, <2>6
  <2> QED
    BY <2>2, <2>3, <2>4, <2>5, <2>6, <2>7
<1>5. r2 = g2
  <2> HIDE DEF r1
  <2>1. r2 = WithinTotals(g2)
    BY DEF GetSets
  <2> HIDE DEF g2, r2
  <2> QED
    BY <1>4, <2>1 DEF WithinTotals, Reject
<1>6. IsReader(r0) /\ r0.rest = f.body
  BY DEF Reader, IsReader
<1>7. \A t \in B : IsField(t)
  BY <1>1 DEF IsBodyToken, IsPlain
<1> HIDE DEF r0
<1>8. Reads(B, r0, r1, Put(Counters, r1.read), Names(ReadCounters))
  <2>1. IsLayout(ReadCounters, 5) /\ Matches(Counters, ReadCounters)
    BY LayoutsAgree
  <2> QED
    BY <1>1, <1>4, <1>6, <1>7, <2>1, LayoutRead
<1> HIDE DEF r1
<1>9. IsReader(r1) /\ r1.rest \in Seq(B)
  BY <1>8 DEF Reads
<1>10. Reads(B, r1, r2, Collection(Records(r2.read).sets), {"sets"})
  <2>1. TookAll(B, r1, g2, "sets")
    BY <1>1, <1>4, <1>9, CollectionRead DEF Collections
  <2> HIDE DEF g2, r2
  <2> QED
    BY <1>5, <2>1, RecordsOf
<1> HIDE DEF r2, g2
<1>11. IsReader(r2) /\ r2.rest \in Seq(B)
  BY <1>10 DEF Reads
<1>12. Reads(B, r2, r3, Collection(Records(r3.read).paths), {"paths"})
  <2>1. TookAll(B, r2, r3, "paths")
    BY <1>1, <1>4, <1>11, CollectionRead DEF Collections, GetPaths
  <2> HIDE DEF r3
  <2> QED
    BY <2>1, RecordsOf
<1> HIDE DEF r3
<1>13. IsReader(r3) /\ r3.rest \in Seq(B)
  BY <1>12 DEF Reads
<1>14. Reads(B, r3, r4, Collection(Records(r4.read).multipath), {"multipath"})
  <2>1. TookAll(B, r3, r4, "multipath")
    BY <1>1, <1>4, <1>13, CollectionRead DEF Collections, GetMultipath
  <2> HIDE DEF r4
  <2> QED
    BY <2>1, RecordsOf
<1> HIDE DEF r4
<1>15. IsReader(r4) /\ r4.rest \in Seq(B)
  BY <1>14 DEF Reads
<1>16. Reads(B, r4, r5, Collection(Records(r5.read).publishers), {"publishers"})
  <2>1. TookAll(B, r4, r5, "publishers")
    BY <1>1, <1>4, <1>15, CollectionRead DEF Collections, GetPublishers
  <2> HIDE DEF r5
  <2> QED
    BY <2>1, RecordsOf
<1> HIDE DEF r5
<1>17. IsReader(r5) /\ r5.rest \in Seq(B)
  BY <1>16 DEF Reads
<1>18. Reads(B, r5, r6, Collection(Records(r6.read).attempts), {"attempts"})
  <2>1. TookAll(B, r5, r6, "attempts")
    BY <1>1, <1>3, <1>17, CollectionRead DEF Collections, GetAttempts
  <2> HIDE DEF r6
  <2> QED
    BY <2>1, RecordsOf
<1> HIDE DEF r6
<1>19. out = r6 /\ r6.rest = <<>>
  <2>1. IsReader(r6) /\ out.code = "Ok"
    BY <1>2, <1>18 DEF Reads
  <2> QED
    BY <2>1 DEF Ended, IsReader, Reject
<1> HIDE DEF out
<1> DEFINE X == Names(ReadCounters)
           s == r6.read
<1>20. /\ Same(r1.read, s, X) /\ r2.read["sets"] = s["sets"] /\ r3.read["paths"] = s["paths"]
       /\ r4.read["multipath"] = s["multipath"] /\ r5.read["publishers"] = s["publishers"]
  <2> DEFINE S2 == {"sets"}
             S3 == {"paths"}
             S4 == {"multipath"}
             S5 == {"publishers"}
             S6 == {"attempts"}
  <2>1. /\ X \subseteq DOMAIN r1.read /\ S2 \subseteq DOMAIN r2.read /\ S3 \subseteq DOMAIN r3.read
        /\ S4 \subseteq DOMAIN r4.read /\ S5 \subseteq DOMAIN r5.read
    <3>1. X \subseteq DOMAIN r1.read
      BY <1>8 DEF Reads
    <3>2. \A r, g, tokens, S : Reads(B, r, g, tokens, S) => S \subseteq DOMAIN g.read
      BY DEF Reads
    <3> QED
      BY <1>10, <1>12, <1>14, <1>16, <3>1, <3>2
  <2>2. /\ X \cap S2 = {} /\ X \cap S3 = {} /\ X \cap S4 = {} /\ X \cap S5 = {} /\ X \cap S6 = {}
        /\ S2 \cap S3 = {} /\ S2 \cap S4 = {} /\ S2 \cap S5 = {} /\ S2 \cap S6 = {}
        /\ S3 \cap S4 = {} /\ S3 \cap S5 = {} /\ S3 \cap S6 = {}
        /\ S4 \cap S5 = {} /\ S4 \cap S6 = {} /\ S5 \cap S6 = {}
    BY LayoutsApart
  <2> DEFINE c2 == Collection(Records(r2.read).sets)
             c3 == Collection(Records(r3.read).paths)
             c4 == Collection(Records(r4.read).multipath)
             c5 == Collection(Records(r5.read).publishers)
             c6 == Collection(Records(r6.read).attempts)
  <2>3. /\ Reads(B, r1, r2, c2, S2) /\ Reads(B, r2, r3, c3, S3) /\ Reads(B, r3, r4, c4, S4)
        /\ Reads(B, r4, r5, c5, S5) /\ Reads(B, r5, r6, c6, S6)
    BY <1>10, <1>12, <1>14, <1>16, <1>18
  <2> HIDE DEF X, S2, S3, S4, S5, S6, c2, c3, c4, c5, c6
  <2>4. Same(r1.read, r2.read, X)
    BY <2>1, <2>2, <2>3, ReadKeeps
  <2>5. Same(r2.read, r3.read, X) /\ Same(r2.read, r3.read, S2)
    <3>1. X \subseteq DOMAIN r2.read
      BY <2>4 DEF Same
    <3> QED
      BY <2>1, <2>2, <2>3, <3>1, ReadKeeps
  <2>6. Same(r3.read, r4.read, X) /\ Same(r3.read, r4.read, S2) /\ Same(r3.read, r4.read, S3)
    <3>1. X \subseteq DOMAIN r3.read /\ S2 \subseteq DOMAIN r3.read
      BY <2>5 DEF Same
    <3> QED
      BY <2>1, <2>2, <2>3, <3>1, ReadKeeps
  <2>7. /\ Same(r4.read, r5.read, X) /\ Same(r4.read, r5.read, S2) /\ Same(r4.read, r5.read, S3)
        /\ Same(r4.read, r5.read, S4)
    <3>1. X \subseteq DOMAIN r4.read /\ S2 \subseteq DOMAIN r4.read /\ S3 \subseteq DOMAIN r4.read
      BY <2>6 DEF Same
    <3> QED
      BY <2>1, <2>2, <2>3, <3>1, ReadKeeps
  <2>8. /\ Same(r5.read, r6.read, X) /\ Same(r5.read, r6.read, S2) /\ Same(r5.read, r6.read, S3)
        /\ Same(r5.read, r6.read, S4) /\ Same(r5.read, r6.read, S5)
    <3>1. X \subseteq DOMAIN r5.read /\ S2 \subseteq DOMAIN r5.read /\ S3 \subseteq DOMAIN r5.read
          /\ S4 \subseteq DOMAIN r5.read
      BY <2>7 DEF Same
    <3> QED
      BY <2>1, <2>2, <2>3, <3>1, ReadKeeps
  <2>9. \A a, b, c, Y : Same(a, b, Y) /\ Same(b, c, Y) => Same(a, c, Y)
    BY DEF Same
  <2>10. /\ Same(r1.read, r6.read, X) /\ Same(r2.read, r6.read, S2) /\ Same(r3.read, r6.read, S3)
         /\ Same(r4.read, r6.read, S4)
    <3>1. Same(r1.read, r3.read, X)
      BY <2>4, <2>5, <2>9
    <3>2. Same(r1.read, r4.read, X) /\ Same(r2.read, r4.read, S2)
      BY <2>5, <2>6, <2>9, <3>1
    <3>3. Same(r1.read, r5.read, X) /\ Same(r2.read, r5.read, S2) /\ Same(r3.read, r5.read, S3)
      BY <2>6, <2>7, <2>9, <3>2
    <3> QED
      BY <2>7, <2>8, <2>9, <3>3
  <2>11. /\ \A x \in S2 : r2.read[x] = r6.read[x]
         /\ \A x \in S3 : r3.read[x] = r6.read[x]
         /\ \A x \in S4 : r4.read[x] = r6.read[x]
         /\ \A x \in S5 : r5.read[x] = r6.read[x]
    BY <2>8, <2>10 DEF Same
  <2>12. /\ r2.read["sets"] = s["sets"] /\ r3.read["paths"] = s["paths"]
         /\ r4.read["multipath"] = s["multipath"] /\ r5.read["publishers"] = s["publishers"]
    BY <2>11 DEF S2, S3, S4, S5
  <2> QED
    BY <2>10, <2>12
<1> DEFINE k == Put(Counters, s)
           d2 == Collection(Records(s).sets)
           d3 == Collection(Records(s).paths)
           d4 == Collection(Records(s).multipath)
           d5 == Collection(Records(s).publishers)
           d6 == Collection(Records(s).attempts)
<1>21. k = Put(Counters, r1.read)
  <2>1. IsLayout(ReadCounters, 5) /\ Matches(Counters, ReadCounters)
    BY LayoutsAgree
  <2>2. Same(r1.read, s, Names(ReadCounters))
    BY <1>20
  <2> HIDE DEF s
  <2>3. Put(Counters, r1.read) = Put(Counters, s)
    BY <2>1, <2>2, PutKeeps
  <2> QED
    BY <2>3
<1> HIDE DEF X
<1>22. /\ d2 = Collection(Records(r2.read).sets) /\ d3 = Collection(Records(r3.read).paths)
       /\ d4 = Collection(Records(r4.read).multipath) /\ d5 = Collection(Records(r5.read).publishers)
  BY <1>20, RecordsKeep
<1>23. /\ Reads(B, r0, r1, k, Names(ReadCounters)) /\ Reads(B, r1, r2, d2, {"sets"})
       /\ Reads(B, r2, r3, d3, {"paths"}) /\ Reads(B, r3, r4, d4, {"multipath"})
       /\ Reads(B, r4, r5, d5, {"publishers"}) /\ Reads(B, r5, r6, d6, {"attempts"})
  <2>1. Reads(B, r0, r1, k, Names(ReadCounters))
    BY <1>8, <1>21, Zenon
  <2>2. Reads(B, r1, r2, d2, {"sets"}) /\ Reads(B, r2, r3, d3, {"paths"})
    BY <1>10, <1>12, <1>22, Zenon
  <2>3. Reads(B, r3, r4, d4, {"multipath"}) /\ Reads(B, r4, r5, d5, {"publishers"})
    BY <1>14, <1>16, <1>22, Zenon
  <2> QED
    BY <1>18, <2>1, <2>2, <2>3
<1>24. f.body = ((((k \o d2) \o d3) \o d4) \o d5) \o d6
  <2> HIDE DEF k, d2, d3, d4, d5, d6
  <2>1. \E M : Reads(B, r0, r2, k \o d2, M)
    BY <1>23, ReadThen
  <2>2. \E M : Reads(B, r0, r3, (k \o d2) \o d3, M)
    BY <1>23, <2>1, ReadThen
  <2>3. \E M : Reads(B, r0, r4, ((k \o d2) \o d3) \o d4, M)
    BY <1>23, <2>2, ReadThen
  <2>4. \E M : Reads(B, r0, r5, (((k \o d2) \o d3) \o d4) \o d5, M)
    BY <1>23, <2>3, ReadThen
  <2> DEFINE body == ((((k \o d2) \o d3) \o d4) \o d5) \o d6
  <2>5. \E M : Reads(B, r0, r6, body, M)
    BY <1>23, <2>4, ReadThen
  <2> HIDE DEF body
  <2>6. f.body = body \o <<>> /\ body \in Seq(B)
    BY <1>6, <1>19, <2>5 DEF Reads
  <2>7. body \o <<>> = body
    BY <2>6
  <2>8. f.body = body
    BY <2>6, <2>7
  <2> QED
    BY <2>8 DEF body
<1>25. Encoded(s) = Sealed("WPFS", Version, 0, ((((k \o d2) \o d3) \o d4) \o d5) \o d6)
  BY Zenon DEF Encoded
<1> HIDE DEF k, d2, d3, d4, d5, d6
<1>26. f = Sealed("WPFS", Version, 0, f.body)
  BY <1>2 DEF Sealed, IsFile
<1>27. f = Encoded(s)
  BY <1>24, <1>25, <1>26, Zenon
<1> QED
  BY <1>2, <1>27, <1>19, Zenon DEF s

----------------------------------------------------------------------------
(* What is saved is a body of tokens, and what is made of it stays one.     *)

IsBody(b) == \E B : b \in Seq(B) /\ \A t \in B : IsBodyToken(t)

\* Fields behind fields are fields.
LEMMA FieldsJoin ==
  ASSUME NEW a, NEW b, IsFields(a), IsFields(b)
  PROVE  IsFields(a \o b)
<1>1. PICK S : a \in Seq(S) /\ \A t \in S : IsPlain(t)
  BY DEF IsFields
<1>2. PICK T : b \in Seq(T) /\ \A t \in T : IsPlain(t)
  BY DEF IsFields
<1> DEFINE U == S \cup T
<1>3. S \subseteq U /\ T \subseteq U /\ \A t \in U : IsPlain(t)
  BY <1>1, <1>2
<1> HIDE DEF U
<1>4. a \in Seq(U) /\ b \in Seq(U)
  BY <1>1, <1>2, <1>3, SeqMonotonic
<1>5. a \o b \in Seq(U)
  BY <1>4
<1> QED
  BY <1>3, <1>5 DEF IsFields

\* Parts of a body behind parts of a body are a body.
LEMMA BodyJoin ==
  ASSUME NEW a, NEW b, IsBody(a), IsBody(b)
  PROVE  IsBody(a \o b)
<1>1. PICK S : a \in Seq(S) /\ \A t \in S : IsBodyToken(t)
  BY DEF IsBody
<1>2. PICK T : b \in Seq(T) /\ \A t \in T : IsBodyToken(t)
  BY DEF IsBody
<1> DEFINE U == S \cup T
<1>3. S \subseteq U /\ T \subseteq U /\ \A t \in U : IsBodyToken(t)
  BY <1>1, <1>2
<1> HIDE DEF U
<1>4. a \in Seq(U) /\ b \in Seq(U)
  BY <1>1, <1>2, <1>3, SeqMonotonic
<1>5. a \o b \in Seq(U)
  BY <1>4
<1> QED
  BY <1>3, <1>5 DEF IsBody

\* A layout of the encoders: n fields of the kinds known.
IsWritten(write, n) == n \in Nat /\ DOMAIN write = 1..n /\ \A i \in 1..n : write[i][1] \in Kinds

\* The layouts of the encoders are such.
LEMMA LayoutsWritten ==
  /\ IsWritten(Counters, 5) /\ IsWritten(PathFields, 3) /\ IsWritten(MultipathFields, 2)
  /\ IsWritten(ListedFields, 1) /\ IsWritten(PublisherFields, 9) /\ IsWritten(AttemptFields, 6)
  /\ IsWritten(SetFields, 16) /\ IsWritten(MemberFields, 11) /\ IsWritten(StandingFields, 7)
  /\ IsWritten(HistoryFields, 10)
<1>1. IsWritten(Counters, 5)
  BY DEF IsWritten, Kinds, Counters
<1>2. IsWritten(PathFields, 3)
  BY DEF IsWritten, Kinds, PathFields
<1>3. IsWritten(MultipathFields, 2)
  BY DEF IsWritten, Kinds, MultipathFields
<1>4. IsWritten(ListedFields, 1)
  BY DEF IsWritten, Kinds, ListedFields
<1>5. IsWritten(PublisherFields, 9)
  BY DEF IsWritten, Kinds, PublisherFields
<1>6. IsWritten(AttemptFields, 6)
  BY DEF IsWritten, Kinds, AttemptFields
<1>7. IsWritten(SetFields, 16)
  BY DEF IsWritten, Kinds, SetFields
<1>8. IsWritten(MemberFields, 11)
  BY DEF IsWritten, Kinds, MemberFields
<1>9. IsWritten(StandingFields, 7)
  BY DEF IsWritten, Kinds, StandingFields
<1>10. IsWritten(HistoryFields, 10)
  BY DEF IsWritten, Kinds, HistoryFields
<1> QED
  BY <1>1, <1>2, <1>3, <1>4, <1>5, <1>6, <1>7, <1>8, <1>9, <1>10

\* What Put writes are fields.
LEMMA FieldsPut ==
  ASSUME NEW write, NEW n, IsWritten(write, n), NEW r, HasFields(r, write)
  PROVE  /\ IsFields(Put(write, r)) /\ IsBody(Put(write, r))
         /\ \A i \in 1..n : IsPlain(Put(write, r)[i])
<1> DEFINE token(i) == [kind |-> write[i][1], value |-> r[write[i][2]]]
           T == {token(i) : i \in 1..n}
<1>1. \A t \in T : IsPlain(t)
  BY DEF IsPlain, IsField, Kinds, IsWritten, HasFields
<1>2. Put(write, r) = [i \in 1..n |-> token(i)]
  BY DEF Put, IsWritten
<1>3. \A i \in 1..n : token(i) \in T
  OBVIOUS
<1> HIDE DEF token, T
<1>4. [i \in 1..n |-> token(i)] \in [1..n -> T]
  BY <1>3
<1>5. Put(write, r) \in Seq(T)
  <2>1. n \in Nat
    BY DEF IsWritten
  <2> QED
    BY <1>2, <1>4, <2>1, SeqDef
<1>6. \A i \in 1..n : Put(write, r)[i] \in T
  BY <1>2, <1>3
<1>7. \A t \in T : IsBodyToken(t)
  BY <1>1 DEF IsBodyToken, IsPlain, Kinds
<1> QED
  BY <1>1, <1>5, <1>6, <1>7 DEF IsFields, IsBody

\* Sequences of fields.
AreFields(T, ss) == ss \in Seq(Seq(T)) /\ \A t \in T : IsPlain(t)

\* The entries of a list are written as fields.
LEMMA EntriesPut ==
  ASSUME NEW write, NEW n, IsWritten(write, n), NEW rs, HasList(rs, write)
  PROVE  \E T : AreFields(T, Entries(write, rs))
<1> DEFINE m == Len(rs)
           ss == Entries(write, rs)
           T == {Put(write, rs[i])[j] : i \in 1..m, j \in 1..n}
<1>1. rs \in Seq(Range(rs)) /\ \A i \in DOMAIN rs : HasFields(rs[i], write)
  BY DEF HasList
<1>2. m \in Nat /\ DOMAIN rs = 1..m
  BY <1>1
<1>3. n \in Nat /\ DOMAIN write = 1..n
  BY DEF IsWritten
<1>4. \A i \in 1..m : HasFields(rs[i], write)
  BY <1>1, <1>2
<1> HIDE DEF m
<1>5. \A t \in T : IsPlain(t)
  <2>1. \A i \in 1..m : \A j \in 1..n : IsPlain(Put(write, rs[i])[j])
    BY <1>4, FieldsPut
  <2> QED
    BY <2>1
<1>6. \A i \in 1..m : Put(write, rs[i]) \in Seq(T)
  <2> TAKE i \in 1..m
  <2> DEFINE p == Put(write, rs[i])
  <2>1. p = [j \in 1..n |-> p[j]]
    BY <1>3 DEF Put
  <2>2. \A j \in 1..n : p[j] \in T
    OBVIOUS
  <2> HIDE DEF p, T
  <2>3. p \in [1..n -> T]
    BY <2>1, <2>2
  <2> QED
    BY <1>3, <2>3, SeqDef DEF p
<1> HIDE DEF T
<1>7. ss \in Seq(Seq(T))
  <2>1. ss = [i \in 1..m |-> Put(write, rs[i])]
    BY <1>2 DEF Entries
  <2>2. [i \in 1..m |-> Put(write, rs[i])] \in [1..m -> Seq(T)]
    BY <1>6
  <2> HIDE DEF ss
  <2> QED
    BY <1>2, <2>1, <2>2, SeqDef
<1> QED
  BY <1>5, <1>7 DEF AreFields

\* A count of a list is a field.
LEMMA FieldCount ==
  ASSUME NEW rs, Len(rs) \in Nat
  PROVE  IsPlain(Count(rs)[1]) /\ Count(rs) = <<Count(rs)[1]>> /\ IsFields(Count(rs))
<1> DEFINE count == [kind |-> "u32", value |-> Len(rs)]
           C == {count}
<1>1. Count(rs) = <<count>>
  BY DEF Count
<1>2. <<count>> \in Seq(C) /\ (\A t \in C : IsPlain(t)) /\ <<count>>[1] = count /\ IsPlain(count)
  BY DEF IsPlain, IsField, Kinds
<1> HIDE DEF C, count
<1>3. IsFields(<<count>>)
  BY <1>2, Zenon DEF IsFields
<1> QED
  BY <1>1, <1>2, <1>3, Zenon

\* What PutList writes are fields.
LEMMA FieldsPutList ==
  ASSUME NEW write, NEW n, IsWritten(write, n), NEW rs, HasList(rs, write)
  PROVE  IsFields(PutList(write, rs))
<1> DEFINE ss == Entries(write, rs)
<1>1. PICK T : AreFields(T, ss)
  BY EntriesPut
<1> HIDE DEF ss
<1>2. FlattenSeq(ss) \in Seq(T)
  <2>1. <<>> \in Seq(T)
    OBVIOUS
  <2> QED
    BY <1>1, <2>1, FlattenAppend DEF AreFields
<1>3. IsFields(FlattenSeq(ss))
  BY <1>1, <1>2 DEF IsFields, AreFields
<1>4. Len(rs) \in Nat
  BY DEF HasList
<1>5. IsFields(Count(rs))
  BY <1>4, FieldCount
<1>6. PutList(write, rs) = Count(rs) \o FlattenSeq(ss)
  BY Zenon DEF PutList, Entries, ss
<1> QED
  BY <1>3, <1>5, <1>6, FieldsJoin

\* A record of a collection is one of fields, and the collection is a part of a body.
LEMMA BodyCollection ==
  ASSUME NEW n \in Nat, NEW records, DOMAIN records = 1..n, \A i \in 1..n : IsFields(records[i])
  PROVE  IsBody(Collection(records))
<1> DEFINE token(i) == [kind |-> "record", value |-> records[i]]
           framed == [i \in DOMAIN records |-> token(i)]
           count == [kind |-> "u32", value |-> Len(records)]
           B == {token(i) : i \in 1..n}
           C == {count}
<1>1. \A t \in B : IsBodyToken(t)
  BY DEF IsBodyToken, IsPlain, IsField, Kinds
<1>2. \A i \in 1..n : token(i) \in B
  OBVIOUS
<1>3. framed \in Seq(B)
  <2> HIDE DEF token, B
  <2>1. [i \in 1..n |-> token(i)] \in [1..n -> B]
    BY <1>2
  <2> QED
    BY <2>1, SeqDef
<1>4. IsBody(framed)
  <2> HIDE DEF framed, B
  <2> QED
    BY <1>1, <1>3 DEF IsBody
<1>5. Len(records) = n
  OBVIOUS
<1>6. <<count>> \in Seq(C) /\ \A t \in C : IsBodyToken(t)
  BY <1>5 DEF IsBodyToken, IsPlain, IsField, Kinds
<1>7. IsBody(<<count>>)
  <2> HIDE DEF C, count
  <2> QED
    BY <1>6, Zenon DEF IsBody
<1>8. Collection(records) = <<count>> \o framed
  BY Zenon DEF Collection, Count
<1> HIDE DEF count, framed
<1> QED
  BY <1>4, <1>7, <1>8, BodyJoin

\* The slot map is written as fields.
LEMMA FieldsPutSlots ==
  ASSUME NEW owners, HasList(owners, ListedFields)
  PROVE  IsFields(PutSlots(owners))
<1> DEFINE flag(v) == [kind |-> "u8", value |-> v]
           count == [kind |-> "u32", value |-> Len(owners)]
<1>1. \A t : IsPlain(t) => IsFields(<<t>>)
  <2> TAKE t
  <2> DEFINE C == {t}
  <2>1. <<t>> \in Seq(C) /\ \A u \in C : u = t
    OBVIOUS
  <2> HIDE DEF C
  <2> QED
    BY <2>1, Zenon DEF IsFields
<1>2. Len(owners) \in Nat
  BY DEF HasList
<1>3. IsPlain(flag(0)) /\ IsPlain(flag(1)) /\ IsPlain(count)
  BY <1>2 DEF IsPlain, IsField, Kinds
<1>4. IsFields(<<flag(0)>>) /\ IsFields(<<flag(1)>>) /\ IsFields(<<count>>)
  <2> HIDE DEF flag, count
  <2> QED
    BY <1>1, <1>3
<1>5. PutSlots(owners) = <<flag(0)>> \/
      PutSlots(owners) = (<<flag(1)>> \o <<count>>) \o PutList(ListedFields, owners)
  BY Zenon DEF PutSlots, Count
<1>6. IsFields(PutList(ListedFields, owners))
  BY LayoutsWritten, FieldsPutList
<1> HIDE DEF flag, count
<1>7. IsFields((<<flag(1)>> \o <<count>>) \o PutList(ListedFields, owners))
  <2>1. IsFields(<<flag(1)>> \o <<count>>)
    BY <1>4, FieldsJoin
  <2> QED
    BY <1>6, <2>1, FieldsJoin
<1> QED
  BY <1>4, <1>5, <1>7

\* A set is written as fields.
LEMMA FieldsSetRecord ==
  ASSUME NEW set, HasSet(set)
  PROVE  IsFields(SetRecord(set))
<1> DEFINE a == Put(SetFields, set)
           b == PutList(MemberFields, set.members)
           c == PutSlots(set.owners)
           d == Put(StandingFields, set)
           e == PutList(HistoryFields, set.history)
<1>1. IsFields(a) /\ IsFields(d)
  <2>1. IsWritten(SetFields, 16) /\ IsWritten(StandingFields, 7)
    BY LayoutsWritten
  <2>2. HasFields(set, SetFields) /\ HasFields(set, StandingFields)
    BY DEF HasSet
  <2> QED
    BY <2>1, <2>2, FieldsPut
<1>2. IsFields(b) /\ IsFields(e)
  <2>1. IsWritten(MemberFields, 11) /\ IsWritten(HistoryFields, 10)
    BY LayoutsWritten
  <2>2. HasList(set.members, MemberFields) /\ HasList(set.history, HistoryFields)
    BY DEF HasSet
  <2> QED
    BY <2>1, <2>2, FieldsPutList
<1>3. IsFields(c)
  BY FieldsPutSlots DEF HasSet
<1>4. SetRecord(set) = (((a \o b) \o c) \o d) \o e
  BY Zenon DEF SetRecord
<1> HIDE DEF a, b, c, d, e
<1>5. IsFields(a \o b)
  BY <1>1, <1>2, FieldsJoin
<1>6. IsFields((a \o b) \o c)
  BY <1>3, <1>5, FieldsJoin
<1>7. IsFields(((a \o b) \o c) \o d)
  BY <1>1, <1>6, FieldsJoin
<1>8. IsFields((((a \o b) \o c) \o d) \o e)
  BY <1>2, <1>7, FieldsJoin
<1> QED
  BY <1>4, <1>8, Zenon

\* A state is saved as a file.
LEMMA EncodedIsFile ==
  ASSUME NEW s, HasState(s)
  PROVE  IsFile(Encoded(s))
<1> DEFINE k == Put(Counters, s)
           r == Records(s)
           d2 == Collection(r.sets)
           d3 == Collection(r.paths)
           d4 == Collection(r.multipath)
           d5 == Collection(r.publishers)
           d6 == Collection(r.attempts)
<1>1. IsBody(k)
  <2>1. IsWritten(Counters, 5) /\ HasFields(s, Counters)
    BY LayoutsWritten DEF HasState
  <2> QED
    BY <2>1, FieldsPut
<1>2. IsBody(d2)
  <2> DEFINE n == Len(s.sets)
  <2>1. n \in Nat /\ DOMAIN s.sets = 1..n
    BY DEF HasState
  <2>2. DOMAIN r.sets = 1..n /\ \A i \in 1..n : r.sets[i] = SetRecord(s.sets[i])
    BY <2>1 DEF Records
  <2> HIDE DEF n, r
  <2>3. \A i \in 1..n : IsFields(r.sets[i])
    BY <2>1, <2>2, FieldsSetRecord DEF HasState
  <2> QED
    BY <2>1, <2>2, <2>3, BodyCollection
<1>3. IsBody(d3)
  <2> DEFINE n == Len(s.paths)
  <2>1. n \in Nat /\ DOMAIN s.paths = 1..n
    BY DEF HasState, HasList
  <2>2. DOMAIN r.paths = 1..n /\ \A i \in 1..n : r.paths[i] = Put(PathFields, s.paths[i])
    BY <2>1 DEF Records
  <2>3. \A i \in 1..n : HasFields(s.paths[i], PathFields)
    BY <2>1 DEF HasState, HasList
  <2> HIDE DEF n, r
  <2>4. \A i \in 1..n : IsFields(r.paths[i])
    BY <2>2, <2>3, LayoutsWritten, FieldsPut
  <2> QED
    BY <2>1, <2>2, <2>4, BodyCollection
<1>4. IsBody(d4)
  <2> DEFINE n == Len(s.multipath)
  <2>1. n \in Nat /\ DOMAIN s.multipath = 1..n
    BY DEF HasState, HasList
  <2>2. DOMAIN r.multipath = 1..n /\ \A i \in 1..n : r.multipath[i] = MultipathRecord(s.multipath[i])
    BY <2>1 DEF Records
  <2>3. \A i \in 1..n : /\ HasFields(s.multipath[i], MultipathFields)
                        /\ HasList(s.multipath[i].members, ListedFields)
    BY <2>1 DEF HasState, HasList
  <2> HIDE DEF n, r
  <2>4. ASSUME NEW i \in 1..n PROVE IsFields(r.multipath[i])
    <3> DEFINE view == s.multipath[i]
               a == Put(MultipathFields, view)
               b == PutList(ListedFields, view.members)
    <3>1. IsFields(a)
      BY <2>3, LayoutsWritten, FieldsPut
    <3>2. IsFields(b)
      BY <2>3, LayoutsWritten, FieldsPutList
    <3>3. r.multipath[i] = a \o b
      BY <2>2 DEF MultipathRecord
    <3> HIDE DEF a, b
    <3> QED
      BY <3>1, <3>2, <3>3, FieldsJoin
  <2> QED
    BY <2>1, <2>2, <2>4, BodyCollection
<1>5. IsBody(d5)
  <2> DEFINE n == Len(s.publishers)
  <2>1. n \in Nat /\ DOMAIN s.publishers = 1..n
    BY DEF HasState, HasList
  <2>2. DOMAIN r.publishers = 1..n /\ \A i \in 1..n : r.publishers[i] = Put(PublisherFields, s.publishers[i])
    BY <2>1 DEF Records
  <2>3. \A i \in 1..n : HasFields(s.publishers[i], PublisherFields)
    BY <2>1 DEF HasState, HasList
  <2> HIDE DEF n, r
  <2>4. \A i \in 1..n : IsFields(r.publishers[i])
    BY <2>2, <2>3, LayoutsWritten, FieldsPut
  <2> QED
    BY <2>1, <2>2, <2>4, BodyCollection
<1>6. IsBody(d6)
  <2> DEFINE n == Len(s.attempts)
  <2>1. n \in Nat /\ DOMAIN s.attempts = 1..n
    BY DEF HasState, HasList
  <2>2. DOMAIN r.attempts = 1..n /\ \A i \in 1..n : r.attempts[i] = Put(AttemptFields, s.attempts[i])
    BY <2>1 DEF Records
  <2>3. \A i \in 1..n : HasFields(s.attempts[i], AttemptFields)
    BY <2>1 DEF HasState, HasList
  <2> HIDE DEF n, r
  <2>4. \A i \in 1..n : IsFields(r.attempts[i])
    BY <2>2, <2>3, LayoutsWritten, FieldsPut
  <2> QED
    BY <2>1, <2>2, <2>4, BodyCollection
<1>7. Encoded(s) = Sealed("WPFS", Version, 0, ((((k \o d2) \o d3) \o d4) \o d5) \o d6)
  BY Zenon DEF Encoded
<1> HIDE DEF k, d2, d3, d4, d5, d6
<1>8. IsBody(((((k \o d2) \o d3) \o d4) \o d5) \o d6)
  <2>1. IsBody(k \o d2)
    BY <1>1, <1>2, BodyJoin
  <2>2. IsBody((k \o d2) \o d3)
    BY <1>3, <2>1, BodyJoin
  <2>3. IsBody(((k \o d2) \o d3) \o d4)
    BY <1>4, <2>2, BodyJoin
  <2>4. IsBody((((k \o d2) \o d3) \o d4) \o d5)
    BY <1>5, <2>3, BodyJoin
  <2> QED
    BY <1>6, <2>4, BodyJoin
<1>9. ASSUME NEW body, IsBody(body) PROVE IsFile(Sealed("WPFS", Version, 0, body))
  BY <1>9 DEF IsFile, IsBody, Sealed
<1> QED
  BY <1>7, <1>8, <1>9

----------------------------------------------------------------------------
(* Sizes.                                                                   *)

\* The turns of Total: each size is added to those before it.
LEMMA TotalTurns ==
  ASSUME NEW f, NEW n \in Nat, DOMAIN f = 1..n
  PROVE  \E h : h[0] = 0 /\ h[n] = Total(f) /\ \A i \in 1..n : h[i] = h[i - 1] + f[i]
<1> DEFINE Step(g, s) == IF s = {} THEN 0 ELSE g[s \ {Max(s)}] + f[Max(s)]
           Fix(g, k) == g = [s \in SUBSET (1..k) |-> Step(g, s)]
           P == {k \in Nat : \E g : Fix(g, k)}
<1>1. 0 \in P
  <2>1. Fix([s \in SUBSET (1..0) |-> 0], 0)
    OBVIOUS
  <2> QED
    BY <2>1
<1>2. ASSUME NEW k \in Nat, k \in P PROVE k + 1 \in P
  <2>1. PICK g : Fix(g, k)
    BY <1>2
  <2> DEFINE q == [s \in SUBSET (1..(k + 1)) |-> IF s \in SUBSET (1..k) THEN g[s] ELSE Step(g, s)]
  <2>2. ASSUME NEW s \in SUBSET (1..(k + 1)) PROVE q[s] = Step(q, s)
    <3>1. CASE s = {}
      BY <2>1, <3>1
    <3>2. CASE s # {} /\ s \in SUBSET (1..k)
      <4>1. Max(s) \in s
        BY <3>2, MaxIsIn
      <4>2. s \ {Max(s)} \in SUBSET (1..k) /\ s \ {Max(s)} \in SUBSET (1..(k + 1))
        BY <3>2
      <4>3. q[s] = g[s] /\ q[s \ {Max(s)}] = g[s \ {Max(s)}]
        BY <3>2, <4>2
      <4>4. g[s] = Step(g, s)
        BY <2>1, <3>2
      <4> HIDE DEF q
      <4> QED
        BY <3>2, <4>3, <4>4
    <3>3. CASE s \notin SUBSET (1..k)
      <4>1. k + 1 \in s
        BY <3>3
      <4>2. Max(s) = k + 1
        BY <4>1, MaxIsLast
      <4>3. s \ {Max(s)} \in SUBSET (1..k) /\ s \ {Max(s)} \in SUBSET (1..(k + 1))
        BY <4>2
      <4>4. q[s] = Step(g, s) /\ q[s \ {Max(s)}] = g[s \ {Max(s)}]
        BY <3>3, <4>3
      <4> HIDE DEF q
      <4> QED
        BY <4>1, <4>4
    <3> QED
      BY <3>1, <3>2, <3>3
  <2>3. q = [s \in SUBSET (1..(k + 1)) |-> Step(q, s)]
    <3>1. DOMAIN q = SUBSET (1..(k + 1)) /\ q = [s \in SUBSET (1..(k + 1)) |-> q[s]]
      OBVIOUS
    <3> HIDE DEF q, Step
    <3> QED
      BY <2>2, <3>1
  <2> HIDE DEF q, Step
  <2>4. \E p : Fix(p, k + 1)
    BY <2>3
  <2> QED
    BY <2>4
<1>3. \E g : Fix(g, n)
  <2> HIDE DEF P, Fix
  <2>1. Nat \subseteq P
    BY <1>1, <1>2, EveryNatural
  <2> QED
    BY <2>1 DEF P
<1> DEFINE iter == CHOOSE g : Fix(g, n)
<1>4. Fix(iter, n)
  <2> HIDE DEF Fix
  <2> QED
    BY <1>3
<1>5. iter = CHOOSE g : g = [s \in SUBSET (1..n) |-> Step(g, s)]
  OBVIOUS
<1>6. Total(f) = iter[1..n]
  BY <1>5, Zenon DEF Total, FoldLeft, MapThenFoldSet
<1> HIDE DEF iter
<1> DEFINE h == [i \in 0..n |-> iter[1..i]]
<1>7. h[0] = 0
  <2>1. 1..0 = {} /\ {} \in SUBSET (1..n)
    OBVIOUS
  <2>2. iter[{}] = Step(iter, {})
    BY <1>4, <2>1
  <2>3. h[0] = iter[{}]
    BY <2>1
  <2> HIDE DEF h
  <2> QED
    BY <2>2, <2>3
<1>8. ASSUME NEW i \in 1..n PROVE h[i] = h[i - 1] + f[i]
  <2>1. 1..i \in SUBSET (1..n) /\ i \in 1..i /\ 1..i \in SUBSET (1..i) /\ (1..i) \ {i} = 1..(i - 1)
    OBVIOUS
  <2>2. Max(1..i) = i
    BY <2>1, MaxIsLast
  <2>3. iter[1..i] = Step(iter, 1..i)
    BY <1>4, <2>1
  <2>4. 1..i # {}
    BY <2>1
  <2>5. iter[1..i] = iter[1..(i - 1)] + f[i]
    BY <2>1, <2>2, <2>3, <2>4, Zenon
  <2>6. h[i] = iter[1..i] /\ h[i - 1] = iter[1..(i - 1)]
    OBVIOUS
  <2> HIDE DEF h
  <2> QED
    BY <2>5, <2>6
<1>9. h[n] = Total(f)
  BY <1>6
<1> HIDE DEF h
<1> QED
  BY <1>7, <1>8, <1>9

\* A total of natural numbers is at least as many times the least of them.
LEMMA TotalAtLeast ==
  ASSUME NEW f, NEW n \in Nat, f \in [1..n -> Nat], NEW unit \in Nat, \A i \in 1..n : unit <= f[i]
  PROVE  Total(f) \in Nat /\ n * unit <= Total(f)
<1>1. PICK h : h[0] = 0 /\ h[n] = Total(f) /\ \A i \in 1..n : h[i] = h[i - 1] + f[i]
  BY TotalTurns
<1> DEFINE P == {k \in Nat : k <= n => h[k] \in Nat /\ k * unit <= h[k]}
<1>2. 0 \in P
  BY <1>1
<1>3. ASSUME NEW k \in Nat, k \in P PROVE k + 1 \in P
  <2> SUFFICES ASSUME k + 1 <= n PROVE h[k + 1] \in Nat /\ (k + 1) * unit <= h[k + 1]
    OBVIOUS
  <2>1. k + 1 \in 1..n /\ (k + 1) - 1 = k
    OBVIOUS
  <2>2. h[k + 1] = h[k] + f[k + 1] /\ f[k + 1] \in Nat /\ unit <= f[k + 1]
    BY <1>1, <2>1
  <2>3. h[k] \in Nat /\ k * unit <= h[k]
    BY <1>3
  <2>4. (k + 1) * unit = k * unit + unit /\ k * unit \in Nat
    OBVIOUS
  <2> DEFINE x == k * unit
             y == (k + 1) * unit
  <2> HIDE DEF x, y
  <2>5. y <= h[k + 1] /\ h[k + 1] \in Nat
    BY <2>2, <2>3, <2>4 DEF x, y
  <2> QED
    BY <2>5 DEF y
<1>4. Nat \subseteq P
  <2> HIDE DEF P
  <2> QED
    BY <1>2, <1>3, EveryNatural
<1> QED
  BY <1>1, <1>4

\* Each of some natural numbers is within their total.
LEMMA TotalHas ==
  ASSUME NEW f, NEW n \in Nat, f \in [1..n -> Nat], NEW j \in 1..n
  PROVE  f[j] <= Total(f)
<1>1. PICK h : h[0] = 0 /\ h[n] = Total(f) /\ \A i \in 1..n : h[i] = h[i - 1] + f[i]
  BY TotalTurns
<1> DEFINE P == {k \in Nat : k <= n => h[k] \in Nat /\ (j <= k => f[j] <= h[k])}
<1>2. 0 \in P
  BY <1>1
<1>3. ASSUME NEW k \in Nat, k \in P PROVE k + 1 \in P
  <2> SUFFICES ASSUME k + 1 <= n PROVE h[k + 1] \in Nat /\ (j <= k + 1 => f[j] <= h[k + 1])
    OBVIOUS
  <2>1. k + 1 \in 1..n /\ (k + 1) - 1 = k
    OBVIOUS
  <2>2. h[k + 1] = h[k] + f[k + 1] /\ f[k + 1] \in Nat /\ f[j] \in Nat
    BY <1>1, <2>1
  <2>3. h[k] \in Nat /\ (j <= k => f[j] <= h[k])
    BY <1>3
  <2>4. j <= k \/ j = k + 1 \/ j > k + 1
    OBVIOUS
  <2> QED
    BY <2>2, <2>3, <2>4
<1>4. Nat \subseteq P
  <2> HIDE DEF P
  <2> QED
    BY <1>2, <1>3, EveryNatural
<1> QED
  BY <1>1, <1>4

\* The total of two sequences of natural numbers, one behind the other.
LEMMA TotalJoin ==
  ASSUME NEW f \in Seq(Nat), NEW g \in Seq(Nat)
  PROVE  Total(f) \in Nat /\ Total(g) \in Nat /\ Total(f \o g) = Total(f) + Total(g)
<1> DEFINE m == Len(f)
           n == Len(g)
           fg == f \o g
<1>1. /\ m \in Nat /\ n \in Nat /\ f \in [1..m -> Nat] /\ g \in [1..n -> Nat]
      /\ fg \in [1..(m + n) -> Nat]
      /\ \A i \in 1..m : fg[i] = f[i]
      /\ \A i \in 1..n : fg[m + i] = g[i]
  <2>1. m \in Nat /\ n \in Nat /\ f \in [1..m -> Nat] /\ g \in [1..n -> Nat]
    OBVIOUS
  <2>2. fg \in Seq(Nat) /\ Len(fg) = m + n
    OBVIOUS
  <2>3. fg \in [1..(m + n) -> Nat]
    <3> HIDE DEF fg, m, n
    <3> QED
      BY <2>2
  <2>4. \A i \in 1..m : fg[i] = f[i]
    OBVIOUS
  <2>5. \A i \in 1..n : fg[m + i] = g[i]
    OBVIOUS
  <2> HIDE DEF fg, m, n
  <2> QED
    BY <2>1, <2>3, <2>4, <2>5
<1> HIDE DEF m, n, fg
<1>2. DOMAIN f = 1..m /\ DOMAIN g = 1..n /\ DOMAIN fg = 1..(m + n) /\ m + n \in Nat
  BY <1>1
<1>3. PICK hf : hf[0] = 0 /\ hf[m] = Total(f) /\ \A i \in 1..m : hf[i] = hf[i - 1] + f[i]
  BY <1>1, <1>2, TotalTurns
<1>4. PICK hg : hg[0] = 0 /\ hg[n] = Total(g) /\ \A i \in 1..n : hg[i] = hg[i - 1] + g[i]
  BY <1>1, <1>2, TotalTurns
<1>5. PICK h : h[0] = 0 /\ h[m + n] = Total(fg) /\ \A i \in 1..(m + n) : h[i] = h[i - 1] + fg[i]
  BY <1>2, TotalTurns
<1> DEFINE P == {k \in Nat : k <= m => h[k] = hf[k]}
           Q == {k \in Nat : k <= n => h[m + k] = hf[m] + hg[k]}
<1>6. Total(f) \in Nat /\ Total(g) \in Nat
  <2>1. \A i \in 1..m : 0 <= f[i]
    BY <1>1
  <2>2. \A i \in 1..n : 0 <= g[i]
    BY <1>1
  <2> QED
    BY <1>1, <2>1, <2>2, TotalAtLeast
<1>7. h[m] = hf[m]
  <2>1. 0 \in P
    BY <1>3, <1>5
  <2>2. ASSUME NEW k \in Nat, k \in P PROVE k + 1 \in P
    <3> SUFFICES ASSUME k + 1 <= m PROVE h[k + 1] = hf[k + 1]
      OBVIOUS
    <3>1. k + 1 \in 1..m /\ k + 1 \in 1..(m + n) /\ (k + 1) - 1 = k
      BY <1>1
    <3>2. h[k] = hf[k]
      BY <1>1, <2>2
    <3>3. h[k + 1] = h[k] + fg[k + 1] /\ hf[k + 1] = hf[k] + f[k + 1] /\ fg[k + 1] = f[k + 1]
      BY <1>1, <1>3, <1>5, <3>1
    <3> QED
      BY <3>2, <3>3
  <2>3. Nat \subseteq P
    <3> HIDE DEF P
    <3> QED
      BY <2>1, <2>2, EveryNatural
  <2> QED
    BY <1>1, <2>3
<1>8. h[m + n] = hf[m] + hg[n]
  <2>1. 0 \in Q
    BY <1>1, <1>3, <1>4, <1>6, <1>7
  <2>2. ASSUME NEW k \in Nat, k \in Q PROVE k + 1 \in Q
    <3> SUFFICES ASSUME k + 1 <= n PROVE h[m + (k + 1)] = hf[m] + hg[k + 1]
      OBVIOUS
    <3>1. /\ k + 1 \in 1..n /\ (k + 1) - 1 = k /\ m + (k + 1) \in 1..(m + n)
          /\ (m + (k + 1)) - 1 = m + k
      BY <1>1
    <3>2. h[m + k] = hf[m] + hg[k]
      BY <1>1, <2>2
    <3>3. /\ h[m + (k + 1)] = h[m + k] + fg[m + (k + 1)]
          /\ hg[k + 1] = hg[k] + g[k + 1] /\ fg[m + (k + 1)] = g[k + 1]
      BY <1>1, <1>4, <1>5, <3>1
    <3>4. hg[k] \in Int
      <4>1. [i \in 1..k |-> g[i]] \in [1..k -> Nat]
        BY <1>1
      <4> DEFINE R == {i \in Nat : i <= n => hg[i] \in Nat}
      <4>2. 0 \in R
        BY <1>4
      <4>3. ASSUME NEW i \in Nat, i \in R PROVE i + 1 \in R
        <5> SUFFICES ASSUME i + 1 <= n PROVE hg[i + 1] \in Nat
          OBVIOUS
        <5>1. i + 1 \in 1..n /\ (i + 1) - 1 = i /\ hg[i] \in Nat
          BY <1>1, <4>3
        <5>2. hg[i + 1] = hg[i] + g[i + 1] /\ g[i + 1] \in Nat
          BY <1>1, <1>4, <5>1
        <5> QED
          BY <5>1, <5>2
      <4>4. Nat \subseteq R
        <5> HIDE DEF R
        <5> QED
          BY <4>2, <4>3, EveryNatural
      <4> QED
        BY <1>1, <4>4
    <3>5. hf[m] \in Nat /\ g[k + 1] \in Nat
      BY <1>1, <1>3, <1>6, <3>1
    <3> QED
      BY <3>2, <3>3, <3>4, <3>5
  <2>3. Nat \subseteq Q
    <3> HIDE DEF Q
    <3> QED
      BY <2>1, <2>2, EveryNatural
  <2> QED
    BY <1>1, <2>3
<1> QED
  BY <1>3, <1>4, <1>5, <1>6, <1>8 DEF fg

\* A sequence of tokens that have sizes.
IsSized(s) == \E T : s \in Seq(T) /\ \A t \in T : TokenSize(t) \in Nat

\* A field has a size, and the same within and without a record.
LEMMA FieldHasSize ==
  ASSUME NEW t, IsPlain(t)
  PROVE  FieldSize(t) \in Nat /\ TokenSize(t) = FieldSize(t)
<1>1. t.kind \in Kinds /\ t.kind # "record"
  BY DEF IsPlain, Kinds
<1>2. FieldSize(t) \in Nat
  <2>1. CASE t.kind = "string"
    <3>1. t.value \in Nat
      BY <2>1 DEF IsPlain, IsField
    <3> QED
      BY <2>1, <3>1 DEF FieldSize
  <2>2. CASE t.kind # "string"
    <3>1. Width[t.kind] \in Nat
      BY <1>1, <2>2 DEF Kinds, Width
    <3> QED
      BY <2>2, <3>1 DEF FieldSize
  <2> QED
    BY <2>1, <2>2
<1> QED
  BY <1>1, <1>2 DEF TokenSize

\* What is behind other tokens adds its size to theirs.
LEMMA SizeJoin ==
  ASSUME NEW a, NEW b, IsSized(a), IsSized(b)
  PROVE  /\ IsSized(a \o b) /\ Size(a \o b) = Size(a) + Size(b)
         /\ Size(a) \in Nat /\ Size(b) \in Nat
<1>1. PICK S : a \in Seq(S) /\ \A t \in S : TokenSize(t) \in Nat
  BY DEF IsSized
<1>2. PICK T : b \in Seq(T) /\ \A t \in T : TokenSize(t) \in Nat
  BY DEF IsSized
<1> DEFINE U == S \cup T
           sizes(s) == [i \in DOMAIN s |-> TokenSize(s[i])]
<1>3. S \subseteq U /\ T \subseteq U /\ \A t \in U : TokenSize(t) \in Nat
  BY <1>1, <1>2
<1> HIDE DEF U
<1>4. a \in Seq(U) /\ b \in Seq(U)
  BY <1>1, <1>2, <1>3, SeqMonotonic
<1>5. a \o b \in Seq(U)
  BY <1>4
<1>6. ASSUME NEW s \in Seq(U) PROVE sizes(s) \in Seq(Nat) /\ Len(sizes(s)) = Len(s)
  <2>1. Len(s) \in Nat /\ DOMAIN s = 1..Len(s) /\ \A i \in 1..Len(s) : s[i] \in U
    OBVIOUS
  <2>2. sizes(s) = [i \in 1..Len(s) |-> TokenSize(s[i])]
    BY <2>1
  <2>3. \A i \in 1..Len(s) : TokenSize(s[i]) \in Nat
    BY <1>3, <2>1
  <2> HIDE DEF sizes
  <2>4. sizes(s) \in [1..Len(s) -> Nat]
    BY <2>2, <2>3
  <2>5. sizes(s) \in Seq(Nat)
    BY <2>1, <2>4, SeqDef
  <2>6. DOMAIN sizes(s) = 1..Len(s)
    BY <2>2
  <2> QED
    BY <2>1, <2>5, <2>6
<1>7. sizes(a \o b) = sizes(a) \o sizes(b)
  <2> DEFINE m == Len(a)
             n == Len(b)
             ab == a \o b
             x == sizes(ab)
             y == sizes(a) \o sizes(b)
  <2>1. m \in Nat /\ n \in Nat /\ Len(ab) = m + n /\ ab \in Seq(U)
    BY <1>4
  <2>2. \A i \in 1..m : ab[i] = a[i]
    BY <1>4
  <2>3. \A i \in 1..n : ab[m + i] = b[i]
    BY <1>4
  <2>4. DOMAIN a = 1..m /\ DOMAIN b = 1..n /\ DOMAIN ab = 1..(m + n)
    <3>1. DOMAIN a = 1..m /\ DOMAIN b = 1..n
      BY <1>4
    <3> HIDE DEF ab, m, n
    <3> QED
      BY <2>1, <3>1
  <2>5. sizes(a) \in Seq(Nat) /\ sizes(b) \in Seq(Nat) /\ Len(sizes(a)) = m /\ Len(sizes(b)) = n
    BY <1>4, <1>6
  <2>6. x \in Seq(Nat) /\ Len(x) = m + n
    <3> HIDE DEF ab, m, n, sizes
    <3> QED
      BY <1>6, <2>1
  <2> HIDE DEF ab, m, n
  <2>7. /\ \A i \in 1..m : sizes(a)[i] = TokenSize(a[i])
        /\ \A i \in 1..n : sizes(b)[i] = TokenSize(b[i])
        /\ \A i \in 1..(m + n) : x[i] = TokenSize(ab[i])
    BY <2>4
  <2> DEFINE p == sizes(a)
             q == sizes(b)
  <2>8. /\ Len(y) = m + n /\ y \in Seq(Nat)
        /\ \A i \in 1..m : y[i] = p[i]
        /\ \A i \in 1..n : y[m + i] = q[i]
    <3> HIDE DEF p, q
    <3>1. p \in Seq(Nat) /\ q \in Seq(Nat) /\ Len(p) = m /\ Len(q) = n /\ y = p \o q
      BY <2>5 DEF p, q
    <3> HIDE DEF y
    <3>2. Len(y) = m + n /\ y \in Seq(Nat)
      <4>1. p \o q \in Seq(Nat) /\ Len(p \o q) = Len(p) + Len(q)
        BY <3>1, ConcatProperties
      <4> QED
        BY <3>1, <4>1, Zenon
    <3>3. \A i \in 1..m : y[i] = p[i]
      BY <2>1, <3>1
    <3>4. \A i \in 1..n : y[m + i] = q[i]
      BY <2>1, <3>1
    <3> QED
      BY <3>2, <3>3, <3>4
  <2>9. ASSUME NEW i \in 1..(m + n) PROVE x[i] = y[i]
    <3>1. CASE i \in 1..m
      <4> HIDE DEF x, y, sizes
      <4> QED
        BY <2>2, <2>7, <2>8, <3>1
    <3>2. CASE i \notin 1..m
      <4> DEFINE j == i - m
      <4>1. j \in 1..n /\ i = m + j
        BY <2>1, <3>2
      <4> HIDE DEF j, x, y, sizes
      <4> QED
        BY <2>3, <2>7, <2>8, <4>1
    <3> QED
      BY <3>1, <3>2
  <2> HIDE DEF x, y, sizes
  <2>10. x = y
    BY <2>1, <2>6, <2>8, <2>9, SeqEqual
  <2> QED
    BY <2>10 DEF x, y, ab
<1>8. Size(a) = Total(sizes(a)) /\ Size(b) = Total(sizes(b)) /\ Size(a \o b) = Total(sizes(a \o b))
  BY DEF Size
<1>9. sizes(a) \in Seq(Nat) /\ sizes(b) \in Seq(Nat)
  BY <1>4, <1>6
<1> HIDE DEF sizes
<1>10. Size(a \o b) = Size(a) + Size(b) /\ Size(a) \in Nat /\ Size(b) \in Nat
  BY <1>7, <1>8, <1>9, TotalJoin
<1>11. IsSized(a \o b)
  BY <1>3, <1>5 DEF IsSized
<1> QED
  BY <1>10, <1>11

\* A token alone.
LEMMA SizeOfOne ==
  ASSUME NEW t, TokenSize(t) \in Nat
  PROVE  IsSized(<<t>>) /\ Size(<<t>>) = TokenSize(t)
<1> DEFINE f == [i \in DOMAIN <<t>> |-> TokenSize(<<t>>[i])]
           T == {t}
<1>1. DOMAIN f = 1..1 /\ f[1] = TokenSize(t) /\ 1 \in Nat
  OBVIOUS
<1>2. <<t>> \in Seq(T) /\ \A u \in T : u = t
  OBVIOUS
<1>3. Size(<<t>>) = Total(f)
  BY DEF Size
<1> HIDE DEF f, T
<1>4. PICK h : h[0] = 0 /\ h[1] = Total(f) /\ \A i \in 1..1 : h[i] = h[i - 1] + f[i]
  BY <1>1, TotalTurns
<1>5. h[1] = h[0] + f[1]
  <2>1. 1 \in 1..1 /\ 1 - 1 = 0
    OBVIOUS
  <2> QED
    BY <1>4, <2>1
<1>6. IsSized(<<t>>)
  BY <1>2 DEF IsSized
<1> QED
  BY <1>1, <1>3, <1>4, <1>5, <1>6

\* The fields of a record have sizes, and a record has its length and their size.
LEMMA RecordHasSize ==
  ASSUME NEW s, IsFields(s)
  PROVE  /\ IsSized(s) /\ FieldsSize(s) = Size(s) /\ Size(s) \in Nat
         /\ TokenSize([kind |-> "record", value |-> s]) = 4 + Size(s)
<1>1. PICK T : s \in Seq(T) /\ \A t \in T : IsPlain(t)
  BY DEF IsFields
<1>2. \A t \in T : TokenSize(t) = FieldSize(t) /\ TokenSize(t) \in Nat
  BY <1>1, FieldHasSize
<1>3. IsSized(s)
  BY <1>1, <1>2 DEF IsSized
<1>4. [i \in DOMAIN s |-> TokenSize(s[i])] = [i \in DOMAIN s |-> FieldSize(s[i])]
  <2>1. \A i \in DOMAIN s : s[i] \in T
    BY <1>1
  <2> QED
    BY <1>2, <2>1
<1>5. FieldsSize(s) = Size(s)
  BY <1>4, Zenon DEF FieldsSize, Size
<1>6. Size(s) \in Nat
  BY <1>3, SizeJoin
<1>7. TokenSize([kind |-> "record", value |-> s]) = 4 + FieldsSize(s)
  BY DEF TokenSize
<1> QED
  BY <1>3, <1>5, <1>6, <1>7

\* A part behind others, and what follows.
FlattenJoins(ss, s, rest) == FlattenSeq(Append(ss, s)) \o rest = FlattenSeq(ss) \o (s \o rest)

\* It is joined to either.
LEMMA FlattenThen ==
  ASSUME NEW T, NEW ss \in Seq(Seq(T)), NEW s \in Seq(T), NEW rest \in Seq(T)
  PROVE  FlattenJoins(ss, s, rest)
<1>1. FlattenSeq(ss) \in Seq(T) /\ FlattenSeq(Append(ss, s)) = FlattenSeq(ss) \o s
  BY FlattenAppend
<1>2. JoinsAny(T)
  BY Joined, Zenon
<1>3. (FlattenSeq(ss) \o s) \o rest = FlattenSeq(ss) \o (s \o rest)
  BY <1>1, <1>2 DEF JoinsAny
<1> QED
  BY <1>1, <1>3, Zenon DEF FlattenJoins

\* What remains of flattened sequences, from one to the next, with what follows them.
IsTails(T, ss, rest, X) ==
  /\ X[0] = FlattenSeq(ss) \o rest /\ X[Len(ss)] = rest
  /\ \A i \in 0..Len(ss) : X[i] \in Seq(T)
  /\ \A i \in 1..Len(ss) : X[i - 1] = ss[i] \o X[i]

\* Flattened sequences are read one after the other.
LEMMA FlattenTails ==
  ASSUME NEW T, NEW ss \in Seq(Seq(T)), NEW rest \in Seq(T)
  PROVE  \E X : IsTails(T, ss, rest, X)
<1> DEFINE P == {k \in Nat : \A tt \in Seq(Seq(T)), r \in Seq(T) :
                               Len(tt) = k => \E X : IsTails(T, tt, r, X)}
<1>1. 0 \in P
  <2> SUFFICES ASSUME NEW tt \in Seq(Seq(T)), NEW r \in Seq(T), Len(tt) = 0
               PROVE  \E X : IsTails(T, tt, r, X)
    OBVIOUS
  <2>1. tt = <<>> /\ FlattenSeq(tt) = <<>>
    BY DEF FlattenSeq
  <2>2. <<>> \o r = r
    OBVIOUS
  <2>3. IsTails(T, tt, r, [i \in 0..0 |-> r])
    BY <2>1, <2>2 DEF IsTails
  <2> QED
    BY <2>3
<1>2. ASSUME NEW k \in Nat, k \in P PROVE k + 1 \in P
  <2> SUFFICES ASSUME NEW tt \in Seq(Seq(T)), NEW r \in Seq(T), Len(tt) = k + 1
               PROVE  \E X : IsTails(T, tt, r, X)
    OBVIOUS
  <2> DEFINE front == SubSeq(tt, 1, k)
             last == tt[k + 1]
  <2>1. front \in Seq(Seq(T)) /\ Len(front) = k /\ \A i \in 1..k : front[i] = tt[i]
    OBVIOUS
  <2>2. last \in Seq(T) /\ last \o r \in Seq(T)
    OBVIOUS
  <2>3. tt = Append(front, last)
    OBVIOUS
  <2> HIDE DEF front, last
  <2>4. PICK Y : IsTails(T, front, last \o r, Y)
    BY <1>2, <2>1, <2>2
  <2> DEFINE X == [i \in 0..(k + 1) |-> IF i <= k THEN Y[i] ELSE r]
  <2>5. FlattenSeq(tt) \o r = FlattenSeq(front) \o (last \o r)
    <3> HIDE DEF P
    <3>1. FlattenSeq(Append(front, last)) \o r = FlattenSeq(front) \o (last \o r)
      <4>1. FlattenJoins(front, last, r)
        BY <2>1, <2>2, FlattenThen
      <4> QED
        BY <4>1, Zenon DEF FlattenJoins
    <3> QED
      BY <2>3, <3>1, Zenon
  <2>6. X[0] = Y[0] /\ X[k + 1] = r /\ \A i \in 0..k : X[i] = Y[i]
    OBVIOUS
  <2> HIDE DEF X
  <2>7. Y[0] = FlattenSeq(front) \o (last \o r) /\ Y[k] = last \o r
        /\ (\A i \in 0..k : Y[i] \in Seq(T)) /\ \A i \in 1..k : Y[i - 1] = front[i] \o Y[i]
    BY <2>1, <2>4 DEF IsTails
  <2>8. X[0] = FlattenSeq(tt) \o r
    BY <2>5, <2>6, <2>7
  <2>9. \A i \in 0..(k + 1) : X[i] \in Seq(T)
    <3>1. \A i \in 0..(k + 1) : i \in 0..k \/ i = k + 1
      OBVIOUS
    <3> QED
      BY <2>6, <2>7, <3>1
  <2>10. ASSUME NEW i \in 1..(k + 1) PROVE X[i - 1] = tt[i] \o X[i]
    <3>1. CASE i \in 1..k
      <4>1. i \in 0..k /\ i - 1 \in 0..k
        BY <3>1
      <4> QED
        BY <2>1, <2>6, <2>7, <3>1, <4>1
    <3>2. CASE i = k + 1
      <4>1. i - 1 = k /\ k \in 0..k
        BY <3>2
      <4> QED
        BY <2>6, <2>7, <3>2, <4>1 DEF last
    <3> QED
      BY <3>1, <3>2
  <2>11. IsTails(T, tt, r, X)
    BY <2>6, <2>8, <2>9, <2>10 DEF IsTails
  <2> QED
    BY <2>11
<1>3. \E X : IsTails(T, ss, rest, X)
  <2>1. Nat \subseteq P
    <3> HIDE DEF P
    <3> QED
      BY <1>1, <1>2, EveryNatural
  <2>2. Len(ss) \in P
    <3> HIDE DEF P
    <3> QED
      BY <2>1
  <2> QED
    BY <2>2
<1> QED
  BY <1>3

\* The parts of a flattened sequence have at least their number times their least size.
LEMMA FlattenSize ==
  ASSUME NEW T, \A t \in T : TokenSize(t) \in Nat, NEW ss \in Seq(Seq(T)), NEW rest \in Seq(T),
         NEW unit \in Nat, \A i \in 1..Len(ss) : unit <= Size(ss[i])
  PROVE  Len(ss) * unit <= Size(FlattenSeq(ss) \o rest)
<1> DEFINE n == Len(ss)
<1>0. PICK X : IsTails(T, ss, rest, X)
  BY FlattenTails
<1>1. /\ X[0] = FlattenSeq(ss) \o rest /\ X[n] = rest
      /\ \A i \in 0..n : X[i] \in Seq(T)
      /\ \A i \in 1..n : X[i - 1] = ss[i] \o X[i]
  BY <1>0 DEF IsTails
<1>2. n \in Nat /\ \A i \in 1..n : ss[i] \in Seq(T)
  OBVIOUS
<1> HIDE DEF n
<1>3. \A s \in Seq(T) : IsSized(s) /\ Size(s) \in Nat
  <2>1. \A s \in Seq(T) : IsSized(s)
    BY DEF IsSized
  <2> QED
    BY <2>1, SizeJoin
<1> DEFINE P == {k \in Nat : k <= n => k * unit <= Size(X[n - k])}
<1>4. 0 \in P
  BY <1>1, <1>2, <1>3
<1>5. ASSUME NEW k \in Nat, k \in P PROVE k + 1 \in P
  <2> SUFFICES ASSUME k + 1 <= n PROVE (k + 1) * unit <= Size(X[n - (k + 1)])
    OBVIOUS
  <2> DEFINE i == n - k
  <2>1. i \in 1..n /\ i \in 0..n /\ i - 1 = n - (k + 1)
    BY <1>2
  <2>2. k * unit <= Size(X[i])
    BY <1>2, <1>5
  <2> HIDE DEF i
  <2>3. X[i - 1] = ss[i] \o X[i] /\ ss[i] \in Seq(T) /\ X[i] \in Seq(T)
    BY <1>1, <1>2, <2>1
  <2>4. Size(X[i - 1]) = Size(ss[i]) + Size(X[i]) /\ Size(ss[i]) \in Nat /\ Size(X[i]) \in Nat
    BY <1>3, <2>3, SizeJoin
  <2>5. unit <= Size(ss[i])
    BY <2>1 DEF n
  <2>6. (k + 1) * unit = k * unit + unit /\ k * unit \in Nat
    OBVIOUS
  <2>7. (k + 1) * unit <= Size(X[i - 1])
    <3> DEFINE x == k * unit
               y == (k + 1) * unit
    <3> HIDE DEF x, y
    <3>1. y <= Size(X[i - 1])
      BY <2>2, <2>4, <2>5, <2>6 DEF x, y
    <3> QED
      BY <3>1 DEF y
  <2> QED
    BY <2>1, <2>7
<1>6. n \in P
  <2>1. Nat \subseteq P
    <3> HIDE DEF P
    <3> QED
      BY <1>4, <1>5, EveryNatural
  <2> QED
    BY <1>2, <2>1
<1>7. n * unit <= Size(X[0])
  <2>1. n - n = 0 /\ n <= n
    BY <1>2
  <2>2. n * unit <= Size(X[n - n])
    BY <1>6, <2>1
  <2> QED
    BY <2>1, <2>2, Zenon
<1>8. n * unit <= Size(FlattenSeq(ss) \o rest)
  BY <1>1, <1>7, Zenon
<1> QED
  BY <1>8, Zenon DEF n

\* The size of the fields of a layout without strings, field by field.
LEMMA PutTurns ==
  ASSUME NEW write, NEW n, IsWritten(write, n), NEW r, HasFields(r, write),
         \A i \in 1..n : write[i][1] # "string"
  PROVE  \E h : /\ h[0] = 0 /\ h[n] = Size(Put(write, r))
                /\ \A i \in 1..n : h[i] = h[i - 1] + Width[write[i][1]]
<1> DEFINE p == Put(write, r)
           f == [i \in DOMAIN p |-> TokenSize(p[i])]
<1>1. n \in Nat /\ DOMAIN p = 1..n /\ \A i \in 1..n : p[i].kind = write[i][1]
  BY DEF Put, IsWritten
<1>2. \A i \in 1..n : IsPlain(p[i])
  BY FieldsPut
<1>3. Size(p) = Total(f)
  BY DEF Size
<1> HIDE DEF p
<1>4. \A i \in 1..n : f[i] = Width[write[i][1]]
  <2>1. \A i \in 1..n : TokenSize(p[i]) = FieldSize(p[i])
    BY <1>2, FieldHasSize
  <2>2. \A i \in 1..n : FieldSize(p[i]) = Width[write[i][1]]
    BY <1>1 DEF FieldSize
  <2> QED
    BY <1>1, <2>1, <2>2
<1>5. DOMAIN f = 1..n
  BY <1>1
<1> HIDE DEF f
<1>6. PICK h : h[0] = 0 /\ h[n] = Total(f) /\ \A i \in 1..n : h[i] = h[i - 1] + f[i]
  BY <1>1, <1>5, TotalTurns
<1> QED
  BY <1>3, <1>4, <1>6 DEF p

\* The least sizes that the decoders ask for are those that the encoders append.
LEMMA LeastSizes ==
  /\ \A r : HasFields(r, PathFields) => Size(Put(PathFields, r)) >= MinimumPath
  /\ \A r : HasFields(r, AttemptFields) => Size(Put(AttemptFields, r)) >= MinimumAttempt
  /\ \A r : HasFields(r, MemberFields) => Size(Put(MemberFields, r)) >= MinimumMember
  /\ \A r : HasFields(r, HistoryFields) => Size(Put(HistoryFields, r)) >= MinimumHistory
  /\ \A r : HasFields(r, MultipathFields) => Size(Put(MultipathFields, r)) >= MinimumMultipath - Length
  /\ \A r : HasFields(r, ListedFields) => Size(Put(ListedFields, r)) >= MinimumOwner
<1>0. /\ Width["u8"] = 1 /\ Width["u16"] = 2 /\ Width["u32"] = 4 /\ Width["u64"] = 8
      /\ Width["digest"] = 32
  BY DEF Width
<1>1. ASSUME NEW r, HasFields(r, PathFields) PROVE Size(Put(PathFields, r)) >= MinimumPath
  <2>1. PICK h : /\ h[0] = 0 /\ h[3] = Size(Put(PathFields, r))
                 /\ \A i \in 1..3 : h[i] = h[i - 1] + Width[PathFields[i][1]]
    <3>1. IsWritten(PathFields, 3) /\ \A i \in 1..3 : PathFields[i][1] # "string"
      BY LayoutsWritten DEF PathFields
    <3> QED
      BY <1>1, <3>1, PutTurns
  <2>2. h[1] = h[0] + 8 /\ h[2] = h[1] + 8 /\ h[3] = h[2] + 1
    BY <1>0, <2>1 DEF PathFields
  <2> QED
    BY <2>1, <2>2 DEF MinimumPath
<1>2. ASSUME NEW r, HasFields(r, AttemptFields) PROVE Size(Put(AttemptFields, r)) >= MinimumAttempt
  <2>1. PICK h : /\ h[0] = 0 /\ h[6] = Size(Put(AttemptFields, r))
                 /\ \A i \in 1..6 : h[i] = h[i - 1] + Width[AttemptFields[i][1]]
    <3>1. IsWritten(AttemptFields, 6) /\ \A i \in 1..6 : AttemptFields[i][1] # "string"
      BY LayoutsWritten DEF AttemptFields
    <3> QED
      BY <1>2, <3>1, PutTurns
  <2>2. /\ h[1] = h[0] + 8 /\ h[2] = h[1] + 8 /\ h[3] = h[2] + 8 /\ h[4] = h[3] + 32
        /\ h[5] = h[4] + 2 /\ h[6] = h[5] + 8
    BY <1>0, <2>1 DEF AttemptFields
  <2> QED
    BY <2>1, <2>2 DEF MinimumAttempt
<1>3. ASSUME NEW r, HasFields(r, MemberFields) PROVE Size(Put(MemberFields, r)) >= MinimumMember
  <2>1. PICK h : /\ h[0] = 0 /\ h[11] = Size(Put(MemberFields, r))
                 /\ \A i \in 1..11 : h[i] = h[i - 1] + Width[MemberFields[i][1]]
    <3>1. IsWritten(MemberFields, 11) /\ \A i \in 1..11 : MemberFields[i][1] # "string"
      BY LayoutsWritten DEF MemberFields
    <3> QED
      BY <1>3, <3>1, PutTurns
  <2>2. /\ h[1] = h[0] + 8 /\ h[2] = h[1] + 8 /\ h[3] = h[2] + 8 /\ h[4] = h[3] + 1
        /\ h[5] = h[4] + 8 /\ h[6] = h[5] + 8 /\ h[7] = h[6] + 8 /\ h[8] = h[7] + 8
        /\ h[9] = h[8] + 1 /\ h[10] = h[9] + 8 /\ h[11] = h[10] + 8
    BY <1>0, <2>1 DEF MemberFields
  <2> QED
    BY <2>1, <2>2 DEF MinimumMember
<1>4. ASSUME NEW r, HasFields(r, HistoryFields) PROVE Size(Put(HistoryFields, r)) >= MinimumHistory
  <2>1. PICK h : /\ h[0] = 0 /\ h[10] = Size(Put(HistoryFields, r))
                 /\ \A i \in 1..10 : h[i] = h[i - 1] + Width[HistoryFields[i][1]]
    <3>1. IsWritten(HistoryFields, 10) /\ \A i \in 1..10 : HistoryFields[i][1] # "string"
      BY LayoutsWritten DEF HistoryFields
    <3> QED
      BY <1>4, <3>1, PutTurns
  <2>2. /\ h[1] = h[0] + 8 /\ h[2] = h[1] + 2 /\ h[3] = h[2] + 8 /\ h[4] = h[3] + 8
        /\ h[5] = h[4] + 8 /\ h[6] = h[5] + 8 /\ h[7] = h[6] + 8 /\ h[8] = h[7] + 8
        /\ h[9] = h[8] + 32 /\ h[10] = h[9] + 32
    BY <1>0, <2>1 DEF HistoryFields
  <2> QED
    BY <2>1, <2>2 DEF MinimumHistory
<1>5. ASSUME NEW r, HasFields(r, MultipathFields)
      PROVE  Size(Put(MultipathFields, r)) >= MinimumMultipath - Length
  <2>1. PICK h : /\ h[0] = 0 /\ h[2] = Size(Put(MultipathFields, r))
                 /\ \A i \in 1..2 : h[i] = h[i - 1] + Width[MultipathFields[i][1]]
    <3>1. IsWritten(MultipathFields, 2) /\ \A i \in 1..2 : MultipathFields[i][1] # "string"
      BY LayoutsWritten DEF MultipathFields
    <3> QED
      BY <1>5, <3>1, PutTurns
  <2>2. h[1] = h[0] + 8 /\ h[2] = h[1] + 8
    BY <1>0, <2>1 DEF MultipathFields
  <2> QED
    BY <2>1, <2>2 DEF MinimumMultipath, Length
<1>6. ASSUME NEW r, HasFields(r, ListedFields) PROVE Size(Put(ListedFields, r)) >= MinimumOwner
  <2>1. PICK h : /\ h[0] = 0 /\ h[1] = Size(Put(ListedFields, r))
                 /\ \A i \in 1..1 : h[i] = h[i - 1] + Width[ListedFields[i][1]]
    <3>1. IsWritten(ListedFields, 1) /\ \A i \in 1..1 : ListedFields[i][1] # "string"
      BY LayoutsWritten DEF ListedFields
    <3> QED
      BY <1>6, <3>1, PutTurns
  <2>2. h[1] = h[0] + 8
    BY <1>0, <2>1 DEF ListedFields
  <2> QED
    BY <2>1, <2>2 DEF MinimumOwner
<1> QED
  BY <1>1, <1>2, <1>3, <1>4, <1>5, <1>6

----------------------------------------------------------------------------
(* Reading what was written.                                                *)

\* A reader that has rejected nothing.
Ready(rest, read) == [rest |-> rest, read |-> read, code |-> "Ok"]

\* What was read, with the fields of v of some names.
Over(read, names, v) == [x \in DOMAIN read \cup names |-> IF x \in names THEN v[x] ELSE read[x]]

\* The reader with other tokens to read and another read.
Moves(r, t, w) == [r EXCEPT !.rest = t, !.read = w] = Ready(t, w)

\* It has rejected nothing.
LEMMA ReadyMoves ==
  ASSUME NEW rest, NEW read, NEW t, NEW w
  PROVE  Moves(Ready(rest, read), t, w)
<1> DEFINE x == [Ready(rest, read) EXCEPT !.rest = t, !.read = w]
<1>1. x.rest = t /\ x.read = w /\ x.code = "Ok" /\ DOMAIN x = {"rest", "read", "code"}
  BY DEF Ready
<1>2. x = [f \in DOMAIN x |-> x[f]]
  BY DEF Ready
<1> HIDE DEF x
<1>3. x = Ready(t, w)
  BY <1>1, <1>2 DEF Ready
<1>4. [Ready(rest, read) EXCEPT !.rest = t, !.read = w] = Ready(t, w)
  BY <1>3 DEF x
<1> QED
  BY <1>4, Zenon DEF Moves

\* A record or a function, whatever it maps.
IsMapping(read) == read = [x \in DOMAIN read |-> read[x]]

\* The reader takes a field of the kind, for its value is one that it knows.
Takes(t, kind) ==
  /\ t.kind = Base(kind) /\ ~(kind = "string" /\ t.value > MaxRecord)
  /\ kind \in DOMAIN Known => t.value \in Known[kind]

\* The reader goes on behind such a field.
Gets(rest, read, kind, name, after, t) ==
  Get(Ready(rest, read), kind, name) = Ready(after, With(read, name, t.value))

\* A field that the reader takes is read under its name.
LEMMA FieldGiven ==
  ASSUME NEW T, NEW rest \in Seq(T), rest # <<>>, NEW kind, Takes(Head(rest), kind), NEW read, NEW name
  PROVE  Gets(rest, read, kind, name, Tail(rest), Head(rest))
<1> DEFINE r == Ready(rest, read)
           value == Head(rest).value
<1>1. r.code = "Ok" /\ r.rest = rest /\ r.read = read
  BY DEF Ready
<1>2. Get(r, kind, name) = [r EXCEPT !.rest = Tail(@), !.read = With(@, name, value)]
  BY <1>1, Zenon DEF Get, Takes
<1>3. [r EXCEPT !.rest = Tail(@), !.read = With(@, name, value)] = Ready(Tail(rest), With(read, name, value))
  <2> DEFINE t == Tail(rest)
             w == With(read, name, value)
  <2> HIDE DEF value
  <2>1. [r EXCEPT !.rest = Tail(@), !.read = With(@, name, value)] = [r EXCEPT !.rest = t, !.read = w]
    BY <1>1, Zenon
  <2> HIDE DEF t, w
  <2>2. Moves(Ready(rest, read), t, w)
    BY ReadyMoves
  <2> QED
    BY <2>1, <2>2, Zenon DEF Moves, t, w
<1> QED
  BY <1>2, <1>3, Zenon DEF Gets

\* The same field first in what remains.
LEMMA OneGiven ==
  ASSUME NEW T, NEW t \in T, NEW after \in Seq(T), NEW kind, Takes(t, kind), NEW read, NEW name
  PROVE  Gets(<<t>> \o after, read, kind, name, after, t)
<1> DEFINE rest == <<t>> \o after
<1>1. rest \in Seq(T) /\ rest # <<>> /\ Head(rest) = t /\ Tail(rest) = after
  <2>1. <<t>> \in Seq(T) /\ Len(<<t>>) = 1 /\ <<t>>[1] = t
    OBVIOUS
  <2>2. rest \in Seq(T) /\ Len(rest) = 1 + Len(after) /\ Len(after) \in Nat
    BY <2>1, ConcatProperties
  <2>3. rest[1] = t
    BY <2>1, ConcatProperties
  <2>4. \A i \in 1..Len(after) : rest[1 + i] = after[i]
    BY <2>1, ConcatProperties
  <2> HIDE DEF rest
  <2>5. rest # <<>> /\ Head(rest) = t
    BY <2>2, <2>3
  <2>6. Tail(rest) \in Seq(T) /\ Len(Tail(rest)) = Len(after)
        /\ \A i \in 1..Len(after) : Tail(rest)[i] = rest[i + 1]
    BY <2>2, <2>5
  <2>7. \A i \in 1..Len(after) : Tail(rest)[i] = after[i]
    BY <2>2, <2>4, <2>6
  <2>8. Tail(rest) = after
    BY <2>6, <2>7, SeqEqual
  <2> QED
    BY <2>2, <2>5, <2>8
<1> HIDE DEF rest
<1>2. Gets(rest, read, kind, name, Tail(rest), Head(rest))
  BY <1>1, FieldGiven
<1> QED
  BY <1>1, <1>2, Zenon DEF rest

\* The strings of r are within the limit of a reader.
IsShort(r, layout) ==
  \A i \in DOMAIN layout : layout[i][1] = "string" => ~(r[layout[i][2]] > MaxRecord)

\* The fields of a layout are read in their order, and nothing behind them.
GetsAll(rest, read, layout, after, v) ==
  GetAll(Ready(rest, read), layout) = Ready(after, Over(read, Names(layout), v))

\* What Put writes of a record, GetAll reads.
LEMMA FieldsGiven ==
  ASSUME NEW T, NEW layout, NEW n \in Nat, IsLayout(layout, n), NEW write, Matches(write, layout),
         NEW v, Put(write, v) \in Seq(T), NEW after \in Seq(T), NEW read, IsMapping(read),
         IsKnown(v, layout), IsShort(v, layout)
  PROVE  GetsAll(Put(write, v) \o after, read, layout, after, v)
<1> DEFINE p == Put(write, v)
           all == p \o after
           from(i) == SubSeq(all, i + 1, Len(all))
           names(i) == {layout[j][2] : j \in 1..i}
           r == Ready(all, read)
<1>1. /\ DOMAIN write = 1..n /\ DOMAIN layout = 1..n /\ DOMAIN p = 1..n
      /\ \A i \in 1..n : p[i] = [kind |-> Base(layout[i][1]), value |-> v[layout[i][2]]]
  BY DEF Put, IsLayout, Matches
<1>2. /\ Len(p) = n /\ all \in Seq(T) /\ Len(all) = n + Len(after) /\ Len(after) \in Nat
      /\ (\A i \in 1..n : all[i] = p[i]) /\ \A i \in 1..Len(after) : all[n + i] = after[i]
  <2> HIDE DEF p
  <2>1. Len(p) = n
    BY <1>1
  <2>2. all \in Seq(T) /\ Len(all) = Len(p) + Len(after) /\ Len(after) \in Nat
    BY ConcatProperties DEF p
  <2>3. \A i \in 1..Len(p) : all[i] = p[i]
    BY ConcatProperties DEF p
  <2>4. \A i \in 1..Len(after) : all[Len(p) + i] = after[i]
    BY ConcatProperties DEF p
  <2> HIDE DEF all
  <2> QED
    BY <2>1, <2>2, <2>3, <2>4
<1> HIDE DEF p, all
<1>3. PICK h : /\ h[0] = r /\ h[n] = GetAll(r, layout)
               /\ \A i \in 1..n : h[i] = Get(h[i - 1], layout[i][1], layout[i][2])
  BY FieldTurns DEF IsLayout
<1> DEFINE P == {i \in Nat : i <= n => h[i] = Ready(from(i), Over(read, names(i), v))}
<1>4. 0 \in P
  <2>1. SubSeq(all, 1, Len(all)) = all
    BY <1>2, SubSeqFull
  <2>2. from(0) = all
    BY <1>2, <2>1
  <2>3. names(0) = {}
    OBVIOUS
  <2>4. Over(read, {}, v) = read
    BY DEF Over, IsMapping
  <2> QED
    BY <1>3, <2>2, <2>3, <2>4
<1>5. ASSUME NEW i \in Nat, i \in P PROVE i + 1 \in P
  <2> SUFFICES ASSUME i + 1 <= n
               PROVE  h[i + 1] = Ready(from(i + 1), Over(read, names(i + 1), v))
    OBVIOUS
  <2> DEFINE kind == layout[i + 1][1]
             name == layout[i + 1][2]
             o == Over(read, names(i), v)
  <2>1. i + 1 \in 1..n /\ (i + 1) - 1 = i /\ i \in 0..Len(all) /\ i < Len(all) /\ i + 1 \in 1..Len(all)
    BY <1>2
  <2>2. h[i + 1] = Get(Ready(from(i), o), kind, name)
    BY <1>3, <1>5, <2>1
  <2>3. /\ from(i) \in Seq(T) /\ from(i) # <<>> /\ Head(from(i)) = all[i + 1]
        /\ Tail(from(i)) = from(i + 1)
    <3>1. SubSeq(all, i + 1, Len(all)) # <<>> /\ SubSeq(all, i + 1, Len(all)) \in Seq(T)
      <4>1. SubSeq(all, i + 1, Len(all)) \in Seq(T)
        BY <1>2, <2>1, ReadAndRest
      <4>2. Len(SubSeq(all, i + 1, Len(all))) = Len(all) - i
        BY <1>2, <2>1
      <4> DEFINE x == SubSeq(all, i + 1, Len(all))
      <4> HIDE DEF x
      <4>3. x # <<>>
        <5>1. Len(x) > 0
          BY <1>2, <2>1, <4>2 DEF x
        <5> QED
          BY <5>1
      <4> QED
        BY <4>1, <4>3 DEF x
    <3>2. /\ Head(SubSeq(all, i + 1, Len(all))) = all[i + 1]
          /\ Tail(SubSeq(all, i + 1, Len(all))) = SubSeq(all, i + 2, Len(all))
      BY <1>2, <2>1, <3>1, ReadAndRest
    <3>3. (i + 1) + 1 = i + 2
      OBVIOUS
    <3> QED
      BY <3>1, <3>2, <3>3, Zenon
  <2>4. all[i + 1] = [kind |-> Base(kind), value |-> v[name]]
    BY <1>1, <1>2, <2>1
  <2>5. Takes(all[i + 1], kind)
    <3>1. /\ kind \in DOMAIN Known => v[name] \in Known[kind]
          /\ kind = "string" => ~(v[name] > MaxRecord)
      BY <1>1, <2>1 DEF IsKnown, IsShort
    <3> HIDE DEF kind, name
    <3>2. all[i + 1].kind = Base(kind) /\ all[i + 1].value = v[name]
      BY <2>4
    <3> QED
      BY <3>1, <3>2, Zenon DEF Takes
  <2> DEFINE f == from(i)
             g == from(i + 1)
             t == all[i + 1]
  <2>6. t.value = v[name]
    BY <2>4
  <2> HIDE DEF from, kind, name, o, f, g, t
  <2>7. Gets(f, o, kind, name, Tail(f), Head(f))
    BY <2>3, <2>5, FieldGiven DEF f, g, t
  <2>8. h[i + 1] = Ready(g, With(o, name, v[name]))
    BY <2>2, <2>3, <2>6, <2>7, Zenon DEF f, g, t, Gets
  <2>9. With(o, name, v[name]) = Over(read, names(i + 1), v)
    <3>1. names(i + 1) = names(i) \cup {name}
      <4>1. 1..(i + 1) = (1..i) \cup {i + 1}
        OBVIOUS
      <4> QED
        BY <4>1 DEF name
    <3> DEFINE M == names(i)
    <3> HIDE DEF M, names
    <3>2. With(Over(read, M, v), name, v[name]) = Over(read, M \cup {name}, v)
      BY DEF With, Over
    <3> QED
      BY <3>1, <3>2 DEF M, o
  <2> QED
    BY <2>8, <2>9 DEF g
<1>6. h[n] = Ready(from(n), Over(read, names(n), v))
  <2>1. Nat \subseteq P
    <3> HIDE DEF P
    <3> QED
      BY <1>4, <1>5, EveryNatural
  <2> QED
    BY <2>1
<1>7. from(n) = after
  <2>1. from(n) \in Seq(T) /\ Len(from(n)) = Len(after) /\ \A i \in 1..Len(after) : from(n)[i] = all[n + i]
    BY <1>2
  <2> HIDE DEF from
  <2>2. \A i \in 1..Len(after) : from(n)[i] = after[i]
    BY <1>2, <2>1
  <2> QED
    BY <2>1, <2>2, SeqEqual
<1>8. names(n) = Names(layout)
  BY <1>1 DEF Names
<1> QED
  BY <1>3, <1>6, <1>7, <1>8, Zenon DEF GetsAll, all, p

\* A reader with another read, or with other tokens to read.
LEMMA ReadySets ==
  ASSUME NEW rest, NEW read, NEW w
  PROVE  [Ready(rest, read) EXCEPT !.read = w] = Ready(rest, w)
BY DEF Ready

\* Fields are parts of a body, and have sizes.
LEMMA FieldsAreBody ==
  ASSUME NEW s, IsFields(s)
  PROVE  IsBody(s)
<1>1. PICK T : s \in Seq(T) /\ \A t \in T : IsPlain(t)
  BY DEF IsFields
<1>2. \A t \in T : IsBodyToken(t)
  BY <1>1 DEF IsBodyToken, IsPlain, Kinds
<1> QED
  BY <1>1, <1>2 DEF IsBody

\* The reader goes on behind an entry, with it behind those of the name.
GetsEntry(rest, read, name, layout, after, e) ==
  GetEntry(Ready(rest, read), name, layout) = Ready(after, [read EXCEPT ![name] = Append(@, e)])

\* An entry that was written is read.
LEMMA EntryGiven ==
  ASSUME NEW T, NEW layout, NEW n \in Nat, IsLayout(layout, n), NEW write, Matches(write, layout),
         NEW e, Put(write, e) \in Seq(T), NEW after \in Seq(T), NEW read, NEW name,
         IsEntry(e, layout, {}), IsShort(e, layout)
  PROVE  GetsEntry(Put(write, e) \o after, read, name, layout, after, e)
<1> DEFINE all == Put(write, e) \o after
           r == Ready(all, read)
           entry == GetAll([r EXCEPT !.read = <<>>], layout)
           appended == [read EXCEPT ![name] = Append(@, e)]
<1>1. IsMapping(<<>>) /\ DOMAIN <<>> = {}
  BY DEF IsMapping
<1>2. GetsAll(all, <<>>, layout, after, e)
  BY <1>1, FieldsGiven DEF IsEntry
<1>3. Over(<<>>, Names(layout), e) = e
  <2>1. e = [x \in Names(layout) \cup {} |-> e[x]]
    BY DEF IsEntry, Exactly
  <2>2. Names(layout) \cup {} = Names(layout) /\ DOMAIN <<>> \cup Names(layout) = Names(layout)
    BY <1>1
  <2> DEFINE N == Names(layout)
  <2> HIDE DEF N
  <2>3. [x \in N |-> IF x \in N THEN e[x] ELSE <<>>[x]] = [x \in N |-> e[x]]
    OBVIOUS
  <2> QED
    BY <2>1, <2>2, <2>3, Zenon DEF Over, N
<1>4. entry = Ready(after, e)
  <2>1. [r EXCEPT !.read = <<>>] = Ready(all, <<>>)
    BY ReadySets
  <2> HIDE DEF all, r
  <2> QED
    BY <1>2, <1>3, <2>1, Zenon DEF GetsAll
<1>5. r.code = "Ok" /\ r.read = read /\ entry.read = e
  BY <1>4 DEF Ready
<1>6. GetEntry(r, name, layout) = [entry EXCEPT !.read = [r.read EXCEPT ![name] = Append(@, entry.read)]]
  BY <1>5, Zenon DEF GetEntry
<1>7. [entry EXCEPT !.read = [r.read EXCEPT ![name] = Append(@, entry.read)]] = Ready(after, appended)
  <2>1. [Ready(after, e) EXCEPT !.read = appended] = Ready(after, appended)
    BY ReadySets
  <2> HIDE DEF r, entry
  <2>2. [r.read EXCEPT ![name] = Append(@, entry.read)] = appended
    BY <1>5, Zenon
  <2> HIDE DEF appended
  <2> QED
    BY <1>4, <2>1, <2>2, Zenon
<1> QED
  BY <1>6, <1>7, Zenon DEF GetsEntry

\* The reader goes on behind a list, with it under the name.
GetsEntries(rest, read, name, layout, after, rs) ==
  EntryLoop(Ready(rest, read), name, layout, Len(rs)) = Ready(after, [read EXCEPT ![name] = rs])

\* The strings of a layout, if it has any, are not bound.
HasNoString(layout) == \A i \in DOMAIN layout : layout[i][1] # "string"

\* The entries of a list that was written are read.
LEMMA EntriesGiven ==
  ASSUME NEW T, NEW layout, NEW n \in Nat, IsLayout(layout, n), NEW write, Matches(write, layout),
         NEW E, NEW rs \in Seq(E), Entries(write, rs) \in Seq(Seq(T)), NEW after \in Seq(T),
         IsList(rs, layout), HasNoString(layout),
         NEW read, IsMapping(read), NEW name, name \in DOMAIN read, read[name] = <<>>
  PROVE  GetsEntries(FlattenSeq(Entries(write, rs)) \o after, read, name, layout, after, rs)
<1> DEFINE m == Len(rs)
           ss == Entries(write, rs)
           start == Ready(FlattenSeq(ss) \o after, read)
           upto(i) == [read EXCEPT ![name] = SubSeq(rs, 1, i)]
<1>1. m \in Nat /\ DOMAIN rs = 1..m
  OBVIOUS
<1>2. DOMAIN ss = 1..m /\ \A i \in 1..m : ss[i] = Put(write, rs[i])
  BY <1>1 DEF Entries
<1> HIDE DEF ss, m
<1>3. Len(ss) = m /\ \A i \in 1..m : ss[i] \in Seq(T)
  <2>1. ss \in Seq(Seq(T))
    BY DEF ss
  <2> QED
    BY <1>1, <1>2, <2>1
<1>4. PICK X : IsTails(T, ss, after, X)
  BY FlattenTails DEF ss
<1>5. /\ X[0] = FlattenSeq(ss) \o after /\ X[m] = after
      /\ \A i \in 0..m : X[i] \in Seq(T)
      /\ \A i \in 1..m : X[i - 1] = ss[i] \o X[i]
  BY <1>3, <1>4 DEF IsTails
<1>6. PICK h : /\ h[0] = start /\ h[m] = EntryLoop(start, name, layout, m)
               /\ \A i \in 1..m : h[i] = GetEntry(h[i - 1], name, layout)
  <2> HIDE DEF start
  <2>1. m \in Nat
    BY <1>1
  <2>2. \E h : /\ h[0] = start /\ h[m] = EntryLoop(start, name, layout, m)
               /\ \A i \in 1..m : h[i] = GetEntry(h[i - 1], name, layout)
    BY <2>1, EntryTurns
  <2> QED
    BY <2>2
<1> DEFINE Good(i) == h[i] = Ready(X[i], upto(i))
           P == {i \in Nat : i <= m => Good(i)}
<1>7. 0 \in P
  <2>1. SubSeq(rs, 1, 0) = <<>>
    OBVIOUS
  <2>2. upto(0) = read
    BY <2>1 DEF IsMapping
  <2> HIDE DEF upto
  <2> QED
    BY <1>5, <1>6, <2>2
<1>8. ASSUME NEW i \in Nat, i \in P PROVE i + 1 \in P
  <2> SUFFICES ASSUME i + 1 <= m PROVE h[i + 1] = Ready(X[i + 1], upto(i + 1))
    OBVIOUS
  <2> DEFINE e == rs[i + 1]
  <2>1. i + 1 \in 1..m /\ i + 1 \in 0..m /\ (i + 1) - 1 = i /\ i + 1 \in DOMAIN rs
    BY <1>1
  <2>2. h[i + 1] = GetEntry(Ready(X[i], upto(i)), name, layout)
    <3>1. Good(i)
      <4> HIDE DEF Good
      <4> QED
        BY <1>1, <1>8, <2>1
    <3> HIDE DEF P, upto
    <3>2. h[i + 1] = GetEntry(h[i], name, layout)
      BY <1>6, <2>1
    <3> QED
      BY <3>1, <3>2, Zenon
  <2>3. X[i] = Put(write, e) \o X[i + 1] /\ Put(write, e) \in Seq(T) /\ X[i + 1] \in Seq(T)
    BY <1>2, <1>3, <1>5, <2>1
  <2>4. IsEntry(e, layout, {}) /\ IsShort(e, layout)
    BY <2>1 DEF IsList, IsShort, HasNoString
  <2>5. GetsEntry(Put(write, e) \o X[i + 1], upto(i), name, layout, X[i + 1], e)
    <3> DEFINE u == upto(i)
               x == X[i + 1]
    <3> HIDE DEF upto, e, P, u, x
    <3>1. x \in Seq(T)
      BY <2>3 DEF x
    <3>2. GetsEntry(Put(write, e) \o x, u, name, layout, x, e)
      BY <2>3, <2>4, <3>1, EntryGiven
    <3> QED
      BY <3>2 DEF u, x
  <2>6. [upto(i) EXCEPT ![name] = Append(@, e)] = upto(i + 1)
    <3>1. Append(SubSeq(rs, 1, i), rs[i + 1]) = SubSeq(rs, 1, i + 1)
      BY <1>1, <2>1
    <3> DEFINE a == SubSeq(rs, 1, i)
               b == SubSeq(rs, 1, i + 1)
    <3> HIDE DEF a, b, e
    <3>2. Append(a, e) = b
      BY <3>1 DEF a, b, e
    <3>3. [[read EXCEPT ![name] = a] EXCEPT ![name] = Append(@, e)] = [read EXCEPT ![name] = b]
      BY <3>2 DEF IsMapping
    <3> QED
      BY <3>3 DEF a, b
  <2> HIDE DEF upto, e
  <2> QED
    BY <2>2, <2>3, <2>5, <2>6, Zenon DEF GetsEntry
<1>9. h[m] = Ready(X[m], upto(m))
  <2>1. Nat \subseteq P
    <3> HIDE DEF P
    <3> QED
      BY <1>7, <1>8, EveryNatural
  <2> QED
    BY <1>1, <2>1
<1>10. SubSeq(rs, 1, m) = rs
  BY SubSeqFull DEF m
<1> QED
  BY <1>5, <1>6, <1>9, <1>10, Zenon DEF GetsEntries, ss, m

\* A count that was written is read.
LEMMA CountGiven ==
  ASSUME NEW s, Len(s) \in Nat, NEW after, IsBody(after), NEW read, NEW name
  PROVE  Get(Ready(Count(s) \o after, read), "u32", name) = Ready(after, With(read, name, Len(s)))
<1> DEFINE c == Count(s)[1]
<1>1. Count(s) = <<c>> /\ IsPlain(c) /\ c.value = Len(s) /\ c.kind = "u32"
  <2>1. Count(s) = <<c>> /\ IsPlain(c)
    BY FieldCount
  <2>2. c = [kind |-> "u32", value |-> Len(s)]
    BY DEF Count
  <2> HIDE DEF c
  <2> QED
    BY <2>1, <2>2
<1> HIDE DEF c
<1>2. PICK T : after \in Seq(T) /\ \A t \in T : IsBodyToken(t)
  BY DEF IsBody
<1> DEFINE U == T \cup {c}
<1>3. T \subseteq U /\ c \in U
  OBVIOUS
<1> HIDE DEF U
<1>4. after \in Seq(U)
  BY <1>2, <1>3, SeqMonotonic
<1>5. Takes(c, "u32")
  BY <1>1 DEF Takes, Base, Known
<1>6. Gets(<<c>> \o after, read, "u32", name, after, c)
  BY <1>3, <1>4, <1>5, OneGiven
<1> QED
  BY <1>1, <1>6, Zenon DEF Gets

\* The reader goes on behind a list, with it under the name, within a limit and of entries
\* of at least unit bytes.
GetsList(rest, read, name, layout, limit, unit, after, rs) ==
  GetList(Ready(rest, read), name, layout, limit, unit) = Ready(after, With(read, name, rs))

\* The entries of a list have their least size.
HasUnit(write, rs, unit) == \A i \in DOMAIN rs : unit <= Size(Put(write, rs[i]))

\* The tokens of a list and of what follows it.
IsListed(T, write, rs, after) ==
  /\ Entries(write, rs) \in Seq(Seq(T)) /\ after \in Seq(T) /\ \A t \in T : IsPlain(t)

\* There are such tokens.
LEMMA ListedTokens ==
  ASSUME NEW write, NEW n, IsWritten(write, n), NEW rs, HasList(rs, write),
         NEW after, IsFields(after)
  PROVE  \E T : IsListed(T, write, rs, after)
<1>1. PICK S : AreFields(S, Entries(write, rs))
  BY EntriesPut
<1>2. PICK T : after \in Seq(T) /\ \A t \in T : IsPlain(t)
  BY DEF IsFields
<1> DEFINE U == S \cup T
           ss == Entries(write, rs)
<1>3. S \subseteq U /\ T \subseteq U /\ \A t \in U : IsPlain(t)
  BY <1>1, <1>2 DEF AreFields
<1> HIDE DEF U, ss
<1>4. after \in Seq(U)
  BY <1>2, <1>3, SeqMonotonic
<1>5. Seq(S) \subseteq Seq(U)
  BY <1>3, SeqMonotonic
<1>6. ss \in Seq(Seq(U))
  <2> DEFINE V == Seq(S)
             W == Seq(U)
  <2>1. ss \in Seq(V) /\ V \subseteq W
    BY <1>1, <1>5 DEF AreFields, ss
  <2> HIDE DEF V, W
  <2>2. ss \in Seq(W)
    BY <2>1, SeqMonotonic
  <2> QED
    BY <2>2 DEF W
<1> QED
  BY <1>3, <1>4, <1>6, Zenon DEF IsListed, ss

\* The entries of a list take at least their number times their least size.
FitsListed(write, rs, after, unit) ==
  Len(rs) * unit <= Size(FlattenSeq(Entries(write, rs)) \o after)

\* They do.
LEMMA ListedFits ==
  ASSUME NEW T, NEW write, NEW rs, HasList(rs, write), NEW after, IsListed(T, write, rs, after),
         NEW unit \in Nat, HasUnit(write, rs, unit)
  PROVE  FitsListed(write, rs, after, unit)
<1> DEFINE ss == Entries(write, rs)
<1>1. ss \in Seq(Seq(T)) /\ after \in Seq(T) /\ \A t \in T : IsPlain(t)
  BY DEF IsListed
<1>2. \A t \in T : TokenSize(t) \in Nat
  BY <1>1, FieldHasSize
<1>3. DOMAIN rs = 1..Len(rs) /\ Len(rs) \in Nat
  BY DEF HasList
<1>4. DOMAIN ss = 1..Len(rs) /\ \A i \in 1..Len(rs) : ss[i] = Put(write, rs[i])
  BY <1>3 DEF Entries
<1>5. Len(ss) = Len(rs)
  <2>1. DOMAIN ss = 1..Len(ss) /\ Len(ss) \in Nat
    BY <1>1
  <2> DEFINE m == Len(rs)
             k == Len(ss)
  <2> HIDE DEF ss, m, k
  <2>2. 1..m = 1..k /\ m \in Nat /\ k \in Nat
    BY <1>3, <1>4, <2>1 DEF m, k
  <2>3. m = k
    BY <2>2
  <2> QED
    BY <2>3 DEF m, k
<1>6. \A i \in 1..Len(ss) : unit <= Size(ss[i])
  BY <1>3, <1>4, <1>5 DEF HasUnit
<1> HIDE DEF ss
<1>7. Len(ss) * unit <= Size(FlattenSeq(ss) \o after)
  BY <1>1, <1>2, <1>6, FlattenSize
<1> QED
  BY <1>5, <1>7, Zenon DEF FitsListed, ss

\* A list that was written is its count, its entries and what follows.
LEMMA ListParts ==
  ASSUME NEW write, NEW n, IsWritten(write, n), NEW rs, HasList(rs, write), NEW after, IsFields(after)
  PROVE  /\ PutList(write, rs) \o after = Count(rs) \o (FlattenSeq(Entries(write, rs)) \o after)
         /\ IsFields(FlattenSeq(Entries(write, rs)) \o after)
<1> DEFINE ss == Entries(write, rs)
           f == FlattenSeq(ss)
<1>1. PICK T : IsListed(T, write, rs, after)
  BY ListedTokens
<1>2. Len(rs) \in Nat
  BY DEF HasList
<1> DEFINE c == Count(rs)[1]
<1>3. Count(rs) = <<c>> /\ IsPlain(c)
  BY <1>2, FieldCount
<1>4. PutList(write, rs) = Count(rs) \o f
  BY Zenon DEF PutList, Entries
<1> DEFINE U == T \cup {c}
<1>5. T \subseteq U /\ c \in U /\ \A t \in U : IsPlain(t)
  BY <1>1, <1>3 DEF IsListed
<1> HIDE DEF U, c, ss
<1>6. f \in Seq(T)
  <2>1. ss \in Seq(Seq(T)) /\ <<>> \in Seq(T)
    BY <1>1 DEF IsListed, ss
  <2> QED
    BY <2>1, FlattenAppend
<1> HIDE DEF f
<1>7. f \in Seq(U) /\ after \in Seq(U) /\ <<c>> \in Seq(U)
  <2>1. f \in Seq(U)
    BY <1>5, <1>6, SeqMonotonic
  <2>2. after \in Seq(T)
    BY <1>1 DEF IsListed
  <2>3. after \in Seq(U)
    BY <1>5, <2>2, SeqMonotonic
  <2>4. <<c>> \in Seq(U)
    BY <1>5
  <2> QED
    BY <2>1, <2>3, <2>4
<1>8. (<<c>> \o f) \o after = <<c>> \o (f \o after)
  <2> DEFINE q == <<c>>
  <2>1. q \in Seq(U)
    BY <1>7
  <2> HIDE DEF q
  <2>2. JoinsAny(U)
    BY Joined, Zenon
  <2>3. (q \o f) \o after = q \o (f \o after)
    BY <1>7, <2>1, <2>2 DEF JoinsAny
  <2> QED
    BY <2>3, Zenon DEF q
<1>9. IsFields(f \o after)
  <2>1. f \o after \in Seq(U)
    BY <1>7
  <2> QED
    BY <1>5, <2>1 DEF IsFields
<1> QED
  BY <1>3, <1>4, <1>8, <1>9, Zenon DEF f, ss

\* A list that was written is read.
LEMMA ListGiven ==
  ASSUME NEW layout, NEW n \in Nat, IsLayout(layout, n), HasNoString(layout),
         NEW write, IsWritten(write, n), Matches(write, layout),
         NEW rs, HasList(rs, write), IsList(rs, layout), NEW unit \in Nat, HasUnit(write, rs, unit),
         NEW limit, ~(Len(rs) > limit), NEW after, IsFields(after),
         NEW read, IsMapping(read), NEW name
  PROVE  GetsList(PutList(write, rs) \o after, read, name, layout, limit, unit, after, rs)
<1> DEFINE m == Len(rs)
           f == FlattenSeq(Entries(write, rs)) \o after
           r == Ready(PutList(write, rs) \o after, read)
           counted == Get(r, "u32", "count")
           empty == With(read, name, <<>>)
<1>1. m \in Nat /\ rs \in Seq(Range(rs))
  BY DEF HasList
<1>2. PutList(write, rs) \o after = Count(rs) \o f /\ IsFields(f)
  BY ListParts
<1>3. PICK T : IsListed(T, write, rs, after)
  BY ListedTokens
<1>4. FitsListed(write, rs, after, unit)
  BY <1>3, ListedFits
<1>5. EntriesFit(m, unit, f)
  BY <1>4, Zenon DEF EntriesFit, FitsListed
<1>6. GetsEntries(f, empty, name, layout, after, rs)
  <2>1. IsMapping(empty) /\ name \in DOMAIN empty /\ empty[name] = <<>>
    BY DEF IsMapping, With
  <2> HIDE DEF empty
  <2>2. Entries(write, rs) \in Seq(Seq(T)) /\ after \in Seq(T)
    BY <1>3 DEF IsListed
  <2> QED
    BY <1>1, <2>1, <2>2, EntriesGiven
<1> HIDE DEF f, m
<1>7. counted = Ready(f, With(read, "count", m))
  <2>1. IsBody(f)
    BY <1>2, FieldsAreBody
  <2>2. Get(Ready(Count(rs) \o f, read), "u32", "count") = Ready(f, With(read, "count", Len(rs)))
    BY <1>1, <2>1, CountGiven DEF m
  <2> QED
    BY <1>2, <2>2, Zenon DEF m
<1> HIDE DEF counted
<1>8. counted.code = "Ok" /\ counted.rest = f /\ counted.read.count = m
  BY <1>7 DEF Ready, With
<1>9. GetEntries(counted, read, name, layout, limit, unit) =
        EntryLoop([counted EXCEPT !.read = empty], name, layout, m)
  <2>1. ~(m > limit)
    BY DEF m
  <2> QED
    BY <1>5, <1>8, <2>1, Zenon DEF GetEntries
<1>10. [counted EXCEPT !.read = empty] = Ready(f, empty)
  <2> HIDE DEF empty
  <2>1. [Ready(f, With(read, "count", m)) EXCEPT !.read = empty] = Ready(f, empty)
    BY ReadySets
  <2> QED
    BY <1>7, <2>1, Zenon
<1>11. [empty EXCEPT ![name] = rs] = With(read, name, rs)
  BY DEF With
<1> HIDE DEF empty
<1>12. GetEntries(counted, read, name, layout, limit, unit) = Ready(after, With(read, name, rs))
  BY <1>6, <1>9, <1>10, <1>11, Zenon DEF GetsEntries, m
<1>13. GetList(r, name, layout, limit, unit) = GetEntries(counted, read, name, layout, limit, unit)
  <2>1. r.read = read
    BY DEF Ready
  <2> HIDE DEF r
  <2> QED
    BY <2>1, Zenon DEF GetList, counted
<1> QED
  BY <1>12, <1>13, Zenon DEF GetsList

\* Three sequences are joined in either order.
AreJoined(a, b, c) == (a \o b) \o c = a \o (b \o c)

\* Parts of a body are.
LEMMA PartsJoined ==
  ASSUME NEW a, NEW b, NEW c, IsBody(a), IsBody(b), IsBody(c)
  PROVE  AreJoined(a, b, c)
<1>1. PICK R : a \in Seq(R)
  BY DEF IsBody
<1>2. PICK S : b \in Seq(S)
  BY DEF IsBody
<1>3. PICK T : c \in Seq(T)
  BY DEF IsBody
<1> DEFINE U == (R \cup S) \cup T
<1>4. R \subseteq U /\ S \subseteq U /\ T \subseteq U
  OBVIOUS
<1> HIDE DEF U
<1>5. a \in Seq(U) /\ b \in Seq(U) /\ c \in Seq(U)
  BY <1>1, <1>2, <1>3, <1>4, SeqMonotonic
<1>6. JoinsAny(U)
  BY Joined, Zenon
<1> QED
  BY <1>5, <1>6 DEF JoinsAny, AreJoined

\* The entries of the lists of a record have the least sizes that the decoders ask for.
LEMMA ListUnits ==
  /\ \A rs : HasList(rs, MemberFields) => HasUnit(MemberFields, rs, MinimumMember)
  /\ \A rs : HasList(rs, HistoryFields) => HasUnit(HistoryFields, rs, MinimumHistory)
  /\ \A rs : HasList(rs, ListedFields) => HasUnit(ListedFields, rs, MinimumOwner)
<1>1. MinimumMember \in Nat /\ MinimumHistory \in Nat /\ MinimumOwner \in Nat
  BY DEF MinimumMember, MinimumHistory, MinimumOwner
<1>2. ASSUME NEW write, NEW n, IsWritten(write, n), NEW r, HasFields(r, write)
      PROVE  Size(Put(write, r)) \in Nat
  <2>1. IsFields(Put(write, r))
    BY <1>2, FieldsPut
  <2> QED
    BY <2>1, RecordHasSize
<1>3. ASSUME NEW rs, HasList(rs, MemberFields) PROVE HasUnit(MemberFields, rs, MinimumMember)
  <2>1. \A i \in DOMAIN rs : Size(Put(MemberFields, rs[i])) \in Nat
    BY <1>2, <1>3, LayoutsWritten DEF HasList
  <2>2. \A i \in DOMAIN rs : Size(Put(MemberFields, rs[i])) >= MinimumMember
    BY <1>3, LeastSizes DEF HasList
  <2> QED
    BY <1>1, <2>1, <2>2 DEF HasUnit
<1>4. ASSUME NEW rs, HasList(rs, HistoryFields) PROVE HasUnit(HistoryFields, rs, MinimumHistory)
  <2>1. \A i \in DOMAIN rs : Size(Put(HistoryFields, rs[i])) \in Nat
    BY <1>2, <1>4, LayoutsWritten DEF HasList
  <2>2. \A i \in DOMAIN rs : Size(Put(HistoryFields, rs[i])) >= MinimumHistory
    BY <1>4, LeastSizes DEF HasList
  <2> QED
    BY <1>1, <2>1, <2>2 DEF HasUnit
<1>5. ASSUME NEW rs, HasList(rs, ListedFields) PROVE HasUnit(ListedFields, rs, MinimumOwner)
  <2>1. \A i \in DOMAIN rs : Size(Put(ListedFields, rs[i])) \in Nat
    BY <1>2, <1>5, LayoutsWritten DEF HasList
  <2>2. \A i \in DOMAIN rs : Size(Put(ListedFields, rs[i])) >= MinimumOwner
    BY <1>5, LeastSizes DEF HasList
  <2> QED
    BY <1>1, <2>1, <2>2 DEF HasUnit
<1> QED
  BY <1>3, <1>4, <1>5

\* Lists have no strings.
LEMMA ListsHaveNoString ==
  /\ HasNoString(ReadMember) /\ HasNoString(ReadHistory) /\ HasNoString(ListedFields)
  /\ HasNoString(ReadPath) /\ HasNoString(ReadAttempt) /\ HasNoString(MultipathFields)
  /\ HasNoString(ReadCounters) /\ HasNoString(ReadStanding)
<1>1. HasNoString(ReadMember)
  BY DEF HasNoString, ReadMember
<1>2. HasNoString(ReadHistory)
  BY DEF HasNoString, ReadHistory
<1>3. HasNoString(ListedFields) /\ HasNoString(MultipathFields)
  BY DEF HasNoString, ListedFields, MultipathFields
<1>4. HasNoString(ReadPath) /\ HasNoString(ReadAttempt)
  BY DEF HasNoString, ReadPath, ReadAttempt
<1>5. HasNoString(ReadCounters) /\ HasNoString(ReadStanding)
  BY DEF HasNoString, ReadCounters, ReadStanding
<1> QED
  BY <1>1, <1>2, <1>3, <1>4, <1>5

\* A flag before other fields is read.
LEMMA FlagGiven ==
  ASSUME NEW v \in 0..1, NEW after, IsFields(after), NEW read
  PROVE  LET t == [kind |-> "u8", value |-> v]
         IN  Get(Ready(<<t>> \o after, read), "flag", "present") = Ready(after, With(read, "present", v))
<1> DEFINE t == [kind |-> "u8", value |-> v]
<1>1. PICK T : after \in Seq(T)
  BY DEF IsFields
<1> DEFINE U == T \cup {t}
<1>2. t \in U /\ T \subseteq U
  OBVIOUS
<1>3. Takes(t, "flag") /\ t.value = v
  BY DEF Takes, Base, Known
<1> HIDE DEF U, t
<1>4. after \in Seq(U)
  BY <1>1, <1>2, SeqMonotonic
<1>5. Gets(<<t>> \o after, read, "flag", "present", after, t)
  BY <1>2, <1>3, <1>4, OneGiven
<1>6. Get(Ready(<<t>> \o after, read), "flag", "present") = Ready(after, With(read, "present", v))
  BY <1>3, <1>5, Zenon DEF Gets
<1> QED
  BY <1>6 DEF t

\* The reader goes on behind a slot map.
GetsOwners(rest, read, after, owners) ==
  GetOwners(Ready(rest, read)) = Ready(after, With(read, "owners", owners))

\* A slot map that was written is read, if it is of the selection space.
LEMMA OwnersGiven ==
  ASSUME NEW owners, HasList(owners, ListedFields), IsList(owners, ListedFields),
         ~(Len(owners) > MaxSpace), NEW after, IsFields(after), NEW read, IsMapping(read),
         owners # <<>> => Len(owners) = read.space
  PROVE  GetsOwners(PutSlots(owners) \o after, read, after, owners)
<1> DEFINE flag(v) == [kind |-> "u8", value |-> v]
           n == Len(owners)
           list == PutList(ListedFields, owners) \o after
           r == Ready(PutSlots(owners) \o after, read)
           flagged == Get(r, "flag", "present")
           sized == Get(flagged, "u32", "size")
           counted == Get(sized, "u32", "count")
<1>0. n \in Nat
  BY DEF HasList
<1>1. r.read = read
  BY DEF Ready
<1>2. CASE owners = <<>>
  <2>1. PutSlots(owners) = <<flag(0)>>
    BY <1>2 DEF PutSlots
  <2>2. Get(Ready(<<flag(0)>> \o after, read), "flag", "present") = Ready(after, With(read, "present", 0))
    BY FlagGiven
  <2>3. flagged = Ready(after, With(read, "present", 0))
    BY <2>1, <2>2, Zenon
  <2> HIDE DEF flagged, r
  <2>4. flagged.code = "Ok" /\ flagged.read.present = 0
    BY <2>3 DEF Ready, With
  <2> DEFINE w == With(read, "owners", <<>>)
  <2>5. GetMap(flagged, read) = [flagged EXCEPT !.read = w]
    BY <2>4, Zenon DEF GetMap
  <2> HIDE DEF w
  <2>6. [Ready(after, With(read, "present", 0)) EXCEPT !.read = w] = Ready(after, w)
    BY ReadySets
  <2>7. GetMap(flagged, read) = Ready(after, w)
    BY <2>3, <2>5, <2>6, Zenon
  <2>8. GetOwners(r) = GetMap(flagged, read)
    BY <1>1, Zenon DEF GetOwners, flagged
  <2> QED
    BY <1>2, <2>7, <2>8, Zenon DEF GetsOwners, r, w
<1>3. CASE owners # <<>>
  <2>1. PutSlots(owners) = (<<flag(1)>> \o Count(owners)) \o PutList(ListedFields, owners)
    BY <1>3, Zenon DEF PutSlots
  <2>2. IsFields(PutList(ListedFields, owners)) /\ IsFields(list)
    <3>1. IsWritten(ListedFields, 1)
      BY LayoutsWritten
    <3>2. IsFields(PutList(ListedFields, owners))
      BY <3>1, FieldsPutList
    <3> QED
      BY <3>2, FieldsJoin
  <2>3. IsFields(Count(owners)) /\ IsFields(Count(owners) \o list) /\ IsBody(list)
    <3>1. IsFields(Count(owners))
      BY <1>0, FieldCount
    <3> HIDE DEF list
    <3> QED
      BY <2>2, <3>1, FieldsJoin, FieldsAreBody
  <2>4. PutSlots(owners) \o after = <<flag(1)>> \o (Count(owners) \o list)
    <3> DEFINE a == <<flag(1)>>
               b == Count(owners)
               c == PutList(ListedFields, owners)
    <3>1. IsBody(a)
      <4> DEFINE C == {flag(1)}
      <4>1. a \in Seq(C) /\ \A t \in C : IsBodyToken(t)
        BY DEF IsBodyToken, IsPlain, IsField, Kinds
      <4> HIDE DEF C, a
      <4> QED
        BY <4>1 DEF IsBody
    <3>2. IsBody(b) /\ IsBody(c) /\ IsBody(after)
      BY <2>2, <2>3, FieldsAreBody
    <3> HIDE DEF a, b, c
    <3>3. IsBody(a \o b) /\ IsBody(c \o after)
      BY <3>1, <3>2, BodyJoin
    <3>4. AreJoined(a \o b, c, after)
      BY <3>2, <3>3, PartsJoined
    <3>5. AreJoined(a, b, c \o after)
      BY <3>1, <3>2, <3>3, PartsJoined
    <3> QED
      BY <2>1, <3>4, <3>5, Zenon DEF AreJoined, a, b, c
  <2>5. flagged = Ready(Count(owners) \o list, With(read, "present", 1))
    <3> HIDE DEF list
    <3>1. Get(Ready(<<flag(1)>> \o (Count(owners) \o list), read), "flag", "present")
            = Ready(Count(owners) \o list, With(read, "present", 1))
      BY <2>3, FlagGiven
    <3> QED
      BY <2>4, <3>1, Zenon
  <2>6. GetsList(list, read, "owners", ListedFields, MaxSpace, MinimumOwner, after, owners)
    <3>1. IsLayout(ListedFields, 1) /\ Matches(ListedFields, ListedFields)
      BY LayoutsAgree
    <3>2. HasNoString(ListedFields)
      BY ListsHaveNoString
    <3>3. IsWritten(ListedFields, 1)
      BY LayoutsWritten
    <3>4. HasUnit(ListedFields, owners, MinimumOwner)
      BY ListUnits
    <3>5. MinimumOwner \in Nat
      BY DEF MinimumOwner
    <3> QED
      BY <3>1, <3>2, <3>3, <3>4, <3>5, ListGiven
  <2>7. PICK f : IsFields(f) /\ list = Count(owners) \o f
    <3>1. IsWritten(ListedFields, 1)
      BY LayoutsWritten
    <3>2. list = Count(owners) \o (FlattenSeq(Entries(ListedFields, owners)) \o after)
          /\ IsFields(FlattenSeq(Entries(ListedFields, owners)) \o after)
      BY <3>1, ListParts
    <3> QED
      BY <3>2, Zenon
  <2> HIDE DEF list, flagged, r, sized, counted, n
  <2>8. flagged.code = "Ok" /\ flagged.read.present = 1
    BY <2>5 DEF Ready, With
  <2> DEFINE read1 == With(read, "present", 1)
             read2 == With(read1, "size", n)
  <2> HIDE DEF read1
  <2>9. sized = Ready(list, read2)
    <3>1. Get(Ready(Count(owners) \o list, read1), "u32", "size") = Ready(list, With(read1, "size", Len(owners)))
      BY <1>0, <2>3, CountGiven DEF n
    <3> QED
      BY <2>5, <3>1, Zenon DEF sized, read1, n
  <2>10. sized.read.size = n /\ sized.code = "Ok"
    BY <2>9 DEF Ready, With
  <2> HIDE DEF read2
  <2>11. counted = Ready(f, With(read2, "count", n))
    <3>1. IsBody(f)
      BY <2>7, FieldsAreBody
    <3>2. Get(Ready(Count(owners) \o f, read2), "u32", "count") = Ready(f, With(read2, "count", Len(owners)))
      BY <1>0, <3>1, CountGiven DEF n
    <3> QED
      BY <2>7, <2>9, <3>2, Zenon DEF counted, n
  <2>12. counted.code = "Ok" /\ counted.read.count = n
    BY <2>11 DEF Ready, With
  <2>13. [sized EXCEPT !.read = read] = Ready(list, read)
    <3>1. [Ready(list, read2) EXCEPT !.read = read] = Ready(list, read)
      BY ReadySets
    <3> QED
      BY <2>9, <3>1, Zenon
  <2>14. {sized.read.size, counted.read.count} = {read.space}
    BY <1>3, <2>10, <2>12 DEF n
  <2>15. GetSized(sized, read) = GetList(Ready(list, read), "owners", ListedFields, MaxSpace, MinimumOwner)
    BY <2>12, <2>13, <2>14, Zenon DEF GetSized, counted
  <2>16. GetMap(flagged, read) = GetSized(sized, read)
    <3>1. flagged.read.present # 0
      BY <2>8
    <3> QED
      BY <2>8, <3>1, Zenon DEF GetMap, sized
  <2>17. GetOwners(r) = GetMap(flagged, read)
    BY <1>1, Zenon DEF GetOwners, flagged, r
  <2> QED
    BY <2>6, <2>15, <2>16, <2>17, Zenon DEF GetsOwners, GetsList, r
<1> QED
  BY <1>2, <1>3

\* What is read under some names, and then under others, is read under all of them.
LEMMA OverThen ==
  ASSUME NEW read, NEW M, NEW N, NEW v
  PROVE  Over(Over(read, M, v), N, v) = Over(read, M \cup N, v)
BY DEF Over

\* A field read under its name.
LEMMA OverOne ==
  ASSUME NEW read, NEW name, NEW v
  PROVE  With(read, name, v[name]) = Over(read, {name}, v)
BY DEF Over, With

\* All the fields of v are v.
LEMMA OverAll ==
  ASSUME NEW names, NEW v, Exactly(v, names)
  PROVE  Over(<<>>, names, v) = v
<1>1. DOMAIN <<>> \cup names = names
  OBVIOUS
<1>2. [x \in names |-> IF x \in names THEN v[x] ELSE <<>>[x]] = [x \in names |-> v[x]]
  OBVIOUS
<1> QED
  BY <1>1, <1>2, Zenon DEF Over, Exactly

\* What was read maps names.
LEMMA ReadsAreMappings ==
  ASSUME NEW read, NEW names, NEW v, NEW name
  PROVE  IsMapping(Over(read, names, v)) /\ IsMapping(With(read, name, v)) /\ IsMapping(<<>>)
<1>1. IsMapping(Over(read, names, v))
  BY DEF IsMapping, Over
<1>2. IsMapping(With(read, name, v))
  BY DEF IsMapping, With
<1> QED
  BY <1>1, <1>2 DEF IsMapping

\* Nothing behind a sequence.
LEMMA NothingBehind ==
  ASSUME NEW s, IsFields(s)
  PROVE  s \o <<>> = s /\ IsFields(<<>>)
<1>1. PICK T : s \in Seq(T) /\ \A t \in T : IsPlain(t)
  BY DEF IsFields
<1>2. <<>> \in Seq(T) /\ s \o <<>> = s
  BY <1>1
<1> QED
  BY <1>1, <1>2 DEF IsFields

\* The fields of a layout are read, without more about the tokens.
LEMMA LayoutGiven ==
  ASSUME NEW layout, NEW n \in Nat, IsLayout(layout, n), NEW write, IsWritten(write, n),
         Matches(write, layout), NEW v, HasFields(v, write), IsKnown(v, layout), IsShort(v, layout),
         NEW after, IsBody(after), NEW read, IsMapping(read)
  PROVE  GetsAll(Put(write, v) \o after, read, layout, after, v)
<1>1. IsBody(Put(write, v))
  BY FieldsPut
<1>2. PICK S : Put(write, v) \in Seq(S)
  BY <1>1 DEF IsBody
<1>3. PICK T : after \in Seq(T)
  BY DEF IsBody
<1> DEFINE U == S \cup T
<1>4. S \subseteq U /\ T \subseteq U
  OBVIOUS
<1> HIDE DEF U
<1>5. Put(write, v) \in Seq(U) /\ after \in Seq(U)
  BY <1>2, <1>3, <1>4, SeqMonotonic
<1> QED
  BY <1>5, FieldsGiven

\* The strings of a record within the limit of records are within the limit of the reader.
LEMMA ShortFields ==
  ASSUME NEW layout, NEW n \in Nat, IsLayout(layout, n), NEW write, IsWritten(write, n),
         Matches(write, layout), NEW v, HasFields(v, write), Size(Put(write, v)) <= MaxRecord
  PROVE  IsShort(v, layout)
<1> DEFINE p == Put(write, v)
           f == [i \in DOMAIN p |-> TokenSize(p[i])]
<1>1. /\ DOMAIN layout = 1..n /\ DOMAIN write = 1..n
      /\ \A i \in 1..n : write[i][1] = Base(layout[i][1]) /\ write[i][2] = layout[i][2]
  BY DEF IsLayout, Matches
<1>2. DOMAIN p = 1..n /\ \A i \in 1..n : p[i].kind = write[i][1] /\ p[i].value = v[layout[i][2]]
  BY <1>1 DEF Put
<1>3. \A i \in 1..n : IsPlain(p[i])
  BY FieldsPut
<1>4. Size(p) = Total(f)
  BY DEF Size
<1> HIDE DEF p
<1>5. \A i \in 1..n : FieldSize(p[i]) \in Nat /\ TokenSize(p[i]) = FieldSize(p[i])
  BY <1>3, FieldHasSize
<1>6. f \in [1..n -> Nat] /\ \A i \in 1..n : f[i] = FieldSize(p[i])
  BY <1>2, <1>5
<1> HIDE DEF f
<1>7. \A i \in 1..n : f[i] <= Size(p)
  BY <1>4, <1>6, TotalHas
<1>8. ASSUME NEW i \in 1..n, layout[i][1] = "string" PROVE ~(v[layout[i][2]] > MaxRecord)
  <2>1. p[i].kind = "string" /\ p[i].kind \notin {"digest", "record"}
    BY <1>1, <1>2, <1>8 DEF Base, Known
  <2>2. p[i].value \in Nat
    BY <1>3, <2>1 DEF IsPlain, IsField
  <2>3. f[i] = 4 + p[i].value
    BY <1>6, <2>1 DEF FieldSize
  <2>4. 4 + p[i].value <= Size(p) /\ Size(p) <= MaxRecord
    BY <1>7, <2>3 DEF p
  <2>5. Size(p) \in Nat /\ MaxRecord \in Nat
    <3>1. IsFields(Put(write, v))
      BY FieldsPut
    <3> QED
      BY <3>1, RecordHasSize, LimitsAssumption DEF p
  <2>6. ~(p[i].value > MaxRecord)
    BY <2>2, <2>4, <2>5
  <2> QED
    BY <1>2, <2>6
<1> QED
  BY <1>1, <1>8 DEF IsShort

\* A part of a record is within the limit of records.
LEMMA PartFits ==
  ASSUME NEW a, NEW b, IsFields(a), IsFields(b), FieldsSize(a \o b) <= MaxRecord
  PROVE  Size(a) <= MaxRecord
<1>1. IsSized(a) /\ IsSized(b) /\ IsFields(a \o b)
  BY RecordHasSize, FieldsJoin
<1>2. Size(a \o b) = Size(a) + Size(b) /\ Size(a) \in Nat /\ Size(b) \in Nat
  BY <1>1, SizeJoin
<1>3. FieldsSize(a \o b) = Size(a \o b)
  BY <1>1, RecordHasSize
<1> QED
  BY <1>2, <1>3, LimitsAssumption

\* A set that the encoder does not refuse.
SetFits(set) ==
  /\ Len(set.members) <= MaxMembers /\ Len(set.history) <= MaxHistory
  /\ Len(set.owners) <= MaxSpace /\ FieldsSize(SetRecord(set)) <= MaxRecord

\* Layouts of which no field is of a string.
LEMMA NoStringIsShort ==
  ASSUME NEW layout, HasNoString(layout), NEW v
  PROVE  IsShort(v, layout)
BY DEF IsShort, HasNoString

\* The parts of a set record, one behind the other.
SetParts(set) ==
  Put(SetFields, set) \o (PutList(MemberFields, set.members) \o (PutSlots(set.owners)
    \o (Put(StandingFields, set) \o (PutList(HistoryFields, set.history) \o <<>>))))

\* A set record is made of them.
LEMMA SetRecordParts ==
  ASSUME NEW set, HasSet(set)
  PROVE  /\ SetRecord(set) = SetParts(set)
         /\ IsFields(Put(SetFields, set)) /\ IsFields(PutList(MemberFields, set.members))
         /\ IsFields(PutSlots(set.owners)) /\ IsFields(Put(StandingFields, set))
         /\ IsFields(PutList(HistoryFields, set.history))
<1> DEFINE a == Put(SetFields, set)
           b == PutList(MemberFields, set.members)
           c == PutSlots(set.owners)
           d == Put(StandingFields, set)
           e == PutList(HistoryFields, set.history)
<1>1. IsFields(a) /\ IsFields(d)
  <2>1. IsWritten(SetFields, 16) /\ IsWritten(StandingFields, 7)
    BY LayoutsWritten
  <2>2. HasFields(set, SetFields) /\ HasFields(set, StandingFields)
    BY DEF HasSet
  <2> QED
    BY <2>1, <2>2, FieldsPut
<1>2. IsFields(b) /\ IsFields(e)
  <2>1. IsWritten(MemberFields, 11) /\ IsWritten(HistoryFields, 10)
    BY LayoutsWritten
  <2>2. HasList(set.members, MemberFields) /\ HasList(set.history, HistoryFields)
    BY DEF HasSet
  <2> QED
    BY <2>1, <2>2, FieldsPutList
<1>3. IsFields(c)
  BY FieldsPutSlots DEF HasSet
<1>4. SetRecord(set) = (((a \o b) \o c) \o d) \o e
  BY Zenon DEF SetRecord
<1>5. SetParts(set) = a \o (b \o (c \o (d \o (e \o <<>>))))
  BY Zenon DEF SetParts
<1> HIDE DEF a, b, c, d, e
<1>6. IsBody(a) /\ IsBody(b) /\ IsBody(c) /\ IsBody(d) /\ IsBody(e)
  BY <1>1, <1>2, <1>3, FieldsAreBody
<1>7. e \o <<>> = e
  BY <1>2, NothingBehind
<1>8. IsBody(a \o b) /\ IsBody((a \o b) \o c) /\ IsBody(d \o e) /\ IsBody(c \o (d \o e))
  <2>1. IsBody(a \o b) /\ IsBody(d \o e)
    BY <1>6, BodyJoin
  <2> QED
    BY <1>6, <2>1, BodyJoin
<1>9. AreJoined((a \o b) \o c, d, e)
  BY <1>6, <1>8, PartsJoined
<1>10. AreJoined(a \o b, c, d \o e)
  BY <1>6, <1>8, PartsJoined
<1>11. AreJoined(a, b, c \o (d \o e))
  BY <1>6, <1>8, PartsJoined
<1>12. SetRecord(set) = SetParts(set)
  BY <1>4, <1>5, <1>7, <1>9, <1>10, <1>11, Zenon DEF AreJoined
<1> QED
  BY <1>1, <1>2, <1>3, <1>12, Zenon DEF a, b, c, d, e

\* The decoder of a collection gives the entry that its record was written of.
GivesEntry(name, e) == DecodeEntry(name, Written(name, e)) = Ready(<<>>, e)

\* A set record that was written is read: with its least sizes, its limits, and a slot
\* map of its selection space.
LEMMA SetGiven ==
  ASSUME NEW set, HasSet(set), IsSet(set), ValidSet(set), SetFits(set)
  PROVE  GivesEntry("sets", set)
<1> DEFINE a == Put(SetFields, set)
           b == PutList(MemberFields, set.members)
           c == PutSlots(set.owners)
           d == Put(StandingFields, set)
           e == PutList(HistoryFields, set.history)
           x4 == e \o <<>>
           x3 == d \o x4
           x2 == c \o x3
           x1 == b \o x2
           M1 == Names(ReadSetHead)
           M2 == M1 \cup {"members"}
           M3 == M2 \cup {"owners"}
           M4 == M3 \cup Names(ReadStanding)
           M5 == M4 \cup {"history"}
           read(M) == Over(<<>>, M, set)
<1>1. /\ SetRecord(set) = a \o x1 /\ IsFields(a) /\ IsFields(b) /\ IsFields(c) /\ IsFields(d)
      /\ IsFields(e)
  <2>1. SetParts(set) = a \o x1
    BY Zenon DEF SetParts
  <2> QED
    BY <2>1, SetRecordParts, Zenon
<1> HIDE DEF a, b, c, d, e
<1>2. IsFields(x1) /\ IsFields(x2) /\ IsFields(x3) /\ IsFields(x4) /\ IsFields(<<>>)
  <2>1. IsFields(<<>>) /\ IsFields(x4)
    BY <1>1, NothingBehind
  <2> HIDE DEF x4
  <2>2. IsFields(x3)
    BY <1>1, <2>1, FieldsJoin
  <2> HIDE DEF x3
  <2>3. IsFields(x2)
    BY <1>1, <2>2, FieldsJoin
  <2> HIDE DEF x2
  <2>4. IsFields(x1)
    BY <1>1, <2>3, FieldsJoin
  <2> QED
    BY <2>1, <2>2, <2>3, <2>4
<1>3. /\ IsMapping(<<>>) /\ \A M : IsMapping(read(M))
      /\ \A M, N : Over(read(M), N, set) = read(M \cup N)
      /\ \A M, name : With(read(M), name, set[name]) = read(M \cup {name})
  <2>1. \A M, N : Over(read(M), N, set) = read(M \cup N)
    BY OverThen
  <2>2. \A M, name : With(read(M), name, set[name]) = read(M \cup {name})
    <3> TAKE M, name
    <3> DEFINE w == read(M)
    <3>1. Over(w, {name}, set) = read(M \cup {name})
      BY <2>1
    <3> HIDE DEF w
    <3>2. With(w, name, set[name]) = Over(w, {name}, set)
      BY OverOne
    <3> QED
      BY <3>1, <3>2, Zenon DEF w
  <2> QED
    BY <2>1, <2>2, ReadsAreMappings
<1>4. /\ IsEntry(set, ReadSetHead, Names(ReadStanding) \cup {"members", "owners", "history"})
      /\ IsKnown(set, ReadStanding) /\ IsKnown(set, ReadSetHead)
      /\ IsList(set.members, ReadMember) /\ IsList(set.owners, ListedFields)
      /\ IsList(set.history, ReadHistory) /\ (set.owners = <<>> \/ Len(set.owners) = set.space)
  BY DEF IsSet, IsEntry
<1>5. /\ HasFields(set, SetFields) /\ HasList(set.members, MemberFields)
      /\ HasList(set.owners, ListedFields) /\ HasFields(set, StandingFields)
      /\ HasList(set.history, HistoryFields)
  BY DEF HasSet
<1>6. /\ ~(Len(set.members) > MaxMembers) /\ ~(Len(set.owners) > MaxSpace)
      /\ ~(Len(set.history) > MaxHistory)
  <2>1. Len(set.members) \in Nat /\ Len(set.owners) \in Nat /\ Len(set.history) \in Nat
    BY <1>5 DEF HasList
  <2> QED
    BY <2>1, LimitsAssumption DEF SetFits
<1> DEFINE r1 == GetAll(Ready(SetRecord(set), <<>>), ReadSetHead)
           r2 == GetMembers(r1)
           r3 == GetOwners(r2)
           r4 == GetAll(r3, ReadStanding)
           r5 == GetHistory(r4)
<1> HIDE DEF x1, x2, x3, x4, M1, M2, M3, M4, M5, read
<1>7. r1 = Ready(x1, read(M1))
  <2>1. IsLayout(ReadSetHead, 16) /\ Matches(SetFields, ReadSetHead)
    BY LayoutsAgree
  <2>2. IsWritten(SetFields, 16)
    BY LayoutsWritten
  <2>3. Size(a) <= MaxRecord
    <3>1. FieldsSize(a \o x1) <= MaxRecord
      BY <1>1 DEF SetFits
    <3> QED
      BY <1>1, <1>2, <3>1, PartFits
  <2>4. IsShort(set, ReadSetHead)
    BY <1>5, <2>1, <2>2, <2>3, ShortFields DEF a
  <2>5. IsBody(x1)
    BY <1>2, FieldsAreBody
  <2>6. GetsAll(a \o x1, <<>>, ReadSetHead, x1, set)
    BY <1>3, <1>4, <1>5, <2>1, <2>2, <2>4, <2>5, LayoutGiven DEF a
  <2> QED
    BY <1>1, <2>6, Zenon DEF GetsAll, read, M1
<1> HIDE DEF r1
<1>8. r1.code = "Ok" /\ r1.read.space = set.space /\ set.space # 0
  <2>1. "space" \in M1
    BY LayoutsApart DEF M1
  <2>2. read(M1)["space"] = set["space"]
    BY <2>1 DEF read, Over
  <2>3. set["space"] # 0
    BY DEF ValidSet
  <2> QED
    BY <1>7, <2>2, <2>3 DEF Ready
<1>9. r2 = Ready(x2, read(M2))
  <2>1. r2 = GetList(r1, "members", ReadMember, MaxMembers, MinimumMember)
    BY <1>8, Zenon DEF GetMembers
  <2>2. IsLayout(ReadMember, 11) /\ Matches(MemberFields, ReadMember)
    BY LayoutsAgree
  <2>3. HasNoString(ReadMember)
    BY ListsHaveNoString
  <2>4. IsWritten(MemberFields, 11)
    BY LayoutsWritten
  <2>5. HasUnit(MemberFields, set.members, MinimumMember)
    BY <1>5, ListUnits
  <2>6. MinimumMember \in Nat
    BY DEF MinimumMember
  <2> DEFINE w == read(M1)
  <2>7. IsMapping(w)
    BY <1>3
  <2> HIDE DEF w
  <2>8. GetsList(b \o x2, w, "members", ReadMember, MaxMembers, MinimumMember, x2, set.members)
    BY <1>2, <1>4, <1>5, <1>6, <2>2, <2>3, <2>4, <2>5, <2>6, <2>7, ListGiven DEF b
  <2>9. With(w, "members", set["members"]) = read(M2)
    BY <1>3, Zenon DEF w, M2
  <2> QED
    BY <1>7, <2>1, <2>8, <2>9, Zenon DEF GetsList, w, x1
<1> HIDE DEF r2
<1>10. r3 = Ready(x3, read(M3))
  <2> DEFINE w == read(M2)
  <2>1. IsMapping(w)
    BY <1>3
  <2>2. w.space = set.space
    <3>1. "space" \in M2
      BY LayoutsApart DEF M1, M2
    <3> QED
      BY <3>1 DEF read, Over
  <2> HIDE DEF w
  <2>3. set.owners # <<>> => Len(set.owners) = w.space
    BY <1>4, <2>2
  <2>4. GetsOwners(c \o x3, w, x3, set.owners)
    BY <1>2, <1>4, <1>5, <1>6, <2>1, <2>3, OwnersGiven DEF c
  <2>5. With(w, "owners", set["owners"]) = read(M3)
    BY <1>3, Zenon DEF w, M3
  <2> QED
    BY <1>9, <2>4, <2>5, Zenon DEF GetsOwners, w, x2
<1> HIDE DEF r3
<1>11. r4 = Ready(x4, read(M4))
  <2>1. IsLayout(ReadStanding, 7) /\ Matches(StandingFields, ReadStanding)
    BY LayoutsAgree
  <2>2. IsWritten(StandingFields, 7)
    BY LayoutsWritten
  <2>3. IsShort(set, ReadStanding)
    BY ListsHaveNoString, NoStringIsShort
  <2>4. IsBody(x4)
    BY <1>2, FieldsAreBody
  <2> DEFINE w == read(M3)
  <2>5. IsMapping(w)
    BY <1>3
  <2> HIDE DEF w
  <2>6. GetsAll(d \o x4, w, ReadStanding, x4, set)
    BY <1>4, <1>5, <2>1, <2>2, <2>3, <2>4, <2>5, LayoutGiven DEF d
  <2>7. Over(w, Names(ReadStanding), set) = read(M4)
    BY <1>3, Zenon DEF w, M4
  <2> QED
    BY <1>10, <2>6, <2>7, Zenon DEF GetsAll, w, x3
<1> HIDE DEF r4
<1>12. r5 = Ready(<<>>, read(M5))
  <2>1. r5 = GetList(r4, "history", ReadHistory, MaxHistory, MinimumHistory)
    BY Zenon DEF GetHistory
  <2>2. IsLayout(ReadHistory, 10) /\ Matches(HistoryFields, ReadHistory)
    BY LayoutsAgree
  <2>3. HasNoString(ReadHistory)
    BY ListsHaveNoString
  <2>4. IsWritten(HistoryFields, 10)
    BY LayoutsWritten
  <2>5. HasUnit(HistoryFields, set.history, MinimumHistory)
    BY <1>5, ListUnits
  <2>6. MinimumHistory \in Nat
    BY DEF MinimumHistory
  <2> DEFINE w == read(M4)
             none == <<>>
  <2>7. IsMapping(w) /\ IsFields(none)
    BY <1>2, <1>3
  <2> HIDE DEF w, none
  <2>8. GetsList(e \o none, w, "history", ReadHistory, MaxHistory, MinimumHistory, none, set.history)
    BY <1>4, <1>5, <1>6, <2>2, <2>3, <2>4, <2>5, <2>6, <2>7, ListGiven DEF e
  <2>9. With(w, "history", set["history"]) = read(M5)
    BY <1>3, Zenon DEF w, M5
  <2> QED
    BY <1>11, <2>1, <2>8, <2>9, Zenon DEF GetsList, w, none, x4
<1>13. read(M5) = set
  <2>1. Exactly(set, M1 \cup (Names(ReadStanding) \cup {"members", "owners", "history"}))
    BY <1>4, Zenon DEF IsEntry, M1
  <2>2. M1 \cup (Names(ReadStanding) \cup {"members", "owners", "history"}) = M5
    BY DEF M2, M3, M4, M5
  <2>3. Exactly(set, M5)
    BY <2>1, <2>2, Zenon
  <2> QED
    BY <2>3, OverAll DEF read
<1>14. Reader(SetRecord(set)) = Ready(SetRecord(set), <<>>)
  BY Zenon DEF Reader, Ready
<1>15. DecodeSet(SetRecord(set)) = r5
  BY <1>14, Zenon DEF DecodeSet, r1, r2, r3, r4
<1>16. DecodeSet(SetRecord(set)) = Ready(<<>>, set)
  BY <1>12, <1>13, <1>15, Zenon
<1>17. DecodeEntry("sets", Written("sets", set)) = DecodeSet(SetRecord(set))
  BY DEF DecodeEntry, Written
<1> QED
  BY <1>16, <1>17, Zenon DEF GivesEntry

\* A record of a layout alone is read.
LEMMA RecordGiven ==
  ASSUME NEW layout, NEW n \in Nat, IsLayout(layout, n), NEW write, IsWritten(write, n),
         Matches(write, layout), NEW v, HasFields(v, write), IsEntry(v, layout, {}), IsShort(v, layout)
  PROVE  GetAll(Reader(Put(write, v)), layout) = Ready(<<>>, v)
<1> DEFINE none == <<>>
           N == Names(layout)
<1>1. IsFields(Put(write, v)) /\ Put(write, v) \o <<>> = Put(write, v) /\ IsFields(<<>>)
  BY FieldsPut, NothingBehind
<1>2. IsMapping(none) /\ IsBody(none)
  BY <1>1, ReadsAreMappings, FieldsAreBody
<1> HIDE DEF none
<1>3. GetsAll(Put(write, v) \o none, none, layout, none, v)
  BY <1>2, LayoutGiven DEF IsEntry
<1>4. Exactly(v, N)
  <2>1. N \cup {} = N
    OBVIOUS
  <2> QED
    BY <2>1, Zenon DEF IsEntry
<1>5. Over(<<>>, N, v) = v
  BY <1>4, OverAll
<1>6. Reader(Put(write, v)) = Ready(Put(write, v), <<>>)
  BY Zenon DEF Reader, Ready
<1> QED
  BY <1>1, <1>3, <1>5, <1>6, Zenon DEF GetsAll, none

\* So are a path, a publisher and an attempt.
LEMMA PlainGiven ==
  /\ \A v : HasFields(v, PathFields) /\ IsEntry(v, ReadPath, {}) => GivesEntry("paths", v)
  /\ \A v : HasFields(v, AttemptFields) /\ IsEntry(v, ReadAttempt, {}) => GivesEntry("attempts", v)
  /\ \A v : /\ HasFields(v, PublisherFields) /\ IsEntry(v, ReadPublisher, {})
            /\ FieldsSize(Put(PublisherFields, v)) <= MaxRecord
            => GivesEntry("publishers", v)
<1>1. ASSUME NEW v, HasFields(v, PathFields), IsEntry(v, ReadPath, {}) PROVE GivesEntry("paths", v)
  <2>1. IsLayout(ReadPath, 3) /\ Matches(PathFields, ReadPath)
    BY LayoutsAgree
  <2>2. IsWritten(PathFields, 3) /\ IsShort(v, ReadPath)
    BY LayoutsWritten, ListsHaveNoString, NoStringIsShort
  <2>3. GetAll(Reader(Put(PathFields, v)), ReadPath) = Ready(<<>>, v)
    BY <1>1, <2>1, <2>2, RecordGiven
  <2>4. DecodeEntry("paths", Written("paths", v)) = GetAll(Reader(Put(PathFields, v)), ReadPath)
    BY DEF DecodeEntry, Written, DecodePath
  <2> QED
    BY <2>3, <2>4, Zenon DEF GivesEntry
<1>2. ASSUME NEW v, HasFields(v, AttemptFields), IsEntry(v, ReadAttempt, {}) PROVE GivesEntry("attempts", v)
  <2>1. IsLayout(ReadAttempt, 6) /\ Matches(AttemptFields, ReadAttempt)
    BY LayoutsAgree
  <2>2. IsWritten(AttemptFields, 6) /\ IsShort(v, ReadAttempt)
    BY LayoutsWritten, ListsHaveNoString, NoStringIsShort
  <2>3. GetAll(Reader(Put(AttemptFields, v)), ReadAttempt) = Ready(<<>>, v)
    BY <1>2, <2>1, <2>2, RecordGiven
  <2>4. DecodeEntry("attempts", Written("attempts", v)) = GetAll(Reader(Put(AttemptFields, v)), ReadAttempt)
    BY DEF DecodeEntry, Written, DecodeAttempt
  <2> QED
    BY <2>3, <2>4, Zenon DEF GivesEntry
<1>3. ASSUME NEW v, HasFields(v, PublisherFields), IsEntry(v, ReadPublisher, {}),
             FieldsSize(Put(PublisherFields, v)) <= MaxRecord
      PROVE  GivesEntry("publishers", v)
  <2>1. IsLayout(ReadPublisher, 9) /\ Matches(PublisherFields, ReadPublisher)
    BY LayoutsAgree
  <2>2. IsWritten(PublisherFields, 9)
    BY LayoutsWritten
  <2>3. Size(Put(PublisherFields, v)) <= MaxRecord
    <3>1. IsFields(Put(PublisherFields, v))
      BY <1>3, <2>2, FieldsPut
    <3> QED
      BY <1>3, <3>1, RecordHasSize
  <2>4. IsShort(v, ReadPublisher)
    BY <1>3, <2>1, <2>2, <2>3, ShortFields
  <2>5. GetAll(Reader(Put(PublisherFields, v)), ReadPublisher) = Ready(<<>>, v)
    BY <1>3, <2>1, <2>2, <2>4, RecordGiven
  <2>6. DecodeEntry("publishers", Written("publishers", v)) = GetAll(Reader(Put(PublisherFields, v)), ReadPublisher)
    BY DEF DecodeEntry, Written, DecodePublisher
  <2> QED
    BY <2>5, <2>6, Zenon DEF GivesEntry
<1> QED
  BY <1>1, <1>2, <1>3

\* A multipath record that was written is read: what remains bounds its list.
LEMMA MultipathGiven ==
  ASSUME NEW v, HasFields(v, MultipathFields), HasList(v.members, ListedFields),
         IsEntry(v, MultipathFields, {"members"}), IsList(v.members, ListedFields)
  PROVE  GivesEntry("multipath", v)
<1> DEFINE a == Put(MultipathFields, v)
           none == <<>>
           x == PutList(ListedFields, v.members) \o none
           f == FlattenSeq(Entries(ListedFields, v.members)) \o none
           N == Names(MultipathFields)
           w == Over(none, N, v)
           m == Len(v.members)
<1>1. IsWritten(MultipathFields, 2) /\ IsWritten(ListedFields, 1)
  BY LayoutsWritten
<1>2. IsFields(a) /\ IsFields(PutList(ListedFields, v.members)) /\ IsFields(none)
  BY <1>1, FieldsPut, FieldsPutList, NothingBehind
<1>3. IsFields(x) /\ x = PutList(ListedFields, v.members) /\ IsMapping(none) /\ IsMapping(w)
  BY <1>2, NothingBehind, ReadsAreMappings
<1>4. m \in Nat
  BY DEF HasList
<1>5. MultipathRecord(v) = a \o x
  BY <1>3, Zenon DEF MultipathRecord
<1>6. x = Count(v.members) \o f /\ IsFields(f)
  <2> HIDE DEF none
  <2> QED
    BY <1>1, <1>2, ListParts
<1>7. ~(m > Size(x))
  <2> HIDE DEF none
  <2>1. PICK T : IsListed(T, ListedFields, v.members, none)
    BY <1>1, <1>2, ListedTokens
  <2>2. MinimumOwner \in Nat /\ HasUnit(ListedFields, v.members, MinimumOwner)
    BY ListUnits DEF MinimumOwner
  <2>3. FitsListed(ListedFields, v.members, none, MinimumOwner)
    BY <2>1, <2>2, ListedFits
  <2>4. m * 8 <= Size(f)
    BY <2>3, Zenon DEF FitsListed, MinimumOwner
  <2> HIDE DEF x, f, m
  <2>5. IsSized(f) /\ IsSized(Count(v.members))
    BY <1>4, <1>6, FieldCount, RecordHasSize DEF m
  <2>6. Size(x) = Size(Count(v.members)) + Size(f) /\ Size(Count(v.members)) \in Nat /\ Size(f) \in Nat
    BY <1>6, <2>5, SizeJoin
  <2> QED
    BY <1>4, <2>4, <2>6
<1> HIDE DEF a, none, x, f, w, m
<1> DEFINE r1 == GetAll(Reader(MultipathRecord(v)), MultipathFields)
<1>8. r1 = Ready(x, w)
  <2>1. IsLayout(MultipathFields, 2) /\ Matches(MultipathFields, MultipathFields)
    BY LayoutsAgree
  <2>2. IsShort(v, MultipathFields)
    BY ListsHaveNoString, NoStringIsShort
  <2>3. IsKnown(v, MultipathFields) /\ IsBody(x)
    BY <1>3, FieldsAreBody DEF IsEntry
  <2>4. GetsAll(a \o x, none, MultipathFields, x, v)
    BY <1>1, <1>3, <2>1, <2>2, <2>3, LayoutGiven DEF a
  <2>5. Reader(MultipathRecord(v)) = Ready(MultipathRecord(v), none)
    BY Zenon DEF Reader, Ready, none
  <2> QED
    BY <1>5, <2>4, <2>5, Zenon DEF GetsAll, w
<1> HIDE DEF r1
<1>9. Unlimited(r1) = Size(x)
  <2>1. r1.rest = x
    BY <1>8 DEF Ready
  <2> QED
    BY <2>1, Zenon DEF Unlimited
<1>10. GetListed(r1) = Ready(none, With(w, "members", v["members"]))
  <2>1. IsLayout(ListedFields, 1) /\ Matches(ListedFields, ListedFields)
    BY LayoutsAgree
  <2>2. HasNoString(ListedFields)
    BY ListsHaveNoString
  <2>3. MinimumOwner \in Nat /\ HasUnit(ListedFields, v.members, MinimumOwner)
    BY ListUnits DEF MinimumOwner
  <2> DEFINE limit == Size(x)
  <2>4. ~(Len(v.members) > limit)
    BY <1>7 DEF m
  <2> HIDE DEF limit
  <2>5. GetsList(PutList(ListedFields, v.members) \o none, w, "members", ListedFields, limit, MinimumOwner,
                 none, v.members)
    BY <1>1, <1>2, <1>3, <2>1, <2>2, <2>3, <2>4, ListGiven
  <2> QED
    BY <1>8, <1>9, <2>5, Zenon DEF GetsList, GetListed, limit, x
<1>11. With(w, "members", v["members"]) = v
  <2>1. With(w, "members", v["members"]) = Over(w, {"members"}, v)
    BY OverOne
  <2>2. Over(w, {"members"}, v) = Over(<<>>, N \cup {"members"}, v)
    BY OverThen DEF w, none
  <2> HIDE DEF N
  <2>3. Over(<<>>, N \cup {"members"}, v) = v
    BY OverAll DEF IsEntry, N
  <2> QED
    BY <2>1, <2>2, <2>3, Zenon
<1>12. DecodeEntry("multipath", Written("multipath", v)) = GetListed(r1)
  BY DEF DecodeEntry, Written, DecodeMultipath, r1
<1> QED
  BY <1>10, <1>11, <1>12, Zenon DEF GivesEntry, none

----------------------------------------------------------------------------
(* Reading the records of a collection.                                     *)

\* An entry is taken behind others.
IsTakeable(name, e) ==
  /\ GivesEntry(name, e) /\ ValidEntry(name, e) /\ ~(FieldsSize(Written(name, e)) > MaxRecord)
IsUnlike(name, e, others) == \A o \in others : EntryKeys(name, o) \cap EntryKeys(name, e) = {}

\* The reader goes on behind a record, with its entry behind those of the name.
GetsRecord(rest, read, name, after, e) ==
  GetRecord(Ready(rest, read), name) = Ready(after, [read EXCEPT ![name] = Append(@, e)])

\* A record that was written of an entry unlike the others is taken.
LEMMA TokenGiven ==
  ASSUME NEW name, NEW e, IsTakeable(name, e), NEW rest, rest # <<>>, Head(rest) = RecordToken(name, e),
         NEW read, IsUnlike(name, e, Range(read[name]))
  PROVE  GetsRecord(rest, read, name, Tail(rest), e)
<1> DEFINE r == Ready(rest, read)
           tokens == Written(name, e)
           entry == DecodeEntry(name, tokens)
           appended == [read EXCEPT ![name] = Append(@, e)]
<1>1. r.code = "Ok" /\ r.rest = rest /\ r.read = read
  BY DEF Ready
<1>2. Head(rest).kind = "record" /\ Head(rest).value = tokens
  BY DEF RecordToken
<1>3. entry = Ready(<<>>, e)
  BY Zenon DEF IsTakeable, GivesEntry
<1> HIDE DEF tokens, entry
<1>4. entry.code = "Ok" /\ entry.read = e /\ entry.rest = <<>>
  BY <1>3 DEF Ready
<1>5. Consumed(entry) /\ ValidEntry(name, entry.read)
  BY <1>4 DEF Consumed, IsTakeable
<1> HIDE DEF r
<1>6. GetRecord(r, name) = Taken(r, name, entry)
  <2>1. ~(FieldsSize(Head(r.rest).value) > MaxRecord)
    BY <1>1, <1>2, Zenon DEF IsTakeable, tokens
  <2>2. r.rest # <<>> /\ Head(r.rest).kind = "record" /\ Head(r.rest).value = tokens
    BY <1>1, <1>2, Zenon
  <2> QED
    BY <1>1, <2>1, <2>2, Zenon DEF GetRecord, entry
<1>7. ~(\E o \in Range(r.read[name]) : EntryKeys(name, o) \cap EntryKeys(name, entry.read) # {})
  BY <1>1, <1>4, Zenon DEF IsUnlike
<1>8. Taken(r, name, entry) = [r EXCEPT !.rest = Tail(@), !.read[name] = Append(@, entry.read)]
  BY <1>4, <1>5, <1>7, Zenon DEF Taken
<1>9. [r EXCEPT !.rest = Tail(@), !.read[name] = Append(@, entry.read)] = Ready(Tail(rest), appended)
  <2>1. [r EXCEPT !.rest = Tail(@), !.read[name] = Append(@, entry.read)]
          = [r EXCEPT !.rest = Tail(rest), !.read = appended]
    <3> DEFINE x == Append(read[name], e)
               y == Tail(rest)
    <3>1. [r EXCEPT !.rest = Tail(@), !.read[name] = Append(@, entry.read)]
            = [r EXCEPT !.rest = y, !.read[name] = x]
      BY <1>1, <1>4, Zenon
    <3>2. appended = [read EXCEPT ![name] = x]
      BY Zenon
    <3> HIDE DEF x, y, appended
    <3>3. [r EXCEPT !.rest = y, !.read[name] = x] = [r EXCEPT !.rest = y, !.read = appended]
      BY <1>1, <3>2
    <3> QED
      BY <3>1, <3>3, Zenon DEF y
  <2> DEFINE z == [r EXCEPT !.rest = Tail(rest), !.read = appended]
             t == Tail(rest)
  <2>2. z = Ready(t, appended)
    <3> HIDE DEF t, appended
    <3>1. Moves(Ready(rest, read), t, appended)
      BY ReadyMoves
    <3> QED
      BY <3>1, Zenon DEF Moves, r, t
  <2> QED
    BY <2>1, <2>2, Zenon
<1> QED
  BY <1>6, <1>8, <1>9, Zenon DEF GetsRecord, r

\* The reader goes on behind the records of a collection, with its entries under the name.
GetsRecords(rest, read, name, after, es) ==
  RecordLoop(Ready(rest, read), name, Len(es)) = Ready(after, [read EXCEPT ![name] = es])

\* Each entry of a collection is taken behind those before it.
AreTakeable(name, es) ==
  \A i \in DOMAIN es :
    /\ IsTakeable(name, es[i])
    /\ \A j \in 1..(i - 1) : EntryKeys(name, es[j]) \cap EntryKeys(name, es[i]) = {}

\* The records of a collection that was written are taken.
LEMMA RecordsGiven ==
  ASSUME NEW B, NEW E, NEW name, NEW es \in Seq(E), AreTakeable(name, es),
         RecordTokens(name, es) \in Seq(B), NEW after \in Seq(B),
         NEW read, IsMapping(read), name \in DOMAIN read, read[name] = <<>>
  PROVE  GetsRecords(RecordTokens(name, es) \o after, read, name, after, es)
<1> DEFINE n == Len(es)
           p == RecordTokens(name, es)
           all == p \o after
           from(i) == SubSeq(all, i + 1, Len(all))
           upto(i) == [read EXCEPT ![name] = SubSeq(es, 1, i)]
           r == Ready(all, read)
<1>1. n \in Nat /\ DOMAIN es = 1..n
  OBVIOUS
<1>2. DOMAIN p = 1..n /\ \A i \in 1..n : p[i] = RecordToken(name, es[i])
  BY <1>1 DEF RecordTokens
<1> HIDE DEF n
<1>3. /\ all \in Seq(B) /\ Len(all) = n + Len(after) /\ Len(after) \in Nat
      /\ (\A i \in 1..n : all[i] = p[i]) /\ \A i \in 1..Len(after) : all[n + i] = after[i]
  <2>1. p \in Seq(B)
    OBVIOUS
  <2> HIDE DEF p
  <2>2. Len(p) = n
    BY <1>1, <1>2, <2>1
  <2>3. all \in Seq(B) /\ Len(all) = Len(p) + Len(after) /\ Len(after) \in Nat
    BY <2>1, ConcatProperties
  <2>4. \A i \in 1..Len(p) : all[i] = p[i]
    BY <2>1, ConcatProperties
  <2>5. \A i \in 1..Len(after) : all[Len(p) + i] = after[i]
    BY <2>1, ConcatProperties
  <2> HIDE DEF all
  <2> QED
    BY <2>2, <2>3, <2>4, <2>5
<1> HIDE DEF p, all
<1>4. PICK h : /\ h[0] = r /\ h[n] = RecordLoop(r, name, n)
               /\ \A i \in 1..n : h[i] = GetRecord(h[i - 1], name)
  <2> HIDE DEF r
  <2>1. n \in Nat
    BY <1>1
  <2>2. \E h : /\ h[0] = r /\ h[n] = RecordLoop(r, name, n)
               /\ \A i \in 1..n : h[i] = GetRecord(h[i - 1], name)
    BY <2>1, RecordTurns
  <2> QED
    BY <2>2
<1> DEFINE Good(i) == h[i] = Ready(from(i), upto(i))
           P == {i \in Nat : i <= n => Good(i)}
<1>5. 0 \in P
  <2>1. SubSeq(all, 1, Len(all)) = all
    BY <1>3, SubSeqFull
  <2>2. from(0) = all
    BY <1>3, <2>1
  <2>3. SubSeq(es, 1, 0) = <<>>
    OBVIOUS
  <2>4. upto(0) = read
    BY <2>3 DEF IsMapping
  <2> HIDE DEF from, upto
  <2> QED
    BY <1>4, <2>2, <2>4
<1>6. ASSUME NEW i \in Nat, i \in P PROVE i + 1 \in P
  <2> SUFFICES ASSUME i + 1 <= n PROVE Good(i + 1)
    OBVIOUS
  <2> DEFINE e == es[i + 1]
  <2>1. /\ i + 1 \in 1..n /\ (i + 1) - 1 = i /\ i \in 0..Len(all) /\ i < Len(all)
        /\ i + 1 \in 1..Len(all) /\ i + 1 \in DOMAIN es
    BY <1>1, <1>3
  <2>2. h[i + 1] = GetRecord(Ready(from(i), upto(i)), name)
    <3>1. Good(i)
      <4> HIDE DEF Good
      <4> QED
        BY <1>1, <1>6, <2>1
    <3> HIDE DEF P, from, upto
    <3>2. h[i + 1] = GetRecord(h[i], name)
      BY <1>4, <2>1
    <3> QED
      BY <3>1, <3>2, Zenon
  <2>3. from(i) # <<>> /\ Head(from(i)) = all[i + 1] /\ Tail(from(i)) = from(i + 1)
    <3> HIDE DEF P
    <3>1. SubSeq(all, i + 1, Len(all)) # <<>>
      <4>1. Len(SubSeq(all, i + 1, Len(all))) = Len(all) - i
        BY <1>3, <2>1
      <4> DEFINE x == SubSeq(all, i + 1, Len(all))
      <4> HIDE DEF x
      <4>2. Len(x) > 0
        BY <1>3, <2>1, <4>1 DEF x
      <4>3. x # <<>>
        BY <4>2
      <4> QED
        BY <4>3 DEF x
    <3>2. /\ Head(SubSeq(all, i + 1, Len(all))) = all[i + 1]
          /\ Tail(SubSeq(all, i + 1, Len(all))) = SubSeq(all, i + 2, Len(all))
      BY <1>3, <2>1, <3>1, ReadAndRest
    <3>3. (i + 1) + 1 = i + 2
      OBVIOUS
    <3> QED
      BY <3>1, <3>2, <3>3, Zenon
  <2>4. all[i + 1] = RecordToken(name, e)
    BY <1>2, <1>3, <2>1
  <2>5. IsTakeable(name, e) /\ \A j \in 1..i : EntryKeys(name, es[j]) \cap EntryKeys(name, e) = {}
    BY <2>1 DEF AreTakeable
  <2>6. IsUnlike(name, e, Range(upto(i)[name]))
    <3>1. upto(i)[name] = SubSeq(es, 1, i)
      OBVIOUS
    <3>2. \A o \in Range(SubSeq(es, 1, i)) : \E j \in 1..i : o = es[j]
      BY <1>1, <2>1 DEF Range
    <3> DEFINE u == upto(i)[name]
    <3>3. \A o \in Range(u) : \E j \in 1..i : o = es[j]
      BY <3>1, <3>2, Zenon
    <3> HIDE DEF u, e
    <3> QED
      BY <2>5, <3>3 DEF IsUnlike, u
  <2> DEFINE f == from(i)
             u == upto(i)
  <2>7. GetsRecord(f, u, name, Tail(f), e)
    <3> HIDE DEF from, upto, e, P, Good
    <3>1. f # <<>> /\ Head(f) = RecordToken(name, e) /\ IsUnlike(name, e, Range(u[name]))
      BY <2>3, <2>4, <2>6, Zenon
    <3> HIDE DEF f, u
    <3> QED
      BY <2>5, <3>1, TokenGiven
  <2>8. [upto(i) EXCEPT ![name] = Append(@, e)] = upto(i + 1)
    <3>1. Append(SubSeq(es, 1, i), es[i + 1]) = SubSeq(es, 1, i + 1)
      BY <1>1, <2>1
    <3> DEFINE a == SubSeq(es, 1, i)
               b == SubSeq(es, 1, i + 1)
    <3> HIDE DEF a, b, e
    <3>2. Append(a, e) = b
      BY <3>1 DEF a, b, e
    <3>3. [[read EXCEPT ![name] = a] EXCEPT ![name] = Append(@, e)] = [read EXCEPT ![name] = b]
      BY <3>2 DEF IsMapping
    <3> QED
      BY <3>3 DEF a, b
  <2> HIDE DEF from, upto, e
  <2> QED
    BY <2>2, <2>3, <2>7, <2>8, Zenon DEF GetsRecord
<1>7. Good(n)
  <2>1. Nat \subseteq P
    <3> HIDE DEF P
    <3> QED
      BY <1>5, <1>6, EveryNatural
  <2>2. n \in P
    <3> HIDE DEF P
    <3> QED
      BY <1>1, <2>1
  <2> HIDE DEF Good
  <2> QED
    BY <1>1, <2>2
<1>8. from(n) = after
  <2>1. from(n) \in Seq(B) /\ Len(from(n)) = Len(after) /\ \A i \in 1..Len(after) : from(n)[i] = all[n + i]
    BY <1>1, <1>3
  <2> HIDE DEF from
  <2>2. \A i \in 1..Len(after) : from(n)[i] = after[i]
    BY <1>3, <2>1
  <2> QED
    BY <2>1, <2>2, SeqEqual
<1>9. SubSeq(es, 1, n) = es
  BY SubSeqFull DEF n
<1> QED
  BY <1>4, <1>7, <1>8, <1>9, Zenon DEF GetsRecords, all, p, n

\* The records that the encoder writes of the entries of a collection.
WrittenAll(name, es) == [i \in DOMAIN es |-> Written(name, es[i])]

\* Each of them is one of fields.
AreRecords(name, es) == \A i \in DOMAIN es : IsFields(Written(name, es[i]))

\* The records behind their lengths are a part of a body, and the collection is them
\* behind their count.
LEMMA CollectionParts ==
  ASSUME NEW name, NEW E, NEW es \in Seq(E), AreRecords(name, es)
  PROVE  /\ IsBody(RecordTokens(name, es))
         /\ Collection(WrittenAll(name, es)) = Count(es) \o RecordTokens(name, es)
<1> DEFINE n == Len(es)
           p == RecordTokens(name, es)
           records == WrittenAll(name, es)
           B == {RecordToken(name, es[i]) : i \in 1..n}
<1>1. n \in Nat /\ DOMAIN es = 1..n
  OBVIOUS
<1> HIDE DEF n
<1>2. \A t \in B : IsBodyToken(t)
  BY <1>1 DEF AreRecords, IsBodyToken, IsField, RecordToken
<1>3. p = [i \in 1..n |-> RecordToken(name, es[i])]
  BY <1>1, Zenon DEF RecordTokens
<1>4. \A i \in 1..n : RecordToken(name, es[i]) \in B
  OBVIOUS
<1>5. p \in Seq(B)
  <2> HIDE DEF B, p
  <2>1. [i \in 1..n |-> RecordToken(name, es[i])] \in [1..n -> B]
    BY <1>4
  <2> QED
    BY <1>1, <1>3, <2>1, SeqDef
<1>6. IsBody(p)
  <2> HIDE DEF p, B
  <2> QED
    BY <1>2, <1>5 DEF IsBody
<1>7. DOMAIN records = 1..n /\ \A i \in 1..n : records[i] = Written(name, es[i])
  BY <1>1 DEF WrittenAll
<1> HIDE DEF records
<1>8. Len(records) = Len(es)
  BY <1>1, <1>7 DEF n
<1>9. Count(records) = Count(es)
  BY <1>8, Zenon DEF Count
<1>10. [i \in DOMAIN records |-> [kind |-> "record", value |-> records[i]]] = p
  <2>1. [i \in DOMAIN records |-> [kind |-> "record", value |-> records[i]]]
          = [i \in 1..n |-> [kind |-> "record", value |-> records[i]]]
    BY <1>7, Zenon
  <2>2. \A i \in 1..n : [kind |-> "record", value |-> records[i]] = RecordToken(name, es[i])
    BY <1>7 DEF RecordToken
  <2> HIDE DEF p
  <2>3. [i \in 1..n |-> [kind |-> "record", value |-> records[i]]] = [i \in 1..n |-> RecordToken(name, es[i])]
    BY <2>2
  <2> QED
    BY <1>3, <2>1, <2>3, Zenon
<1>11. Collection(records) = Count(es) \o p
  BY <1>9, <1>10, Zenon DEF Collection
<1> QED
  BY <1>6, <1>11, Zenon DEF records

\* The parts of a body have sizes.
LEMMA BodyHasSize ==
  ASSUME NEW s, IsBody(s)
  PROVE  IsSized(s) /\ Size(s) \in Nat
<1>1. PICK T : s \in Seq(T) /\ \A t \in T : IsBodyToken(t)
  BY DEF IsBody
<1>2. ASSUME NEW t \in T PROVE TokenSize(t) \in Nat
  <2>1. CASE t.kind = "record"
    <3>1. IsFields(t.value)
      BY <1>1, <2>1 DEF IsBodyToken
    <3>2. FieldsSize(t.value) \in Nat
      BY <3>1, RecordHasSize
    <3> QED
      BY <2>1, <3>2 DEF TokenSize
  <2>2. CASE t.kind # "record"
    <3>1. IsPlain(t)
      BY <1>1, <2>2 DEF IsBodyToken, IsPlain
    <3> QED
      BY <3>1, FieldHasSize
  <2> QED
    BY <2>1, <2>2
<1>3. IsSized(s)
  BY <1>1, <1>2 DEF IsSized
<1> QED
  BY <1>3, SizeJoin

\* The records of a collection, and what follows, take at least their number times their
\* least size.
FitsRecords(name, es, after, unit) == Len(es) * unit <= Size(RecordTokens(name, es) \o after)

\* They do.
LEMMA RecordsFit ==
  ASSUME NEW name, NEW E, NEW es \in Seq(E), AreRecords(name, es), NEW after, IsBody(after),
         NEW unit \in Nat, \A i \in DOMAIN es : unit <= 4 + Size(Written(name, es[i]))
  PROVE  FitsRecords(name, es, after, unit)
<1> DEFINE n == Len(es)
           p == RecordTokens(name, es)
           f == [i \in DOMAIN p |-> TokenSize(p[i])]
<1>1. n \in Nat /\ DOMAIN es = 1..n
  OBVIOUS
<1>2. DOMAIN p = 1..n /\ \A i \in 1..n : p[i] = RecordToken(name, es[i])
  BY <1>1 DEF RecordTokens
<1>3. IsBody(p)
  BY CollectionParts
<1>4. Size(p) = Total(f)
  BY DEF Size
<1> HIDE DEF n, p
<1>5. \A i \in 1..n : TokenSize(p[i]) = 4 + Size(Written(name, es[i])) /\ Size(Written(name, es[i])) \in Nat
  BY <1>1, <1>2, RecordHasSize DEF AreRecords, RecordToken
<1>6. f \in [1..n -> Nat] /\ \A i \in 1..n : unit <= f[i]
  <2>1. \A i \in 1..n : f[i] = 4 + Size(Written(name, es[i])) /\ f[i] \in Nat
    BY <1>2, <1>5
  <2>2. DOMAIN f = 1..n /\ f = [i \in DOMAIN f |-> f[i]]
    BY <1>2
  <2> HIDE DEF f
  <2>3. \A i \in 1..n : unit <= f[i]
    BY <1>1, <2>1
  <2>4. f \in [1..n -> Nat]
    BY <2>1, <2>2
  <2> QED
    BY <2>3, <2>4
<1> HIDE DEF f
<1>7. n * unit <= Total(f) /\ Total(f) \in Nat
  BY <1>1, <1>6, TotalAtLeast
<1>8. Size(p \o after) = Size(p) + Size(after) /\ Size(after) \in Nat
  BY <1>3, BodyHasSize, SizeJoin
<1>9. n * unit <= Size(p \o after)
  <2> DEFINE x == n * unit
  <2>1. x \in Nat
    BY <1>1
  <2> HIDE DEF x
  <2>2. x <= Size(p \o after)
    BY <1>4, <1>7, <1>8, <2>1 DEF x
  <2> QED
    BY <2>2 DEF x
<1> QED
  BY <1>9, Zenon DEF FitsRecords, n, p

\* The reader goes on behind a collection, with its entries under the name.
GetsCollection(after, read, name, limit, unit, es) ==
  GetRecords(Ready(Collection(WrittenAll(name, es)) \o after, read), name, limit, unit)
    = Ready(after, With(read, name, es))

\* A collection that was written is read.
LEMMA CollectionGiven ==
  ASSUME NEW name, NEW E, NEW es \in Seq(E), AreTakeable(name, es), AreRecords(name, es),
         NEW after, IsBody(after), NEW read, IsMapping(read), NEW limit, ~(Len(es) > limit),
         NEW unit, FitsRecords(name, es, after, unit)
  PROVE  GetsCollection(after, read, name, limit, unit, es)
<1> DEFINE n == Len(es)
           p == RecordTokens(name, es)
           f == p \o after
           r == Ready(Collection(WrittenAll(name, es)) \o after, read)
           counted == Get(r, "u32", "count")
           empty == With(read, name, <<>>)
<1>1. n \in Nat
  OBVIOUS
<1>2. IsBody(p) /\ Collection(WrittenAll(name, es)) = Count(es) \o p
  BY CollectionParts
<1>3. IsBody(Count(es)) /\ IsBody(f)
  <2>1. IsBody(Count(es))
    BY <1>1, FieldCount, FieldsAreBody
  <2> HIDE DEF p
  <2> QED
    BY <1>2, <2>1, BodyJoin
<1>4. Collection(WrittenAll(name, es)) \o after = Count(es) \o f
  <2> HIDE DEF p
  <2>1. AreJoined(Count(es), p, after)
    BY <1>2, <1>3, PartsJoined
  <2> QED
    BY <1>2, <2>1, Zenon DEF AreJoined
<1>5. EntriesFit(n, unit, f)
  BY Zenon DEF EntriesFit, FitsRecords
<1>6. GetsRecords(f, empty, name, after, es)
  <2>1. PICK S : p \in Seq(S)
    BY <1>2 DEF IsBody
  <2>2. PICK T : after \in Seq(T)
    BY DEF IsBody
  <2> DEFINE U == S \cup T
  <2>3. S \subseteq U /\ T \subseteq U
    OBVIOUS
  <2> HIDE DEF U, p, empty
  <2>4. p \in Seq(U) /\ after \in Seq(U)
    BY <2>1, <2>2, <2>3, SeqMonotonic
  <2>5. IsMapping(empty) /\ name \in DOMAIN empty /\ empty[name] = <<>>
    BY DEF IsMapping, With, empty
  <2> QED
    BY <2>4, <2>5, RecordsGiven DEF p
<1> HIDE DEF f, n
<1>7. counted = Ready(f, With(read, "count", n))
  <2>1. Get(Ready(Count(es) \o f, read), "u32", "count") = Ready(f, With(read, "count", Len(es)))
    BY <1>1, <1>3, CountGiven DEF n
  <2> QED
    BY <1>4, <2>1, Zenon DEF n
<1> HIDE DEF counted
<1>8. counted.code = "Ok" /\ counted.rest = f /\ counted.read.count = n
  BY <1>7 DEF Ready, With
<1>9. GetCounted(counted, read, name, limit, unit) = RecordLoop([counted EXCEPT !.read = empty], name, n)
  <2>1. ~(n > limit)
    BY DEF n
  <2> QED
    BY <1>5, <1>8, <2>1, Zenon DEF GetCounted
<1>10. [counted EXCEPT !.read = empty] = Ready(f, empty)
  <2> HIDE DEF empty
  <2>1. [Ready(f, With(read, "count", n)) EXCEPT !.read = empty] = Ready(f, empty)
    BY ReadySets
  <2> QED
    BY <1>7, <2>1, Zenon
<1>11. [empty EXCEPT ![name] = es] = With(read, name, es)
  BY DEF With
<1> HIDE DEF empty
<1>12. GetCounted(counted, read, name, limit, unit) = Ready(after, With(read, name, es))
  BY <1>6, <1>9, <1>10, <1>11, Zenon DEF GetsRecords, n
<1>13. GetRecords(r, name, limit, unit) = GetCounted(counted, read, name, limit, unit)
  <2>1. r.read = read
    BY DEF Ready
  <2> HIDE DEF r
  <2> QED
    BY <2>1, Zenon DEF GetRecords, counted
<1> QED
  BY <1>12, <1>13, Zenon DEF GetsCollection

\* A list without a bound of its own is bound by what remains.
LEMMA RemainderBounds ==
  ASSUME NEW name, NEW E, NEW es \in Seq(E), AreRecords(name, es), NEW after, IsBody(after),
         NEW unit \in Nat, unit >= 1, FitsRecords(name, es, after, unit), NEW read
  PROVE  ~(Len(es) > Unlimited(Ready(Collection(WrittenAll(name, es)) \o after, read)))
<1> DEFINE n == Len(es)
           p == RecordTokens(name, es)
           f == p \o after
           all == Collection(WrittenAll(name, es)) \o after
<1>1. n \in Nat
  OBVIOUS
<1>2. IsBody(p) /\ Collection(WrittenAll(name, es)) = Count(es) \o p
  BY CollectionParts
<1>3. IsBody(Count(es)) /\ IsBody(f)
  <2>1. IsBody(Count(es))
    BY <1>1, FieldCount, FieldsAreBody
  <2> HIDE DEF p
  <2> QED
    BY <1>2, <2>1, BodyJoin
<1>4. all = Count(es) \o f
  <2> HIDE DEF p
  <2>1. AreJoined(Count(es), p, after)
    BY <1>2, <1>3, PartsJoined
  <2> QED
    BY <1>2, <2>1, Zenon DEF AreJoined
<1>5. n * unit <= Size(f)
  BY Zenon DEF FitsRecords
<1> HIDE DEF f, n, all
<1>6. Size(Count(es) \o f) = Size(Count(es)) + Size(f) /\ Size(Count(es)) \in Nat /\ Size(f) \in Nat
  BY <1>3, BodyHasSize, SizeJoin
<1>7. n <= n * unit
  <2>1. n * 1 <= n * unit
    BY <1>1
  <2> QED
    BY <1>1, <2>1
<1>8. ~(n > Size(all))
  <2> DEFINE x == n * unit
  <2>1. x \in Nat
    BY <1>1
  <2> HIDE DEF x
  <2>2. n <= x /\ x <= Size(f)
    BY <1>5, <1>7 DEF x
  <2>3. Size(all) = Size(Count(es)) + Size(f)
    BY <1>4, <1>6, Zenon
  <2> QED
    BY <1>1, <1>6, <2>1, <2>2, <2>3
<1>9. Unlimited(Ready(all, read)) = Size(all)
  <2>1. Ready(all, read).rest = all
    BY DEF Ready
  <2> QED
    BY <2>1, Zenon DEF Unlimited
<1> QED
  BY <1>8, <1>9, Zenon DEF n, all

----------------------------------------------------------------------------
(* Reading a state that was written.                                        *)

\* The records of a state are those of its entries.
LEMMA RecordsWritten ==
  ASSUME NEW s
  PROVE  /\ Records(s).sets = WrittenAll("sets", s.sets)
         /\ Records(s).paths = WrittenAll("paths", s.paths)
         /\ Records(s).multipath = WrittenAll("multipath", s.multipath)
         /\ Records(s).publishers = WrittenAll("publishers", s.publishers)
         /\ Records(s).attempts = WrittenAll("attempts", s.attempts)
         /\ DOMAIN Records(s) = Collections
<1>1. Records(s).sets = WrittenAll("sets", s.sets)
  BY DEF Records, WrittenAll, Written
<1>2. Records(s).paths = WrittenAll("paths", s.paths)
  BY DEF Records, WrittenAll, Written
<1>3. Records(s).multipath = WrittenAll("multipath", s.multipath)
  BY DEF Records, WrittenAll, Written
<1>4. Records(s).publishers = WrittenAll("publishers", s.publishers)
  BY DEF Records, WrittenAll, Written
<1>5. Records(s).attempts = WrittenAll("attempts", s.attempts)
  BY DEF Records, WrittenAll, Written
<1>6. DOMAIN Records(s) = Collections
  BY DEF Records, Collections
<1> QED
  BY <1>1, <1>2, <1>3, <1>4, <1>5, <1>6

\* A record of a collection of the state is within the limit of records.
IsWithin(name, es) == \A i \in DOMAIN es : FieldsSize(Written(name, es[i])) <= MaxRecord

\* So are the records of every collection that the encoder does not refuse.
LEMMA RecordsWithin ==
  ASSUME NEW s, WithinLimits(s)
  PROVE  /\ IsWithin("sets", s.sets) /\ IsWithin("paths", s.paths)
         /\ IsWithin("multipath", s.multipath) /\ IsWithin("publishers", s.publishers)
         /\ IsWithin("attempts", s.attempts)
<1> DEFINE R == Records(s)
<1>1. \A r \in UNION {Range(c) : c \in Range(R)} : FieldsSize(r) <= MaxRecord
  BY Zenon DEF WithinLimits
<1>2. DOMAIN R = Collections
  BY RecordsWritten
<1> HIDE DEF R
<1>3. ASSUME NEW name \in Collections, NEW es, R[name] = WrittenAll(name, es)
      PROVE  IsWithin(name, es)
  <2> SUFFICES ASSUME NEW i \in DOMAIN es PROVE FieldsSize(Written(name, es[i])) <= MaxRecord
    BY DEF IsWithin
  <2>1. R[name] \in Range(R)
    BY <1>2 DEF Range
  <2> DEFINE c == WrittenAll(name, es)
  <2>2. i \in DOMAIN c /\ c[i] = Written(name, es[i])
    BY DEF WrittenAll
  <2> HIDE DEF c
  <2>3. c[i] \in Range(c) /\ c \in Range(R)
    BY <1>3, <2>1, <2>2 DEF Range, c
  <2>4. c[i] \in UNION {Range(d) : d \in Range(R)}
    BY <2>3
  <2> QED
    BY <1>1, <2>2, <2>4
<1>4. /\ R["sets"] = WrittenAll("sets", s.sets) /\ R["paths"] = WrittenAll("paths", s.paths)
      /\ R["multipath"] = WrittenAll("multipath", s.multipath)
      /\ R["publishers"] = WrittenAll("publishers", s.publishers)
      /\ R["attempts"] = WrittenAll("attempts", s.attempts)
  BY RecordsWritten DEF R
<1>5. {"sets", "paths", "multipath", "publishers", "attempts"} \subseteq Collections
  BY DEF Collections
<1> QED
  BY <1>3, <1>4, <1>5

\* The entries of a collection are told apart and valid.
AreApart(name, es) ==
  \A i \in DOMAIN es :
    /\ ValidEntry(name, es[i])
    /\ \A j \in 1..(i - 1) : EntryKeys(name, es[j]) \cap EntryKeys(name, es[i]) = {}

\* Every member of a multipath view has an identity, as the run of the store asks.
HasNames(s) ==
  \A i \in DOMAIN s.multipath :
    \A j \in DOMAIN s.multipath[i].members : s.multipath[i].members[j].id # 0

\* So are those of a state that is exported, if the members of its views are named.
LEMMA ExportsApart ==
  ASSUME NEW s, IsExport(s), HasNames(s)
  PROVE  /\ AreApart("sets", s.sets) /\ AreApart("paths", s.paths)
         /\ AreApart("multipath", s.multipath) /\ AreApart("publishers", s.publishers)
         /\ AreApart("attempts", s.attempts)
<1>1. ASSUME NEW name \in Collections, NEW i \in DOMAIN s[name] PROVE ValidEntry(name, s[name][i])
  <2>1. IsAccepted(name, s[name][i])
    BY DEF IsExport
  <2>2. CASE name = "multipath"
    <3>1. s.multipath[i].set # 0 /\ s.multipath[i].generation # 0
      BY <2>1, <2>2 DEF IsAccepted
    <3>2. ValidMultipath(s.multipath[i])
      BY <2>2, <3>1 DEF HasNames, ValidMultipath
    <3> QED
      BY <2>2, <3>2 DEF ValidEntry
  <2>3. CASE name # "multipath"
    BY <2>1, <2>3, Zenon DEF IsAccepted
  <2> QED
    BY <2>2, <2>3
<1>3. ASSUME NEW name \in Collections, NEW i \in DOMAIN s[name], NEW j \in 1..(i - 1)
      PROVE  EntryKeys(name, s[name][j]) \cap EntryKeys(name, s[name][i]) = {}
  BY DEF IsExport
<1>4. \A name \in Collections : AreApart(name, s[name])
  BY <1>1, <1>3, Zenon DEF AreApart
<1>2. {"sets", "paths", "multipath", "publishers", "attempts"} \subseteq Collections
  BY DEF Collections
<1> QED
  BY <1>4, <1>2

\* The collection es of a state is written, read, and of records.
IsGiven(name, es) ==
  (\E E : es \in Seq(E)) /\ AreTakeable(name, es) /\ AreRecords(name, es)

\* What is apart, within the limits, and read one by one is read.
LEMMA Taking ==
  ASSUME NEW name, NEW E, NEW es \in Seq(E), AreApart(name, es), IsWithin(name, es),
         \A i \in DOMAIN es : GivesEntry(name, es[i]), AreRecords(name, es)
  PROVE  IsGiven(name, es)
<1>1. ASSUME NEW i \in DOMAIN es PROVE IsTakeable(name, es[i])
  <2>1. IsFields(Written(name, es[i]))
    BY DEF AreRecords
  <2>2. FieldsSize(Written(name, es[i])) \in Nat
    BY <2>1, RecordHasSize
  <2>3. FieldsSize(Written(name, es[i])) <= MaxRecord /\ MaxRecord \in Nat
    BY LimitsAssumption DEF IsWithin
  <2>4. ~(FieldsSize(Written(name, es[i])) > MaxRecord)
    BY <2>2, <2>3
  <2> QED
    BY <2>4 DEF IsTakeable, AreApart
<1>2. AreTakeable(name, es)
  BY <1>1 DEF AreTakeable, AreApart
<1> QED
  BY <1>2, Zenon DEF IsGiven

\* Every collection of a state that is exported, named and not refused is.
LEMMA StateGiven ==
  ASSUME NEW s, HasState(s), IsExport(s), HasNames(s), WithinLimits(s)
  PROVE  /\ IsGiven("sets", s.sets) /\ IsGiven("paths", s.paths)
         /\ IsGiven("multipath", s.multipath) /\ IsGiven("publishers", s.publishers)
         /\ IsGiven("attempts", s.attempts)
<1>1. IsGiven("sets", s.sets)
  <2> DEFINE es == s.sets
  <2>1. es \in Seq(Range(es)) /\ \A i \in DOMAIN es : HasSet(es[i])
    BY DEF HasState
  <2>2. \A i \in DOMAIN es : IsSet(es[i])
    BY DEF IsExport
  <2>3. AreApart("sets", es) /\ IsWithin("sets", es)
    BY ExportsApart, RecordsWithin
  <2>4. \A i \in DOMAIN es : ValidSet(es[i])
    BY <2>3 DEF AreApart, ValidEntry
  <2>5. \A i \in DOMAIN es : FieldsSize(SetRecord(es[i])) <= MaxRecord
    BY <2>3 DEF IsWithin, Written
  <2>6. \A i \in DOMAIN es : /\ Len(es[i].members) <= MaxMembers /\ Len(es[i].history) <= MaxHistory
                             /\ Len(es[i].owners) <= MaxSpace
    BY DEF WithinLimits
  <2> HIDE DEF es
  <2>7. \A i \in DOMAIN es : SetFits(es[i])
    BY <2>5, <2>6 DEF SetFits
  <2>8. \A i \in DOMAIN es : GivesEntry("sets", es[i])
    BY <2>1, <2>2, <2>4, <2>7, SetGiven
  <2>9. AreRecords("sets", es)
    <3>1. \A i \in DOMAIN es : IsFields(SetRecord(es[i]))
      BY <2>1, FieldsSetRecord
    <3> QED
      BY <3>1 DEF AreRecords, Written
  <2>10. IsGiven("sets", es)
    BY <2>1, <2>3, <2>8, <2>9, Taking
  <2> QED
    BY <2>10 DEF es
<1>2. IsGiven("paths", s.paths)
  <2> DEFINE es == s.paths
  <2>1. es \in Seq(Range(es)) /\ \A i \in DOMAIN es : HasFields(es[i], PathFields)
    BY DEF HasState, HasList
  <2>2. \A i \in DOMAIN es : IsEntry(es[i], ReadPath, {})
    BY DEF IsExport, IsList
  <2>3. AreApart("paths", es) /\ IsWithin("paths", es)
    BY ExportsApart, RecordsWithin
  <2> HIDE DEF es
  <2>4. \A i \in DOMAIN es : GivesEntry("paths", es[i])
    BY <2>1, <2>2, PlainGiven
  <2>5. AreRecords("paths", es)
    <3>1. \A i \in DOMAIN es : IsFields(Put(PathFields, es[i]))
      BY <2>1, LayoutsWritten, FieldsPut
    <3> QED
      BY <3>1 DEF AreRecords, Written
  <2>6. IsGiven("paths", es)
    BY <2>1, <2>3, <2>4, <2>5, Taking
  <2> QED
    BY <2>6 DEF es
<1>3. IsGiven("multipath", s.multipath)
  <2> DEFINE es == s.multipath
  <2>1. /\ es \in Seq(Range(es))
        /\ \A i \in DOMAIN es : /\ HasFields(es[i], MultipathFields)
                                /\ HasList(es[i].members, ListedFields)
    BY DEF HasState, HasList
  <2>2. \A i \in DOMAIN es : /\ IsEntry(es[i], MultipathFields, {"members"})
                             /\ IsList(es[i].members, ListedFields)
    BY DEF IsExport
  <2>3. AreApart("multipath", es) /\ IsWithin("multipath", es)
    BY ExportsApart, RecordsWithin
  <2> HIDE DEF es
  <2>4. \A i \in DOMAIN es : GivesEntry("multipath", es[i])
    BY <2>1, <2>2, MultipathGiven
  <2>5. AreRecords("multipath", es)
    <3> SUFFICES ASSUME NEW i \in DOMAIN es PROVE IsFields(Written("multipath", es[i]))
      BY DEF AreRecords
    <3>1. IsFields(Put(MultipathFields, es[i]))
      BY <2>1, LayoutsWritten, FieldsPut
    <3>2. IsFields(PutList(ListedFields, es[i].members))
      BY <2>1, LayoutsWritten, FieldsPutList
    <3>3. IsFields(Put(MultipathFields, es[i]) \o PutList(ListedFields, es[i].members))
      BY <3>1, <3>2, FieldsJoin
    <3>4. Written("multipath", es[i]) = MultipathRecord(es[i])
      BY DEF Written
    <3> QED
      BY <3>3, <3>4, Zenon DEF MultipathRecord
  <2>6. IsGiven("multipath", es)
    BY <2>1, <2>3, <2>4, <2>5, Taking
  <2> QED
    BY <2>6 DEF es
<1>4. IsGiven("publishers", s.publishers)
  <2> DEFINE es == s.publishers
  <2>1. es \in Seq(Range(es)) /\ \A i \in DOMAIN es : HasFields(es[i], PublisherFields)
    BY DEF HasState, HasList
  <2>2. \A i \in DOMAIN es : IsEntry(es[i], ReadPublisher, {})
    BY DEF IsExport, IsList
  <2>3. AreApart("publishers", es) /\ IsWithin("publishers", es)
    BY ExportsApart, RecordsWithin
  <2>4. \A i \in DOMAIN es : FieldsSize(Put(PublisherFields, es[i])) <= MaxRecord
    BY <2>3 DEF IsWithin, Written
  <2> HIDE DEF es
  <2>5. \A i \in DOMAIN es : GivesEntry("publishers", es[i])
    BY <2>1, <2>2, <2>4, PlainGiven
  <2>6. AreRecords("publishers", es)
    <3>1. \A i \in DOMAIN es : IsFields(Put(PublisherFields, es[i]))
      BY <2>1, LayoutsWritten, FieldsPut
    <3> QED
      BY <3>1 DEF AreRecords, Written
  <2>7. IsGiven("publishers", es)
    BY <2>1, <2>3, <2>5, <2>6, Taking
  <2> QED
    BY <2>7 DEF es
<1>5. IsGiven("attempts", s.attempts)
  <2> DEFINE es == s.attempts
  <2>1. es \in Seq(Range(es)) /\ \A i \in DOMAIN es : HasFields(es[i], AttemptFields)
    BY DEF HasState, HasList
  <2>2. \A i \in DOMAIN es : IsEntry(es[i], ReadAttempt, {})
    BY DEF IsExport, IsList
  <2>3. AreApart("attempts", es) /\ IsWithin("attempts", es)
    BY ExportsApart, RecordsWithin
  <2> HIDE DEF es
  <2>4. \A i \in DOMAIN es : GivesEntry("attempts", es[i])
    BY <2>1, <2>2, PlainGiven
  <2>5. AreRecords("attempts", es)
    <3>1. \A i \in DOMAIN es : IsFields(Put(AttemptFields, es[i]))
      BY <2>1, LayoutsWritten, FieldsPut
    <3> QED
      BY <3>1 DEF AreRecords, Written
  <2>6. IsGiven("attempts", es)
    BY <2>1, <2>3, <2>4, <2>5, Taking
  <2> QED
    BY <2>6 DEF es
<1> QED
  BY <1>1, <1>2, <1>3, <1>4, <1>5

\* A collection as it is in the body.
Stored(name, es) == Collection(WrittenAll(name, es))

\* It is a part of a body: its count and its records.
LEMMA StoredIsBody ==
  ASSUME NEW name, NEW es, IsGiven(name, es)
  PROVE  /\ IsBody(Stored(name, es)) /\ IsBody(RecordTokens(name, es))
         /\ Stored(name, es) = Count(es) \o RecordTokens(name, es)
         /\ Len(es) \in Nat /\ Size(Count(es)) = Length
<1>1. PICK E : es \in Seq(E)
  BY DEF IsGiven
<1>2. /\ IsBody(RecordTokens(name, es))
      /\ Stored(name, es) = Count(es) \o RecordTokens(name, es)
  <2>1. AreRecords(name, es)
    BY DEF IsGiven
  <2> QED
    BY <1>1, <2>1, CollectionParts DEF Stored
<1>3. Len(es) \in Nat
  BY <1>1
<1>4. IsFields(Count(es)) /\ Count(es) = <<Count(es)[1]>> /\ IsPlain(Count(es)[1])
  BY <1>3, FieldCount
<1>5. IsBody(Count(es))
  BY <1>4, FieldsAreBody
<1>6. IsBody(Count(es) \o RecordTokens(name, es))
  BY <1>2, <1>5, BodyJoin
<1>7. Size(Count(es)) = Length
  <2> DEFINE t == Count(es)[1]
  <2>1. t.kind = "u32"
    BY DEF Count
  <2> HIDE DEF t
  <2>2. IsPlain(t)
    BY <1>4 DEF t
  <2>3. TokenSize(t) = FieldSize(t) /\ FieldSize(t) \in Nat
    BY <2>2, FieldHasSize
  <2>4. FieldSize(t) = Length
    BY <2>1 DEF FieldSize, Width, Length
  <2>5. Size(<<t>>) = TokenSize(t)
    BY <2>3, SizeOfOne
  <2> QED
    BY <1>4, <2>3, <2>4, <2>5, Zenon DEF t
<1> QED
  BY <1>2, <1>3, <1>6, <1>7, Zenon

\* Each record of the collection, with its length, takes at least unit bytes.
HasLeast(name, es, unit) ==
  unit \in Nat /\ unit >= 1 /\ \A i \in DOMAIN es : unit <= 4 + Size(Written(name, es[i]))

\* Then the reader finds room for them, and for no more than what remains.
LEMMA StoredFits ==
  ASSUME NEW name, NEW es, IsGiven(name, es), NEW unit, HasLeast(name, es, unit),
         NEW after, IsBody(after)
  PROVE  /\ FitsRecords(name, es, after, unit)
         /\ \A read : ~(Len(es) > Unlimited(Ready(Stored(name, es) \o after, read)))
<1>1. PICK E : es \in Seq(E)
  BY DEF IsGiven
<1>2. AreRecords(name, es) /\ unit \in Nat /\ unit >= 1
  BY DEF IsGiven, HasLeast
<1>3. \A i \in DOMAIN es : unit <= 4 + Size(Written(name, es[i]))
  BY DEF HasLeast
<1>4. FitsRecords(name, es, after, unit)
  BY <1>1, <1>2, <1>3, RecordsFit
<1>5. ASSUME NEW read PROVE ~(Len(es) > Unlimited(Ready(Stored(name, es) \o after, read)))
  <2>1. ~(Len(es) > Unlimited(Ready(Collection(WrittenAll(name, es)) \o after, read)))
    BY <1>1, <1>2, <1>4, RemainderBounds
  <2> QED
    BY <2>1, Zenon DEF Stored
<1> QED
  BY <1>4, <1>5

\* What the reader asks of each record at least is what the encoder appends, but for
\* publishers.
LEMMA RecordsHaveLeast ==
  ASSUME NEW s, HasState(s)
  PROVE  /\ IsGiven("sets", s.sets) => HasLeast("sets", s.sets, Length)
         /\ HasLeast("paths", s.paths, MinimumPath + Length)
         /\ HasLeast("multipath", s.multipath, MinimumMultipath + Length)
         /\ HasLeast("attempts", s.attempts, MinimumAttempt + Length)
<1>1. ASSUME IsGiven("sets", s.sets) PROVE HasLeast("sets", s.sets, Length)
  <2>1. \A i \in DOMAIN s.sets : IsFields(Written("sets", s.sets[i]))
    BY <1>1 DEF IsGiven, AreRecords
  <2>2. \A i \in DOMAIN s.sets : Size(Written("sets", s.sets[i])) \in Nat
    BY <2>1, RecordHasSize
  <2> QED
    BY <2>2 DEF HasLeast, Length
<1>2. HasLeast("paths", s.paths, MinimumPath + Length)
  <2>1. \A i \in DOMAIN s.paths : HasFields(s.paths[i], PathFields)
    BY DEF HasState, HasList
  <2>2. ASSUME NEW i \in DOMAIN s.paths
        PROVE  MinimumPath + Length <= 4 + Size(Written("paths", s.paths[i]))
    <3> DEFINE x == Size(Put(PathFields, s.paths[i]))
    <3>1. x >= MinimumPath
      BY <2>1, LeastSizes
    <3>2. Size(Written("paths", s.paths[i])) = x
      BY DEF Written
    <3>3. x \in Nat
      BY <2>1, LayoutsWritten, FieldsPut, RecordHasSize
    <3> HIDE DEF x
    <3> QED
      BY <3>1, <3>2, <3>3 DEF MinimumPath, Length
  <2> QED
    BY <2>2 DEF HasLeast, MinimumPath, Length
<1>3. HasLeast("multipath", s.multipath, MinimumMultipath + Length)
  <2>1. \A i \in DOMAIN s.multipath : /\ HasFields(s.multipath[i], MultipathFields)
                                      /\ HasList(s.multipath[i].members, ListedFields)
    BY DEF HasState, HasList
  <2>2. ASSUME NEW i \in DOMAIN s.multipath
        PROVE  MinimumMultipath + Length <= 4 + Size(Written("multipath", s.multipath[i]))
    <3> DEFINE v == s.multipath[i]
               a == Put(MultipathFields, v)
               f == FlattenSeq(Entries(ListedFields, v.members))
               b == PutList(ListedFields, v.members)
               none == <<>>
    <3>1. Size(a) >= MinimumMultipath - Length
      BY <2>1, LeastSizes
    <3>2. IsFields(a) /\ IsFields(b)
      <4>1. HasFields(v, MultipathFields) /\ IsWritten(MultipathFields, 2)
        BY <2>1, LayoutsWritten
      <4>2. HasList(v.members, ListedFields) /\ IsWritten(ListedFields, 1)
        BY <2>1, LayoutsWritten
      <4> HIDE DEF v
      <4> QED
        BY <4>1, <4>2, FieldsPut, FieldsPutList
    <3>3. Size(b) >= Length
      <4> DEFINE c == Count(v.members)
      <4>1. v.members \in Seq(Range(v.members)) /\ Len(v.members) \in Nat
        BY <2>1 DEF HasList
      <4>2. b = c \o f
        BY Zenon DEF PutList, Entries
      <4>3. IsFields(f)
        <5>1. PICK T : AreFields(T, Entries(ListedFields, v.members))
          BY <2>1, LayoutsWritten, EntriesPut
        <5> DEFINE ss == Entries(ListedFields, v.members)
        <5> HIDE DEF ss
        <5>2. ss \in Seq(Seq(T)) /\ \A t \in T : IsPlain(t)
          BY <5>1 DEF AreFields, ss
        <5>3. <<>> \in Seq(T)
          OBVIOUS
        <5>4. FlattenSeq(ss) \in Seq(T)
          BY <5>2, <5>3, FlattenAppend
        <5>5. IsFields(FlattenSeq(ss))
          BY <5>2, <5>4 DEF IsFields
        <5> QED
          BY <5>5 DEF ss
      <4>4. IsFields(c) /\ Size(c) = Length
        <5>1. IsFields(c) /\ c = <<c[1]>> /\ IsPlain(c[1])
          BY <4>1, FieldCount
        <5>2. c[1].kind = "u32"
          BY DEF Count
        <5> DEFINE t == c[1]
        <5> HIDE DEF c, t
        <5>3. IsPlain(t) /\ t.kind = "u32"
          BY <5>1, <5>2 DEF t
        <5>4. TokenSize(t) = FieldSize(t) /\ FieldSize(t) \in Nat
          BY <5>3, FieldHasSize
        <5>5. FieldSize(t) = Length
          BY <5>3 DEF FieldSize, Width, Length
        <5>6. Size(<<t>>) = TokenSize(t)
          BY <5>4, SizeOfOne
        <5> QED
          BY <5>1, <5>4, <5>5, <5>6, Zenon DEF t
      <4> HIDE DEF c, f, b
      <4>5. Size(c \o f) = Size(c) + Size(f) /\ Size(f) \in Nat
        <5>1. IsSized(c) /\ IsSized(f)
          BY <4>3, <4>4, RecordHasSize
        <5> QED
          BY <5>1, SizeJoin
      <4>6. Size(b) = Length + Size(f)
        BY <4>2, <4>4, <4>5, Zenon
      <4> QED
        BY <4>5, <4>6 DEF Length
    <3>4. Written("multipath", v) = a \o b
      <4>1. Written("multipath", v) = MultipathRecord(v)
        BY DEF Written
      <4> QED
        BY <4>1, Zenon DEF MultipathRecord
    <3> DEFINE w == Written("multipath", v)
    <3> HIDE DEF a, b, w
    <3>5. Size(a \o b) = Size(a) + Size(b) /\ Size(a) \in Nat /\ Size(b) \in Nat
      <4>1. IsSized(a) /\ IsSized(b)
        BY <3>2, RecordHasSize
      <4> QED
        BY <4>1, SizeJoin
    <3>6. Size(w) = Size(a) + Size(b)
      BY <3>4, <3>5, Zenon DEF w
    <3>7. MinimumMultipath + Length <= 4 + Size(w)
      BY <3>1, <3>3, <3>5, <3>6 DEF MinimumMultipath, Length
    <3> QED
      BY <3>7 DEF w
  <2> QED
    BY <2>2 DEF HasLeast, MinimumMultipath, Length
<1>4. HasLeast("attempts", s.attempts, MinimumAttempt + Length)
  <2>1. \A i \in DOMAIN s.attempts : HasFields(s.attempts[i], AttemptFields)
    BY DEF HasState, HasList
  <2>2. ASSUME NEW i \in DOMAIN s.attempts
        PROVE  MinimumAttempt + Length <= 4 + Size(Written("attempts", s.attempts[i]))
    <3> DEFINE x == Size(Put(AttemptFields, s.attempts[i]))
    <3>1. x >= MinimumAttempt
      BY <2>1, LeastSizes
    <3>2. Size(Written("attempts", s.attempts[i])) = x
      BY DEF Written
    <3>3. x \in Nat
      BY <2>1, LayoutsWritten, FieldsPut, RecordHasSize
    <3> HIDE DEF x
    <3> QED
      BY <3>1, <3>2, <3>3 DEF MinimumAttempt, Length
  <2> QED
    BY <2>2 DEF HasLeast, MinimumAttempt, Length
<1> QED
  BY <1>1, <1>2, <1>3, <1>4

\* There is room for the publishers, as the run of the store asks.
HasRoom(s) ==
  LET r == Records(s) IN
  (MinimumPublisher + Length) * Len(r.publishers)
    <= Size(Collection(r.publishers)) + Size(Collection(r.attempts)) - Length

\* Then the reader finds it, before the attempts.
LEMMA PublishersFit ==
  ASSUME NEW s, HasRoom(s), IsGiven("publishers", s.publishers), IsGiven("attempts", s.attempts)
  PROVE  FitsRecords("publishers", s.publishers, Stored("attempts", s.attempts), MinimumPublisher + Length)
<1> DEFINE es == s.publishers
           a == Stored("attempts", s.attempts)
           b == Stored("publishers", es)
           p == RecordTokens("publishers", es)
           n == Len(es)
<1>1. /\ Records(s).publishers = WrittenAll("publishers", es)
      /\ Records(s).attempts = WrittenAll("attempts", s.attempts)
  BY RecordsWritten
<1>2. Len(WrittenAll("publishers", es)) = n /\ n \in Nat
  <2>1. \E E : es \in Seq(E)
    BY DEF IsGiven
  <2> QED
    BY <2>1 DEF WrittenAll
<1>3. (MinimumPublisher + Length) * n <= Size(b) + Size(a) - Length
  <2>1. (MinimumPublisher + Length) * Len(Records(s).publishers)
          <= Size(Collection(Records(s).publishers)) + Size(Collection(Records(s).attempts)) - Length
    BY Zenon DEF HasRoom
  <2> QED
    BY <1>1, <1>2, <2>1, Zenon DEF Stored
<1>4. IsBody(a) /\ IsBody(p) /\ b = Count(es) \o p /\ Size(Count(es)) = Length /\ IsBody(Count(es))
  <2>1. IsBody(a) /\ IsBody(p) /\ b = Count(es) \o p /\ Size(Count(es)) = Length
    BY StoredIsBody, Zenon
  <2>2. IsBody(Count(es))
    BY <1>2, FieldCount, FieldsAreBody
  <2> QED
    BY <2>1, <2>2
<1> HIDE DEF a, b, p, n
<1>5. /\ Size(Count(es) \o p) = Size(Count(es)) + Size(p) /\ Size(p \o a) = Size(p) + Size(a)
      /\ Size(p) \in Nat /\ Size(a) \in Nat
  <2> DEFINE c == Count(es)
  <2>1. IsSized(c) /\ IsSized(p) /\ IsSized(a)
    BY <1>4, BodyHasSize
  <2> HIDE DEF c
  <2>2. Size(c \o p) = Size(c) + Size(p) /\ Size(p \o a) = Size(p) + Size(a) /\ Size(p) \in Nat /\ Size(a) \in Nat
    BY <2>1, SizeJoin
  <2> QED
    BY <2>2 DEF c
<1>6. Size(b) = Length + Size(p)
  BY <1>4, <1>5, Zenon
<1>7. n * (MinimumPublisher + Length) <= Size(p \o a)
  BY <1>2, <1>3, <1>5, <1>6 DEF MinimumPublisher, Length
<1> QED
  BY <1>7, Zenon DEF FitsRecords, n, p, a

\* The body of a state, one part behind the other.
BodyParts(s) ==
  Put(Counters, s) \o (Stored("sets", s.sets) \o (Stored("paths", s.paths)
    \o (Stored("multipath", s.multipath) \o (Stored("publishers", s.publishers)
    \o (Stored("attempts", s.attempts) \o <<>>)))))

\* All the collections of a state are written, read, and of records.
AreGiven(s) ==
  /\ IsGiven("sets", s.sets) /\ IsGiven("paths", s.paths) /\ IsGiven("multipath", s.multipath)
  /\ IsGiven("publishers", s.publishers) /\ IsGiven("attempts", s.attempts)

\* The file of a state has this body.
LEMMA EncodedParts ==
  ASSUME NEW s, HasState(s), AreGiven(s)
  PROVE  Encoded(s) = Sealed("WPFS", Version, 0, BodyParts(s))
<1> DEFINE k == Put(Counters, s)
           d2 == Stored("sets", s.sets)
           d3 == Stored("paths", s.paths)
           d4 == Stored("multipath", s.multipath)
           d5 == Stored("publishers", s.publishers)
           d6 == Stored("attempts", s.attempts)
<1>1. IsBody(k) /\ IsBody(d2) /\ IsBody(d3) /\ IsBody(d4) /\ IsBody(d5) /\ IsBody(d6)
  <2>1. IsFields(k)
    BY LayoutsWritten, FieldsPut DEF HasState
  <2>2. IsBody(k)
    BY <2>1, FieldsAreBody
  <2> QED
    BY <2>2, StoredIsBody DEF AreGiven
<1>2. Encoded(s) = Sealed("WPFS", Version, 0, ((((k \o d2) \o d3) \o d4) \o d5) \o d6)
  <2>1. Encoded(s) = Sealed("WPFS", Version, 0,
          ((((k \o Collection(Records(s).sets)) \o Collection(Records(s).paths))
            \o Collection(Records(s).multipath)) \o Collection(Records(s).publishers))
            \o Collection(Records(s).attempts))
    BY Zenon DEF Encoded
  <2> QED
    BY <2>1, RecordsWritten, Zenon DEF Stored
<1>3. BodyParts(s) = k \o (d2 \o (d3 \o (d4 \o (d5 \o (d6 \o <<>>)))))
  BY Zenon DEF BodyParts
<1> HIDE DEF k, d2, d3, d4, d5, d6
<1>4. d6 \o <<>> = d6
  BY <1>1 DEF IsBody
<1>5. IsBody(d5 \o d6) /\ IsBody(d4 \o (d5 \o d6)) /\ IsBody(d3 \o (d4 \o (d5 \o d6)))
  <2>1. IsBody(d5 \o d6)
    BY <1>1, BodyJoin
  <2>2. IsBody(d4 \o (d5 \o d6))
    BY <1>1, <2>1, BodyJoin
  <2> QED
    BY <1>1, <2>1, <2>2, BodyJoin
<1>6. IsBody(k \o d2) /\ IsBody((k \o d2) \o d3) /\ IsBody(((k \o d2) \o d3) \o d4)
  <2>1. IsBody(k \o d2)
    BY <1>1, BodyJoin
  <2>2. IsBody((k \o d2) \o d3)
    BY <1>1, <2>1, BodyJoin
  <2> QED
    BY <1>1, <2>1, <2>2, BodyJoin
<1>7. AreJoined(((k \o d2) \o d3) \o d4, d5, d6)
  BY <1>1, <1>6, PartsJoined
<1>8. AreJoined((k \o d2) \o d3, d4, d5 \o d6)
  BY <1>1, <1>5, <1>6, PartsJoined
<1>9. AreJoined(k \o d2, d3, d4 \o (d5 \o d6))
  BY <1>1, <1>5, <1>6, PartsJoined
<1>10. AreJoined(k, d2, d3 \o (d4 \o (d5 \o d6)))
  BY <1>1, <1>5, PartsJoined
<1> QED
  BY <1>2, <1>3, <1>4, <1>7, <1>8, <1>9, <1>10, Zenon DEF AreJoined

\* One collection is read behind what was read under the names M.
LEMMA NextGiven ==
  ASSUME NEW name, NEW es, IsGiven(name, es), NEW after, IsBody(after), NEW read, IsMapping(read),
         NEW limit, ~(Len(es) > limit), NEW unit, FitsRecords(name, es, after, unit)
  PROVE  GetRecords(Ready(Stored(name, es) \o after, read), name, limit, unit)
           = Ready(after, With(read, name, es))
<1>1. PICK E : es \in Seq(E)
  BY DEF IsGiven
<1>2. AreTakeable(name, es) /\ AreRecords(name, es)
  BY DEF IsGiven
<1>3. GetsCollection(after, read, name, limit, unit, es)
  BY <1>1, <1>2, CollectionGiven
<1> QED
  BY <1>3, Zenon DEF GetsCollection, Stored

\* The sets are within the limits that are asked for when all of them are read.
LEMMA TotalsGiven ==
  ASSUME NEW s, HasState(s), WithinLimits(s), NEW r, r.read.sets = s.sets
  PROVE  WithinTotals(r) = r
<1> DEFINE sets == s.sets
           f == [i \in DOMAIN sets |-> Len(sets[i].members)]
           n == Len(sets)
<1>1. sets \in Seq(Range(sets)) /\ \A i \in DOMAIN sets : HasSet(sets[i])
  BY DEF HasState
<1>2. /\ Members(sets) <= MaxTotal /\ \A i \in DOMAIN sets : sets[i].space <= MaxSpace
  BY DEF WithinLimits
<1> HIDE DEF sets
<1>3. n \in Nat /\ DOMAIN sets = 1..n
  BY <1>1
<1>4. \A i \in DOMAIN sets : Len(sets[i].members) \in Nat
  BY <1>1 DEF HasSet, HasList
<1>5. f \in [1..n -> Nat] /\ \A i \in 1..n : 0 <= f[i]
  BY <1>3, <1>4
<1>6. Members(sets) = Total(f)
  BY DEF Members
<1> HIDE DEF f
<1>7. Total(f) \in Nat
  BY <1>3, <1>5, TotalAtLeast
<1>8. ~(Members(sets) > MaxTotal)
  BY <1>2, <1>6, <1>7, LimitsAssumption
<1>9. ASSUME NEW i \in DOMAIN sets PROVE ~(sets[i].space > MaxSpace)
  <2>1. HasFields(sets[i], SetFields)
    BY <1>1 DEF HasSet
  <2>2. SetFields[15] = <<"u32", "space">> /\ 15 \in DOMAIN SetFields
    BY DEF SetFields
  <2>3. sets[i]["space"] \in Nat
    BY <2>1, <2>2 DEF HasFields
  <2> QED
    BY <1>2, <2>3, LimitsAssumption
<1>10. ~ \E set \in Range(sets) : set.space > MaxSpace
  BY <1>9 DEF Range
<1>11. r.read.sets = sets
  BY DEF sets
<1> QED
  BY <1>8, <1>10, <1>11, Zenon DEF WithinTotals

\* A state that is exported and named, and that the encoder does not refuse, is loaded
\* as it was.
LEMMA EncodedIsDecoded ==
  ASSUME NEW s, HasState(s), IsExport(s), HasNames(s), WithinLimits(s), HasRoom(s)
  PROVE  Decoded(Encoded(s)) = Ready(<<>>, s)
<1> DEFINE k == Put(Counters, s)
           d2 == Stored("sets", s.sets)
           d3 == Stored("paths", s.paths)
           d4 == Stored("multipath", s.multipath)
           d5 == Stored("publishers", s.publishers)
           d6 == Stored("attempts", s.attempts)
           x6 == <<>>
           x5 == d6 \o x6
           x4 == d5 \o x5
           x3 == d4 \o x4
           x2 == d3 \o x3
           x1 == d2 \o x2
           body == BodyParts(s)
           M1 == Names(ReadCounters)
           M2 == M1 \cup {"sets"}
           M3 == M2 \cup {"paths"}
           M4 == M3 \cup {"multipath"}
           M5 == M4 \cup {"publishers"}
           M6 == M5 \cup {"attempts"}
           read(M) == Over(<<>>, M, s)
<1>1. AreGiven(s)
  BY StateGiven DEF AreGiven
<1>2. /\ IsGiven("sets", s.sets) /\ IsGiven("paths", s.paths) /\ IsGiven("multipath", s.multipath)
      /\ IsGiven("publishers", s.publishers) /\ IsGiven("attempts", s.attempts)
  BY <1>1 DEF AreGiven
<1>3. body = k \o x1
  BY Zenon DEF BodyParts
<1>4. /\ IsBody(d2) /\ IsBody(d3) /\ IsBody(d4) /\ IsBody(d5) /\ IsBody(d6) /\ x5 = d6
      /\ IsBody(x6)
  <2>1. IsBody(d2) /\ IsBody(d3) /\ IsBody(d4) /\ IsBody(d5) /\ IsBody(d6)
    BY <1>2, StoredIsBody
  <2> HIDE DEF d6
  <2>2. PICK B : d6 \in Seq(B) /\ \A t \in B : IsBodyToken(t)
    BY <2>1 DEF IsBody
  <2>3. d6 \o <<>> = d6 /\ <<>> \in Seq(B)
    BY <2>2
  <2>4. IsBody(<<>>)
    BY <2>2, <2>3 DEF IsBody
  <2> QED
    BY <2>1, <2>3, <2>4
<1> HIDE DEF k, d2, d3, d4, d5, d6, x6, body
<1>5. IsBody(x1) /\ IsBody(x2) /\ IsBody(x3) /\ IsBody(x4) /\ IsBody(x5)
  <2>1. IsBody(x5)
    BY <1>4, BodyJoin
  <2> HIDE DEF x5
  <2>2. IsBody(x4)
    BY <1>4, <2>1, BodyJoin
  <2> HIDE DEF x4
  <2>3. IsBody(x3)
    BY <1>4, <2>2, BodyJoin
  <2> HIDE DEF x3
  <2>4. IsBody(x2)
    BY <1>4, <2>3, BodyJoin
  <2> HIDE DEF x2
  <2>5. IsBody(x1)
    BY <1>4, <2>4, BodyJoin
  <2> QED
    BY <2>1, <2>2, <2>3, <2>4, <2>5
<1>6. /\ IsMapping(<<>>) /\ \A M : IsMapping(read(M))
      /\ \A M, N : Over(read(M), N, s) = read(M \cup N)
      /\ \A M, name : With(read(M), name, s[name]) = read(M \cup {name})
  <2>1. \A M, N : Over(read(M), N, s) = read(M \cup N)
    BY OverThen
  <2>2. \A M, name : With(read(M), name, s[name]) = read(M \cup {name})
    <3> TAKE M, name
    <3> DEFINE w == read(M)
    <3>1. Over(w, {name}, s) = read(M \cup {name})
      BY <2>1
    <3> HIDE DEF w
    <3>2. With(w, name, s[name]) = Over(w, {name}, s)
      BY OverOne
    <3> QED
      BY <3>1, <3>2, Zenon DEF w
  <2> QED
    BY <2>1, <2>2, ReadsAreMappings
<1>7. /\ HasLeast("sets", s.sets, Length)
      /\ HasLeast("paths", s.paths, MinimumPath + Length)
      /\ HasLeast("multipath", s.multipath, MinimumMultipath + Length)
      /\ HasLeast("attempts", s.attempts, MinimumAttempt + Length)
  BY <1>2, RecordsHaveLeast
<1>8. /\ ~(Len(s.sets) > MaxSets) /\ ~(Len(s.publishers) > MaxPublishers)
      /\ ~(Len(s.attempts) > MaxAttempts)
  <2>1. Len(s.sets) \in Nat /\ Len(s.publishers) \in Nat /\ Len(s.attempts) \in Nat
    BY <1>2, StoredIsBody
  <2>2. Len(s.sets) <= MaxSets /\ Len(s.publishers) <= MaxPublishers /\ Len(s.attempts) <= MaxAttempts
    BY DEF WithinLimits
  <2> QED
    BY <2>1, <2>2, LimitsAssumption
<1>9. /\ FitsRecords("sets", s.sets, x2, Length)
      /\ FitsRecords("paths", s.paths, x3, MinimumPath + Length)
      /\ FitsRecords("multipath", s.multipath, x4, MinimumMultipath + Length)
      /\ FitsRecords("publishers", s.publishers, x5, MinimumPublisher + Length)
      /\ FitsRecords("attempts", s.attempts, x6, MinimumAttempt + Length)
  <2>1. FitsRecords("publishers", s.publishers, d6, MinimumPublisher + Length)
    BY <1>2, PublishersFit DEF d6
  <2> HIDE DEF x1, x2, x3, x4
  <2>2. FitsRecords("publishers", s.publishers, x5, MinimumPublisher + Length)
    BY <1>4, <2>1, Zenon
  <2> HIDE DEF x5
  <2> QED
    BY <1>2, <1>4, <1>5, <1>7, <2>2, StoredFits
<1> DEFINE r1 == GetAll(Ready(body, <<>>), ReadCounters)
           g2 == GetRecords(r1, "sets", MaxSets, Length)
           r2 == GetSets(r1)
           r3 == GetPaths(r2)
           r4 == GetMultipath(r3)
           r5 == GetPublishers(r4)
           r6 == GetAttempts(r5)
<1> HIDE DEF x1, x2, x3, x4, x5, M1, M2, M3, M4, M5, M6, read
<1>10. r1 = Ready(x1, read(M1))
  <2>1. IsLayout(ReadCounters, 5) /\ Matches(Counters, ReadCounters)
    BY LayoutsAgree
  <2>2. IsWritten(Counters, 5) /\ IsShort(s, ReadCounters)
    BY LayoutsWritten, ListsHaveNoString, NoStringIsShort
  <2>3. HasFields(s, Counters)
    BY DEF HasState
  <2>4. IsKnown(s, ReadCounters)
    BY DEF IsKnown, ReadCounters, Known
  <2>5. GetsAll(k \o x1, <<>>, ReadCounters, x1, s)
    BY <1>5, <1>6, <2>1, <2>2, <2>3, <2>4, LayoutGiven DEF k
  <2> QED
    BY <1>3, <2>5, Zenon DEF GetsAll, read, M1
<1> HIDE DEF r1
<1>11. r2 = Ready(x2, read(M2))
  <2> DEFINE w == read(M1)
  <2>1. IsMapping(w)
    BY <1>6
  <2> HIDE DEF w
  <2>2. GetRecords(Ready(d2 \o x2, w), "sets", MaxSets, Length) = Ready(x2, With(w, "sets", s["sets"]))
    BY <1>2, <1>5, <1>8, <1>9, <2>1, NextGiven DEF d2
  <2>3. With(w, "sets", s["sets"]) = read(M2)
    BY <1>6, Zenon DEF w, M2
  <2>4. g2 = Ready(x2, read(M2))
    BY <1>10, <2>2, <2>3, Zenon DEF w, x1
  <2> HIDE DEF g2
  <2>5. g2.read.sets = s.sets
    <3>1. "sets" \in M2
      BY DEF M2
    <3>2. read(M2)["sets"] = s["sets"]
      BY <3>1 DEF read, Over
    <3> QED
      BY <2>4, <3>2 DEF Ready
  <2>6. WithinTotals(g2) = g2
    BY <2>5, TotalsGiven
  <2>7. r2 = WithinTotals(g2)
    BY Zenon DEF GetSets, g2
  <2> QED
    BY <2>4, <2>6, <2>7, Zenon
<1> HIDE DEF r2
<1>12. r3 = Ready(x3, read(M3))
  <2> DEFINE w == read(M2)
             limit == Unlimited(Ready(d3 \o x3, w))
             unit == MinimumPath + Length
  <2>1. IsMapping(w)
    BY <1>6
  <2> HIDE DEF w, unit
  <2>2. ~(Len(s.paths) > limit)
    BY <1>2, <1>5, <1>7, StoredFits DEF d3
  <2> HIDE DEF limit
  <2>3. FitsRecords("paths", s.paths, x3, unit)
    BY <1>9 DEF unit
  <2>4. GetRecords(Ready(d3 \o x3, w), "paths", limit, unit) = Ready(x3, With(w, "paths", s["paths"]))
    BY <1>2, <1>5, <2>1, <2>2, <2>3, NextGiven DEF d3
  <2>5. With(w, "paths", s["paths"]) = read(M3)
    BY <1>6, Zenon DEF w, M3
  <2>6. r2 = Ready(d3 \o x3, w)
    BY <1>11, Zenon DEF w, x2
  <2>7. r3 = GetRecords(r2, "paths", Unlimited(r2), unit)
    BY Zenon DEF GetPaths, unit
  <2> QED
    BY <2>4, <2>5, <2>6, <2>7, Zenon DEF limit
<1> HIDE DEF r3
<1>13. r4 = Ready(x4, read(M4))
  <2> DEFINE w == read(M3)
             limit == Unlimited(Ready(d4 \o x4, w))
             unit == MinimumMultipath + Length
  <2>1. IsMapping(w)
    BY <1>6
  <2> HIDE DEF w, unit
  <2>2. ~(Len(s.multipath) > limit)
    BY <1>2, <1>5, <1>7, StoredFits DEF d4
  <2> HIDE DEF limit
  <2>3. FitsRecords("multipath", s.multipath, x4, unit)
    BY <1>9 DEF unit
  <2>4. GetRecords(Ready(d4 \o x4, w), "multipath", limit, unit)
          = Ready(x4, With(w, "multipath", s["multipath"]))
    BY <1>2, <1>5, <2>1, <2>2, <2>3, NextGiven DEF d4
  <2>5. With(w, "multipath", s["multipath"]) = read(M4)
    BY <1>6, Zenon DEF w, M4
  <2>6. r3 = Ready(d4 \o x4, w)
    BY <1>12, Zenon DEF w, x3
  <2>7. r4 = GetRecords(r3, "multipath", Unlimited(r3), unit)
    BY Zenon DEF GetMultipath, unit
  <2> QED
    BY <2>4, <2>5, <2>6, <2>7, Zenon DEF limit
<1> HIDE DEF r4
<1>14. r5 = Ready(x5, read(M5))
  <2> DEFINE w == read(M4)
             unit == MinimumPublisher + Length
  <2>1. IsMapping(w)
    BY <1>6
  <2> HIDE DEF w, unit
  <2>2. FitsRecords("publishers", s.publishers, x5, unit)
    BY <1>9 DEF unit
  <2>3. GetRecords(Ready(d5 \o x5, w), "publishers", MaxPublishers, unit)
          = Ready(x5, With(w, "publishers", s["publishers"]))
    BY <1>2, <1>5, <1>8, <2>1, <2>2, NextGiven DEF d5
  <2>4. With(w, "publishers", s["publishers"]) = read(M5)
    BY <1>6, Zenon DEF w, M5
  <2>5. r4 = Ready(d5 \o x5, w)
    BY <1>13, Zenon DEF w, x4
  <2>6. r5 = GetRecords(r4, "publishers", MaxPublishers, unit)
    BY Zenon DEF GetPublishers, unit
  <2> QED
    BY <2>3, <2>4, <2>5, <2>6, Zenon
<1> HIDE DEF r5
<1>15. r6 = Ready(x6, read(M6))
  <2> DEFINE w == read(M5)
             unit == MinimumAttempt + Length
  <2>1. IsMapping(w)
    BY <1>6
  <2> HIDE DEF w, unit
  <2>2. FitsRecords("attempts", s.attempts, x6, unit)
    BY <1>9 DEF unit
  <2>3. GetRecords(Ready(d6 \o x6, w), "attempts", MaxAttempts, unit)
          = Ready(x6, With(w, "attempts", s["attempts"]))
    BY <1>2, <1>4, <1>8, <2>1, <2>2, NextGiven DEF d6
  <2>4. With(w, "attempts", s["attempts"]) = read(M6)
    BY <1>6, Zenon DEF w, M6
  <2>5. r5 = Ready(d6 \o x6, w)
    BY <1>14, Zenon DEF w, x5
  <2>6. r6 = GetRecords(r5, "attempts", MaxAttempts, unit)
    BY Zenon DEF GetAttempts, unit
  <2> QED
    BY <2>3, <2>4, <2>5, <2>6, Zenon
<1> HIDE DEF r6
<1>16. read(M6) = s
  <2>1. Exactly(s, Names(Counters) \cup Collections)
    BY DEF IsExport
  <2>2. Names(Counters) = M1
    BY DEF Counters, ReadCounters, M1
  <2>3. Names(Counters) \cup Collections = M6
    BY <2>2 DEF M2, M3, M4, M5, M6, Collections
  <2>4. Exactly(s, M6)
    BY <2>1, <2>3, Zenon
  <2> QED
    BY <2>4, OverAll DEF read
<1>17. Ended(r6) = Ready(<<>>, s)
  <2>1. r6 = Ready(<<>>, s)
    BY <1>15, <1>16, Zenon DEF x6
  <2>2. r6.rest = <<>>
    BY <2>1 DEF Ready
  <2> QED
    BY <2>1, <2>2, Zenon DEF Ended
<1>18. Encoded(s) = Sealed("WPFS", Version, 0, body)
  BY <1>1, EncodedParts DEF body
<1> DEFINE f == Sealed("WPFS", Version, 0, body)
<1>19. /\ f.magic = "WPFS" /\ f.version = Version /\ f.flags = 0 /\ f.body = body
       /\ f.digest = <<f.magic, f.version, f.flags, f.body>>
  BY DEF Sealed
<1> HIDE DEF f
<1>20. Reader(body) = Ready(body, <<>>)
  BY Zenon DEF Reader, Ready
<1>21. Decoded(f) = Ended(r6)
  BY <1>19, <1>20, Zenon DEF Decoded, r1, r2, r3, r4, r5, r6
<1> QED
  BY <1>17, <1>18, <1>21, Zenon DEF f

\* What an edit makes of a sequence is a sequence of the same tokens, or with one value.
LEMMA EditsOf ==
  ASSUME NEW T, NEW tokens \in Seq(T),
         \A t \in T : t.kind # "record" => \A v \in Noise : [t EXCEPT !.value = v] \in T,
         NEW e \in Edits(tokens)
  PROVE  e \in Seq(T)
<1> DEFINE n == Len(tokens)
<1>1. n \in Nat /\ DOMAIN tokens = 1..n /\ \A i \in 1..n : tokens[i] \in T
  OBVIOUS
<1>2. \/ \E i \in 1..n, v \in Noise : tokens[i].kind # "record" /\ e = [tokens EXCEPT ![i].value = v]
      \/ \E i \in 1..n : e = RemoveAt(tokens, i)
      \/ \E i \in 1..n : e = InsertAt(tokens, i, tokens[i])
      \/ \E i \in 0..(n - 1) : e = SubSeq(tokens, 1, i)
  BY <1>1 DEF Edits
<1>3. ASSUME NEW i \in 1..n, NEW v \in Noise, tokens[i].kind # "record",
             e = [tokens EXCEPT ![i].value = v]
      PROVE  e \in Seq(T)
  <2> DEFINE t == [tokens[i] EXCEPT !.value = v]
  <2>1. t \in T
    BY <1>1, <1>3
  <2>2. e = [tokens EXCEPT ![i] = t]
    BY <1>3
  <2> HIDE DEF t
  <2> QED
    BY <1>1, <2>1, <2>2, ExceptSeq
<1>4. \A i, j \in Int : i >= 1 /\ j <= n => SubSeq(tokens, i, j) \in Seq(T)
  <2> TAKE i, j \in Int
  <2> HAVE i >= 1 /\ j <= n
  <2>1. \A k \in i..j : tokens[k] \in T
    BY <1>1
  <2> QED
    BY <2>1, SubSeqProperties
<1>5. ASSUME NEW i \in 1..n PROVE RemoveAt(tokens, i) \in Seq(T) /\ InsertAt(tokens, i, tokens[i]) \in Seq(T)
  <2> DEFINE a == SubSeq(tokens, 1, i - 1)
             b == SubSeq(tokens, i + 1, n)
             c == SubSeq(tokens, i, n)
             m == <<tokens[i]>>
  <2>1. a \in Seq(T) /\ b \in Seq(T) /\ c \in Seq(T)
    BY <1>1, <1>4
  <2>2. m \in Seq(T)
    BY <1>1
  <2>3. RemoveAt(tokens, i) = a \o b /\ InsertAt(tokens, i, tokens[i]) = (a \o m) \o c
    BY Zenon DEF RemoveAt, InsertAt
  <2> HIDE DEF a, b, c, m
  <2>4. a \o b \in Seq(T) /\ a \o m \in Seq(T)
    BY <2>1, <2>2
  <2>5. (a \o m) \o c \in Seq(T)
    <3> DEFINE am == a \o m
    <3> HIDE DEF am
    <3>1. am \in Seq(T)
      BY <2>4 DEF am
    <3>2. am \o c \in Seq(T)
      BY <2>1, <3>1
    <3> QED
      BY <3>2 DEF am
  <2> QED
    BY <2>3, <2>4, <2>5
<1>6. \A i \in 0..(n - 1) : SubSeq(tokens, 1, i) \in Seq(T)
  BY <1>1, <1>4
<1> HIDE DEF n
<1> QED
  BY <1>2, <1>3, <1>5, <1>6

\* Edited fields are fields.
LEMMA FieldsEdited ==
  ASSUME NEW tokens, IsFields(tokens), NEW e \in Edits(tokens)
  PROVE  IsFields(e)
<1>1. PICK S : tokens \in Seq(S) /\ \A t \in S : IsPlain(t)
  BY DEF IsFields
<1> DEFINE M(t, v) == [t EXCEPT !.value = v]
           T == S \cup {M(t, v) : t \in S, v \in Noise}
<1>2. Noise \subseteq Nat
  BY StoreAssumption
<1>3. \A t \in S : \A v : M(t, v) = [kind |-> t.kind, value |-> v]
  BY <1>1 DEF IsPlain, IsField, Kinds
<1> HIDE DEF M
<1>4. /\ S \subseteq T /\ \A t \in S : \A v \in Noise : M(t, v) \in T
      /\ \A t \in T : t \in S \/ \E u \in S, v \in Noise : t = M(u, v)
  OBVIOUS
<1> HIDE DEF T
<1>5. ASSUME NEW t \in T PROVE IsPlain(t)
  <2>1. CASE t \in S
    BY <1>1, <2>1
  <2>2. ASSUME NEW u \in S, NEW v \in Noise, t = M(u, v) PROVE IsPlain(t)
    <3>1. t = [kind |-> u.kind, value |-> v] /\ v \in Nat
      BY <1>2, <1>3, <2>2
    <3>2. u.kind \in Kinds
      BY <1>1 DEF IsPlain
    <3> QED
      BY <3>1, <3>2 DEF IsPlain, IsField
  <2> QED
    BY <1>4, <2>1, <2>2
<1>6. ASSUME NEW t \in T, NEW v \in Noise PROVE [t EXCEPT !.value = v] \in T
  <2>1. CASE t \in S
    BY <1>4, <2>1 DEF M
  <2>2. ASSUME NEW u \in S, NEW w \in Noise, t = M(u, w) PROVE [t EXCEPT !.value = v] \in T
    <3>1. t = [kind |-> u.kind, value |-> w]
      BY <1>3, <2>2
    <3>2. [t EXCEPT !.value = v] = M(u, v)
      BY <1>3, <3>1
    <3> QED
      BY <1>4, <3>2
  <2> QED
    BY <1>4, <2>1, <2>2
<1>7. tokens \in Seq(T)
  BY <1>1, <1>4, SeqMonotonic
<1>8. e \in Seq(T)
  BY <1>6, <1>7, EditsOf
<1> QED
  BY <1>5, <1>8 DEF IsFields

\* A rewritten body is a body.
LEMMA BodyRewritten ==
  ASSUME NEW body, IsBody(body), NEW b \in Rewrites(body)
  PROVE  IsBody(b)
<1>1. PICK S : body \in Seq(S) /\ \A t \in S : IsBodyToken(t)
  BY DEF IsBody
<1>2. CASE b \in Edits(body)
  <2> DEFINE F == {u \in S : u.kind # "record"}
             M(t, v) == [t EXCEPT !.value = v]
             T == S \cup {M(t, v) : t \in F, v \in Noise}
  <2>1. Noise \subseteq Nat
    BY StoreAssumption
  <2>2. F \subseteq S /\ \A t \in S : t \in F <=> t.kind # "record"
    OBVIOUS
  <2>3. \A t \in S : \A v : M(t, v) = [kind |-> t.kind, value |-> v]
    BY <1>1 DEF IsBodyToken, IsPlain, IsField, Kinds
  <2> HIDE DEF M, F
  <2>4. /\ S \subseteq T /\ \A t \in F : \A v \in Noise : M(t, v) \in T
        /\ \A t \in T : t \in S \/ \E u \in F, v \in Noise : t = M(u, v)
    OBVIOUS
  <2> HIDE DEF T
  <2>5. ASSUME NEW t \in T PROVE IsBodyToken(t)
    <3>1. CASE t \in S
      BY <1>1, <3>1
    <3>2. ASSUME NEW u \in F, NEW v \in Noise, t = M(u, v) PROVE IsBodyToken(t)
      <4>1. t = [kind |-> u.kind, value |-> v] /\ v \in Nat /\ u.kind # "record"
        BY <2>1, <2>2, <2>3, <3>2
      <4>2. u \in S /\ u.kind \in Kinds
        BY <1>1, <2>2, <4>1 DEF IsBodyToken, IsPlain
      <4> QED
        BY <4>1, <4>2 DEF IsBodyToken, IsPlain, IsField, Kinds
    <3> QED
      BY <2>4, <3>1, <3>2
  <2>6. ASSUME NEW t \in T, t.kind # "record", NEW v \in Noise PROVE [t EXCEPT !.value = v] \in T
    <3>1. CASE t \in S
      BY <2>2, <2>4, <2>6, <3>1 DEF M
    <3>2. ASSUME NEW u \in F, NEW w \in Noise, t = M(u, w) PROVE [t EXCEPT !.value = v] \in T
      <4>1. u \in S /\ t = [kind |-> u.kind, value |-> w]
        BY <2>2, <2>3, <3>2
      <4>2. [t EXCEPT !.value = v] = M(u, v)
        BY <2>3, <4>1
      <4> QED
        BY <2>4, <4>2
    <3> QED
      BY <2>4, <3>1, <3>2
  <2>7. body \in Seq(T)
    BY <1>1, <2>4, SeqMonotonic
  <2>8. b \in Seq(T)
    BY <1>2, <2>6, <2>7, EditsOf
  <2> QED
    BY <2>5, <2>8 DEF IsBody
<1>3. ASSUME NEW i \in DOMAIN body, body[i].kind = "record", NEW e \in Edits(body[i].value),
             b = [body EXCEPT ![i].value = e]
      PROVE  IsBody(b)
  <2> DEFINE t == [body[i] EXCEPT !.value = e]
             T == S \cup {t}
  <2>1. i \in 1..Len(body) /\ body[i] \in S
    BY <1>1
  <2>2. IsBodyToken(body[i])
    BY <1>1, <2>1
  <2>3. IsFields(e)
    BY <1>3, <2>2, FieldsEdited DEF IsBodyToken
  <2>4. t = [kind |-> "record", value |-> e]
    BY <1>3, <2>2 DEF IsBodyToken, IsPlain, IsField, Kinds
  <2>5. IsBodyToken(t)
    BY <2>3, <2>4 DEF IsBodyToken, IsPlain, IsField, Kinds
  <2>6. b = [body EXCEPT ![i] = t]
    BY <1>3
  <2> HIDE DEF t
  <2>7. S \subseteq T /\ t \in T /\ \A u \in T : IsBodyToken(u)
    BY <1>1, <2>5
  <2> HIDE DEF T
  <2>8. body \in Seq(T)
    BY <1>1, <2>7, SeqMonotonic
  <2>9. b \in Seq(T)
    BY <2>1, <2>6, <2>7, <2>8, ExceptSeq
  <2> QED
    BY <2>7, <2>9 DEF IsBody
<1>4. b \in Edits(body) \/ \E i \in DOMAIN body : body[i].kind = "record" /\ \E e \in Edits(body[i].value) :
                              b = [body EXCEPT ![i].value = e]
  BY DEF Rewrites
<1> QED
  BY <1>2, <1>3, <1>4

----------------------------------------------------------------------------
(* The theorem.                                                             *)

\* The file, if there is one, is a header, a body of tokens and a trailer.
FileIsRead == state \in States /\ (file # NoFile => IsFile(file))

\* Whatever is saved, and whatever else writes the file, leaves such a file.
LEMMA StepReads == FileIsRead /\ [Next]_vars => FileIsRead'
<1> SUFFICES ASSUME FileIsRead, [Next]_vars PROVE FileIsRead'
  OBVIOUS
<1>1. CASE Save
  <2>1. HasState(state)
    BY StoreAssumption DEF FileIsRead
  <2>2. IsFile(Encoded(state))
    BY <2>1, EncodedIsFile
  <2> QED
    BY <1>1, <2>2 DEF Save, FileIsRead
<1>2. CASE Rewrite
  <2>1. IsFile(file) /\ IsBody(file.body)
    BY <1>2 DEF Rewrite, FileIsRead, IsFile, IsBody
  <2>2. ASSUME NEW magic, NEW version, NEW flags, NEW body, IsBody(body)
        PROVE  IsFile(Sealed(magic, version, flags, body))
    BY <2>2 DEF IsFile, IsBody, Sealed
  <2>3. ASSUME NEW body, IsBody(body) PROVE IsFile([file EXCEPT !.body = body])
    BY <2>1, <2>3 DEF IsFile, IsBody
  <2>4. \A body \in Rewrites(file.body) : IsBody(body)
    BY <2>1, BodyRewritten
  <2>5. \/ \E body \in Rewrites(file.body) : file' = Sealed(file.magic, file.version, file.flags, body)
        \/ \E body \in Rewrites(file.body) : file' = [file EXCEPT !.body = body]
        \/ \E h \in Headers : file' = Sealed(h[1], h[2], h[3], file.body)
    BY <1>2, Zenon DEF Rewrite
  <2>6. IsFile(file')
    BY <2>1, <2>2, <2>3, <2>4, <2>5
  <2> QED
    BY <1>2, <2>6 DEF Rewrite, FileIsRead
<1>3. CASE UNCHANGED vars
  BY <1>3 DEF FileIsRead, vars
<1> QED
  BY <1>1, <1>2, <1>3 DEF Next

\* A file that loads is the one that saving what was loaded would write: no state has
\* two encodings, no record hides bytes behind its last field, and the reader is nowhere
\* out of step with the writer, for every state, every limit and every rewriting.
THEOREM OneEncodingHolds == Spec => []OneEncoding
<1>1. Init => FileIsRead
  BY DEF Init, FileIsRead
<1>2. FileIsRead => OneEncoding
  BY DecodedIsEncoded DEF FileIsRead, OneEncoding
<1> QED
  BY <1>1, <1>2, StepReads, PTL DEF Spec

\* A file that was not rewritten is the one that saving the state wrote.
SavedFile ==
  /\ state \in States
  /\ file # NoFile /\ intact => file = Encoded(state) /\ WithinLimits(state)

\* Saving writes that file, and whoever rewrites a file leaves it rewritten.
LEMMA StepSaves == SavedFile /\ [Next]_vars => SavedFile'
<1> SUFFICES ASSUME SavedFile, [Next]_vars PROVE SavedFile'
  OBVIOUS
<1>1. CASE Save
  <2>1. state' = state /\ WithinLimits(state) /\ file' = Encoded(state)
    BY <1>1 DEF Save
  <2> QED
    BY <2>1, Zenon DEF SavedFile
<1>2. CASE Rewrite
  <2>1. state' = state /\ intact' = FALSE
    BY <1>2 DEF Rewrite
  <2> QED
    BY <2>1 DEF SavedFile
<1>3. CASE UNCHANGED vars
  <2>1. state' = state /\ file' = file /\ intact' = intact
    BY <1>3 DEF vars
  <2> QED
    BY <2>1, Zenon DEF SavedFile
<1> QED
  BY <1>1, <1>2, <1>3 DEF Next

\* What was saved is loaded again, field by field: the encoder and the decoder agree on
\* the order and kind of every field, on every limit, on the room each record needs at
\* least, and on what is checked and validated, for every state the engine exports whose
\* multipath views name their members and whose publishers leave room.
THEOREM SavedIsLoadedHolds == Spec => []SavedIsLoaded
<1>1. Init => SavedFile
  BY DEF Init, SavedFile
<1>2. SavedFile => SavedIsLoaded
  <2> SUFFICES ASSUME SavedFile, file # NoFile, intact, RoomForPublishers, MembersAreNamed
               PROVE  Decoded(file).code = "Ok" /\ Decoded(file).read = state
    BY DEF SavedIsLoaded
  <2>1. file = Encoded(state) /\ WithinLimits(state) /\ HasState(state) /\ IsExport(state)
    BY StoreAssumption, ExportAssumption DEF SavedFile
  <2>2. HasRoom(state) /\ HasNames(state)
    BY Zenon DEF RoomForPublishers, HasRoom, MembersAreNamed, HasNames
  <2>3. Decoded(file) = Ready(<<>>, state)
    BY <2>1, <2>2, EncodedIsDecoded
  <2> QED
    BY <2>3 DEF Ready
<1> QED
  BY <1>1, <1>2, StepSaves, PTL DEF Spec

=============================================================================
