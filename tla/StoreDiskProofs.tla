----------------------------- MODULE StoreDiskProofs -----------------------------
(***************************************************************************)
(* What carrying out a plan of StoreDisk does to a directory.              *)
(*                                                                         *)
(* Each kind of plan has a predicate of the directory and of what is left  *)
(* of the plan, which holds when the plan is made (the lemmas ...Begins)   *)
(* and after every change of it (...Goes), and which says what is there at *)
(* the end.  The predicates speak of which changes are still to come and   *)
(* in which order, not of how the plan was put together.                   *)
(***************************************************************************)
EXTENDS StoreDisk, FiniteSetTheorems, SequenceTheorems, TLAPS

\* Mathematical induction, with a set in the place of the predicate: if the set
\* missed n, adding one would map those below n that it has into those without 0.
LEMMA SetInduction ==
    ASSUME NEW S, 0 \in S, \A n \in Nat : n \in S => n + 1 \in S
    PROVE  \A n \in Nat : n \in S
<1> SUFFICES ASSUME NEW n \in Nat, n \notin S PROVE FALSE
    OBVIOUS
<1> DEFINE A == {m \in 0 .. n : m \in S}
           f == [m \in A |-> m + 1]
<1>1. IsFiniteSet(A)
    BY FS_Interval, FS_Subset, 0 \in Int, n \in Int
<1>2. f \in [A -> A \ {0}]
    <2> SUFFICES ASSUME NEW m \in A PROVE m + 1 \in A \ {0}
        OBVIOUS
    <2>1. m # n /\ m \in Nat /\ m <= n /\ m + 1 \in S
        OBVIOUS
    <2> QED BY <2>1
<1>3. IsFiniteSet(A \ {0}) /\ Cardinality(A \ {0}) = Cardinality(A) - 1
    <2>1. 0 \in A
        OBVIOUS
    <2> QED BY <1>1, <2>1, FS_RemoveElement
<1>4. Cardinality(A) \in Nat
    BY <1>1, FS_CardinalityType
<1>5. Cardinality(A \ {0}) < Cardinality(A)
    BY <1>3, <1>4
<1> HIDE DEF f
<1>6. \E x, y \in A : x # y /\ f[x] = f[y]
    BY <1>1, <1>2, <1>3, <1>5, FS_PigeonHole
<1>7. \A x, y \in A : f[x] = f[y] => x = y
    BY DEF f
<1> QED BY <1>6, <1>7

-----------------------------------------------------------------------------
\* FlattenSeq: its recursive function exists, and where each element of it is
\* from.

\* g is the function FlattenSeq builds from the first n sequences of ss.
IsFlattening(g, ss, n) ==
    g = [i \in 1 .. n |-> IF i = 1 THEN ss[i] ELSE g[i - 1] \o ss[i]]

LEMMA FlatteningExists ==
    ASSUME NEW ss, NEW n \in Nat
    PROVE  \E g : IsFlattening(g, ss, n)
<1> DEFINE S == {k \in Nat : \E g : IsFlattening(g, ss, k)}
<1>1. 0 \in S
    <2> DEFINE g == [i \in 1 .. 0 |-> << >>]
    <2>1. IsFlattening(g, ss, 0)
        BY 1 .. 0 = {} DEF IsFlattening
    <2> HIDE DEF g
    <2> QED BY <2>1
<1>2. ASSUME NEW k \in Nat, k \in S PROVE k + 1 \in S
    <2>1. PICK g : IsFlattening(g, ss, k)
        BY <1>2
    <2> DEFINE h == [i \in 1 .. k + 1 |->
                        IF i = k + 1 THEN IF i = 1 THEN ss[i] ELSE g[k] \o ss[i] ELSE g[i]]
    <2>2. \A i \in 1 .. k + 1 : h[i] = IF i = 1 THEN ss[i] ELSE h[i - 1] \o ss[i]
        <3> SUFFICES ASSUME NEW i \in 1 .. k + 1
                     PROVE  h[i] = IF i = 1 THEN ss[i] ELSE h[i - 1] \o ss[i]
            OBVIOUS
        <3>1. CASE i = k + 1
            <4>1. i # 1 => i - 1 \in 1 .. k + 1 /\ i - 1 # k + 1 /\ i - 1 = k
                BY <3>1
            <4>2. i # 1 => h[i - 1] = g[k]
                BY <4>1
            <4> QED BY <3>1, <4>2
        <3>2. CASE i # k + 1
            <4>1. i \in 1 .. k /\ (i # 1 => i - 1 \in 1 .. k + 1 /\ i - 1 # k + 1)
                BY <3>2
            <4>2. h[i] = g[i] /\ (i # 1 => h[i - 1] = g[i - 1])
                BY <3>2, <4>1
            <4>3. g[i] = IF i = 1 THEN ss[i] ELSE g[i - 1] \o ss[i]
                BY <2>1, <4>1 DEF IsFlattening
            <4> QED BY <4>2, <4>3
        <3> QED BY <3>1, <3>2
    <2>3. IsFlattening(h, ss, k + 1)
        <3> DEFINE hh == [i \in 1 .. k + 1 |-> IF i = 1 THEN ss[i] ELSE h[i - 1] \o ss[i]]
        <3>1. DOMAIN h = 1 .. k + 1 /\ DOMAIN hh = 1 .. k + 1
            OBVIOUS
        <3>2. h = hh
            <4>1. \A i \in 1 .. k + 1 : h[i] = hh[i]
                <5> HIDE DEF h
                <5> QED BY <2>2
            <4>2. h = [i \in 1 .. k + 1 |-> h[i]]
                OBVIOUS
            <4> HIDE DEF h
            <4> QED BY <4>1, <4>2
        <3> HIDE DEF h
        <3> QED BY <3>2 DEF IsFlattening
    <2> HIDE DEF h
    <2> QED BY <2>3
<1> HIDE DEF S
<1>3. n \in S
    BY <1>1, <1>2, SetInduction, Zenon
<1> QED BY <1>3 DEF S

LEMMA FlattenDef ==
    ASSUME NEW ss, NEW n \in Nat, Len(ss) = n, n # 0
    PROVE  \E g : IsFlattening(g, ss, n) /\ FlattenSeq(ss) = g[n]
<1> DEFINE fl == CHOOSE g : g = [i \in 1 .. n |-> IF i = 1 THEN ss[i] ELSE g[i - 1] \o ss[i]]
<1>1. IsFlattening(fl, ss, n)
    BY FlatteningExists DEF IsFlattening
<1>2. FlattenSeq(ss) = fl[n]
    BY DEF FlattenSeq
<1> HIDE DEF fl
<1> QED BY <1>1, <1>2

\* b[p] and o[p]: the sequence and the place in it that r[p] is from.
Located(r, ss, n, b, o) ==
    /\ \A p \in 1 .. Len(r) :
           b[p] \in 1 .. n /\ o[p] \in 1 .. Len(ss[b[p]]) /\ r[p] = ss[b[p]][o[p]]
    /\ \A p, q \in 1 .. Len(r) : p < q => b[p] < b[q] \/ (b[p] = b[q] /\ o[p] < o[q])
    /\ \A i \in 1 .. n : \A j \in 1 .. Len(ss[i]) : \E p \in 1 .. Len(r) : b[p] = i /\ o[p] = j

LEMMA LocatedConcat ==
    ASSUME NEW X, NEW r \in Seq(X), NEW ss, NEW n \in Nat, ss[n + 1] \in Seq(X),
           \E b, o : Located(r, ss, n, b, o)
    PROVE  \E b, o : Located(r \o ss[n + 1], ss, n + 1, b, o)
<1> DEFINE s == ss[n + 1]
           t == r \o s
<1>1. PICK b, o : Located(r, ss, n, b, o)
    OBVIOUS
<1>2. t \in Seq(X) /\ Len(t) = Len(r) + Len(s)
      /\ \A p \in 1 .. Len(t) : t[p] = IF p <= Len(r) THEN r[p] ELSE s[p - Len(r)]
    BY ConcatProperties
<1>3. Len(r) \in Nat /\ Len(s) \in Nat
    OBVIOUS
<1> DEFINE bb == [p \in 1 .. Len(t) |-> IF p <= Len(r) THEN b[p] ELSE n + 1]
           oo == [p \in 1 .. Len(t) |-> IF p <= Len(r) THEN o[p] ELSE p - Len(r)]
<1>4. \A p \in 1 .. Len(t) :
          /\ p <= Len(r) => bb[p] = b[p] /\ oo[p] = o[p] /\ t[p] = r[p] /\ p \in 1 .. Len(r)
          /\ ~(p <= Len(r)) => /\ bb[p] = n + 1 /\ oo[p] = p - Len(r) /\ t[p] = s[p - Len(r)]
                               /\ p - Len(r) \in 1 .. Len(s)
    BY <1>2, <1>3
<1> HIDE DEF bb, oo, t
<1>5. \A p \in 1 .. Len(t) :
          bb[p] \in 1 .. n + 1 /\ oo[p] \in 1 .. Len(ss[bb[p]]) /\ t[p] = ss[bb[p]][oo[p]]
    <2> SUFFICES ASSUME NEW p \in 1 .. Len(t)
                 PROVE  bb[p] \in 1 .. n + 1 /\ oo[p] \in 1 .. Len(ss[bb[p]]) /\ t[p] = ss[bb[p]][oo[p]]
        OBVIOUS
    <2>1. CASE p <= Len(r)
        <3>1. bb[p] = b[p] /\ oo[p] = o[p] /\ t[p] = r[p] /\ p \in 1 .. Len(r)
            BY <1>4, <2>1
        <3>2. b[p] \in 1 .. n /\ o[p] \in 1 .. Len(ss[b[p]]) /\ r[p] = ss[b[p]][o[p]]
            BY <1>1, <3>1 DEF Located
        <3>3. b[p] \in 1 .. n + 1
            BY <3>2
        <3> QED BY <3>1, <3>2, <3>3, Zenon
    <2>2. CASE ~(p <= Len(r))
        <3>1. bb[p] = n + 1 /\ oo[p] = p - Len(r) /\ t[p] = s[p - Len(r)] /\ p - Len(r) \in 1 .. Len(s)
            BY <1>4, <2>2
        <3>2. n + 1 \in 1 .. n + 1
            OBVIOUS
        <3> QED BY <3>1, <3>2, Zenon
    <2> QED BY <2>1, <2>2
<1>6. \A p, q \in 1 .. Len(t) : p < q => bb[p] < bb[q] \/ (bb[p] = bb[q] /\ oo[p] < oo[q])
    <2> SUFFICES ASSUME NEW p \in 1 .. Len(t), NEW q \in 1 .. Len(t), p < q
                 PROVE  bb[p] < bb[q] \/ (bb[p] = bb[q] /\ oo[p] < oo[q])
        OBVIOUS
    <2>0. Len(t) \in Nat
        BY <1>2, <1>3
    <2>1. CASE q <= Len(r)
        <3>1. p <= Len(r)
            BY <2>0, <2>1, <1>3
        <3> QED BY <1>1, <1>4, <2>1, <3>1 DEF Located
    <2>2. CASE p <= Len(r) /\ ~(q <= Len(r))
        BY <1>1, <1>4, <2>2, SMTT(30) DEF Located
    <2>3. CASE ~(p <= Len(r)) /\ ~(q <= Len(r))
        BY <1>3, <1>4, <2>0, <2>3
    <2> QED BY <1>3, <2>0, <2>1, <2>2, <2>3
<1>7. \A i \in 1 .. n + 1 : \A j \in 1 .. Len(ss[i]) : \E p \in 1 .. Len(t) : bb[p] = i /\ oo[p] = j
    <2> SUFFICES ASSUME NEW i \in 1 .. n + 1, NEW j \in 1 .. Len(ss[i])
                 PROVE  \E p \in 1 .. Len(t) : bb[p] = i /\ oo[p] = j
        OBVIOUS
    <2>1. CASE i = n + 1
        <3>1. Len(r) + j \in 1 .. Len(t) /\ ~(Len(r) + j <= Len(r)) /\ Len(r) + j - Len(r) = j
            BY <1>2, <1>3, <2>1
        <3>2. bb[Len(r) + j] = i /\ oo[Len(r) + j] = j
            BY <1>4, <2>1, <3>1
        <3> QED BY <3>1, <3>2
    <2>2. CASE i # n + 1
        <3>1. i \in 1 .. n
            BY <2>2
        <3>2. PICK p \in 1 .. Len(r) : b[p] = i /\ o[p] = j
            BY <1>1, <3>1 DEF Located
        <3>3. p \in 1 .. Len(t) /\ p <= Len(r)
            BY <1>2, <1>3
        <3> QED BY <1>4, <3>2, <3>3
    <2> QED BY <2>1, <2>2
<1>8. Located(t, ss, n + 1, bb, oo)
    BY <1>5, <1>6, <1>7 DEF Located
<1> QED BY <1>8 DEF t

LEMMA FlattenIsLocated ==
    ASSUME NEW X, NEW ss, NEW n \in Nat, Len(ss) = n, \A i \in 1 .. n : ss[i] \in Seq(X),
           n = 0 => ss = << >>
    PROVE  /\ FlattenSeq(ss) \in Seq(X)
           /\ \E b, o : Located(FlattenSeq(ss), ss, n, b, o)
<1>1. CASE n = 0
    <2>1. FlattenSeq(ss) = << >>
        BY <1>1 DEF FlattenSeq
    <2>2. << >> \in Seq(X) /\ Len(<< >>) = 0
        OBVIOUS
    <2>3. Located(<< >>, ss, n, << >>, << >>)
        BY <1>1 DEF Located
    <2> QED BY <2>1, <2>2, <2>3
<1>2. CASE n # 0
    <2>1. PICK g : IsFlattening(g, ss, n) /\ FlattenSeq(ss) = g[n]
        BY <1>2, FlattenDef
    <2> DEFINE S == {k \in Nat : k + 1 \in 1 .. n =>
                        g[k + 1] \in Seq(X) /\ \E b, o : Located(g[k + 1], ss, k + 1, b, o)}
    <2>2. \A i \in 1 .. n : g[i] = IF i = 1 THEN ss[i] ELSE g[i - 1] \o ss[i]
        BY <2>1 DEF IsFlattening
    <2>3. 0 \in S
        <3>1. g[1] = ss[1] /\ ss[1] \in Seq(X) /\ Len(ss[1]) \in Nat
            BY <1>2, <2>2
        <3> DEFINE b == [p \in 1 .. Len(ss[1]) |-> 1]
                   o == [p \in 1 .. Len(ss[1]) |-> p]
        <3>2. Located(ss[1], ss, 1, b, o)
            BY <3>1 DEF Located
        <3> HIDE DEF b, o
        <3>3. 0 + 1 = 1 /\ 0 \in Nat
            OBVIOUS
        <3> QED BY <3>1, <3>2, <3>3
    <2>4. ASSUME NEW k \in Nat, k \in S PROVE k + 1 \in S
        <3> SUFFICES ASSUME NEW m \in Nat, m = k + 1, m + 1 \in 1 .. n
                     PROVE  g[m + 1] \in Seq(X) /\ \E b, o : Located(g[m + 1], ss, m + 1, b, o)
            OBVIOUS
        <3>1. m \in 1 .. n /\ m + 1 # 1 /\ (m + 1) - 1 = m
            OBVIOUS
        <3>2. g[m] \in Seq(X) /\ \E b, o : Located(g[m], ss, m, b, o)
            BY <2>4, <3>1
        <3> HIDE DEF S
        <3>3. g[m + 1] = g[m] \o ss[m + 1]
            BY <2>2, <3>1, Zenon
        <3>4. ss[m + 1] \in Seq(X)
            OBVIOUS
        <3>5. g[m] \o ss[m + 1] \in Seq(X)
            BY <3>2, <3>4, ConcatProperties
        <3>6. \E b, o : Located(g[m] \o ss[m + 1], ss, m + 1, b, o)
            BY <3>2, <3>4, LocatedConcat
        <3> QED BY <3>3, <3>5, <3>6
    <2> HIDE DEF S
    <2>5. n - 1 \in S
        <3>1. n - 1 \in Nat
            BY <1>2
        <3> QED BY <2>3, <2>4, <3>1, SetInduction, Zenon
    <2>6. n - 1 + 1 = n
        OBVIOUS
    <2> QED BY <1>2, <2>1, <2>5, <2>6 DEF S
<1> QED BY <1>1, <1>2

-----------------------------------------------------------------------------
\* Directories, and what one change does to them

\* What a slot of the files F may be; C[f]: what it may hold of f.
Slots(F, C) == {s \in [F -> UNION {C[f] : f \in F}] : \A f \in F : s[f] \in C[f]}

\* d is a directory of the files F.
IsDisk(d, F, C) ==
    /\ d \in [ path : Slots(F, C), temp : Slots(F, C), backup : Slots(F, C),
               manifest : Seq([file : F, hadPath : BOOLEAN]), commit : BOOLEAN ]
    /\ \A f \in F : Absent \in C[f]

LEMMA SlotExcept ==
    ASSUME NEW F, NEW C, NEW s \in Slots(F, C), NEW f \in F, NEW c \in C[f]
    PROVE  [s EXCEPT ![f] = c] \in Slots(F, C)
BY DEF Slots

LEMMA SlotSame ==
    ASSUME NEW F, NEW C, NEW s \in Slots(F, C), NEW f \in F
    PROVE  s[f] \in C[f] /\ s = [s EXCEPT ![f] = s[f]]
BY DEF Slots

LEMMA DiskSlots ==
    ASSUME NEW F, NEW C, NEW d, IsDisk(d, F, C)
    PROVE  /\ d.path \in Slots(F, C) /\ d.temp \in Slots(F, C) /\ d.backup \in Slots(F, C)
           /\ d.manifest \in Seq([file : F, hadPath : BOOLEAN]) /\ d.commit \in BOOLEAN
           /\ \A f \in F : Absent \in C[f]
           /\ \A f \in F : d.path[f] \in C[f] /\ d.temp[f] \in C[f] /\ d.backup[f] \in C[f]
BY SlotSame DEF IsDisk

PutBack(f) == Rename("backup", "path", f)
SetAside(f) == Rename("path", "backup", f)
PutInPlace(f) == Rename("temp", "path", f)

\* e is d but for the slots of f, one of the files F.
OnlyAt(d, e, F, f, path, temp, backup) ==
    /\ \A g \in F :
          /\ e.path[g] = IF g = f THEN path ELSE d.path[g]
          /\ e.temp[g] = IF g = f THEN temp ELSE d.temp[g]
          /\ e.backup[g] = IF g = f THEN backup ELSE d.backup[g]
    /\ e.manifest = d.manifest
    /\ e.commit = d.commit

LEMMA OnlyAtIsDisk ==
    ASSUME NEW F, NEW C, NEW d, IsDisk(d, F, C), NEW f \in F,
           NEW p \in C[f], NEW t \in C[f], NEW b \in C[f], NEW e,
           \/ e = [d EXCEPT !.path[f] = p] /\ t = d.temp[f] /\ b = d.backup[f]
           \/ e = [d EXCEPT !.temp[f] = t] /\ p = d.path[f] /\ b = d.backup[f]
           \/ e = [d EXCEPT !.backup[f] = b] /\ p = d.path[f] /\ t = d.temp[f]
           \/ e = [d EXCEPT !.path[f] = p, !.backup[f] = b] /\ t = d.temp[f]
           \/ e = [d EXCEPT !.path[f] = p, !.temp[f] = t] /\ b = d.backup[f]
    PROVE  IsDisk(e, F, C) /\ OnlyAt(d, e, F, f, p, t, b)
<1>1. /\ d.path \in Slots(F, C) /\ d.temp \in Slots(F, C) /\ d.backup \in Slots(F, C)
      /\ d.path = [d.path EXCEPT ![f] = d.path[f]]
      /\ d.temp = [d.temp EXCEPT ![f] = d.temp[f]]
      /\ d.backup = [d.backup EXCEPT ![f] = d.backup[f]]
    <2>1. d.path \in Slots(F, C) /\ d.temp \in Slots(F, C) /\ d.backup \in Slots(F, C)
        BY DiskSlots
    <2>2. d.path = [d.path EXCEPT ![f] = d.path[f]]
        BY <2>1 DEF Slots
    <2>3. d.temp = [d.temp EXCEPT ![f] = d.temp[f]]
        BY <2>1 DEF Slots
    <2>4. d.backup = [d.backup EXCEPT ![f] = d.backup[f]]
        BY <2>1 DEF Slots
    <2> QED BY <2>1, <2>2, <2>3, <2>4
<1>2. /\ [d.path EXCEPT ![f] = p] \in Slots(F, C)
      /\ [d.temp EXCEPT ![f] = t] \in Slots(F, C)
      /\ [d.backup EXCEPT ![f] = b] \in Slots(F, C)
    BY <1>1, SlotExcept
<1> DEFINE S == Slots(F, C)
           M == Seq([file : F, hadPath : BOOLEAN])
           ep == [d.path EXCEPT ![f] = p]
           et == [d.temp EXCEPT ![f] = t]
           eb == [d.backup EXCEPT ![f] = b]
<1>3. d \in [path : S, temp : S, backup : S, manifest : M, commit : BOOLEAN]
    BY DEF IsDisk
<1>4. e = [d EXCEPT !.path = ep, !.temp = et, !.backup = eb]
    BY <1>1, <1>3
<1>5. ep \in S /\ et \in S /\ eb \in S
    BY <1>2
<1> HIDE DEF S, M, ep, et, eb
<1>6. e \in [path : S, temp : S, backup : S, manifest : M, commit : BOOLEAN]
    BY <1>3, <1>4, <1>5
<1>7. e.path = ep /\ e.temp = et /\ e.backup = eb /\ e.manifest = d.manifest /\ e.commit = d.commit
    BY <1>3, <1>4
<1>8. \A g \in F : /\ ep[g] = IF g = f THEN p ELSE d.path[g]
                   /\ et[g] = IF g = f THEN t ELSE d.temp[g]
                   /\ eb[g] = IF g = f THEN b ELSE d.backup[g]
    BY <1>1 DEF ep, et, eb, Slots
<1>9. IsDisk(e, F, C)
    BY <1>6 DEF S, M, IsDisk
<1> QED BY <1>7, <1>8, <1>9 DEF OnlyAt

LEMMA PutBackDoes ==
    ASSUME NEW F, NEW C, NEW d, IsDisk(d, F, C), NEW f \in F,
           NEW e, e = Apply(d, PutBack(f))
    PROVE  IsDisk(e, F, C) /\ OnlyAt(d, e, F, f, d.backup[f], d.temp[f], Absent)
<1>1. e = [d EXCEPT !.path[f] = d.backup[f], !.backup[f] = Absent]
    BY DEF Apply, PutBack, Rename
<1> QED BY <1>1, DiskSlots, OnlyAtIsDisk

LEMMA SetAsideDoes ==
    ASSUME NEW F, NEW C, NEW d, IsDisk(d, F, C), NEW f \in F,
           NEW e, e = Apply(d, SetAside(f))
    PROVE  IsDisk(e, F, C) /\ OnlyAt(d, e, F, f, Absent, d.temp[f], d.path[f])
<1>1. e = [d EXCEPT !.path[f] = Absent, !.backup[f] = d.path[f]]
    BY DEF Apply, SetAside, Rename
<1> QED BY <1>1, DiskSlots, OnlyAtIsDisk

LEMMA PutInPlaceDoes ==
    ASSUME NEW F, NEW C, NEW d, IsDisk(d, F, C), NEW f \in F,
           NEW e, e = Apply(d, PutInPlace(f))
    PROVE  IsDisk(e, F, C) /\ OnlyAt(d, e, F, f, d.temp[f], Absent, d.backup[f])
<1>1. e = [d EXCEPT !.path[f] = d.temp[f], !.temp[f] = Absent]
    BY DEF Apply, PutInPlace, Rename
<1> QED BY <1>1, DiskSlots, OnlyAtIsDisk

LEMMA DeletePathDoes ==
    ASSUME NEW F, NEW C, NEW d, IsDisk(d, F, C), NEW f \in F,
           NEW e, e = Apply(d, Delete("path", f))
    PROVE  IsDisk(e, F, C) /\ OnlyAt(d, e, F, f, Absent, d.temp[f], d.backup[f])
<1>1. e = [d EXCEPT !.path[f] = Absent]
    BY DEF Apply, Delete
<1> QED BY <1>1, DiskSlots, OnlyAtIsDisk

LEMMA DeleteTempDoes ==
    ASSUME NEW F, NEW C, NEW d, IsDisk(d, F, C), NEW f \in F,
           NEW e, e = Apply(d, Delete("temp", f))
    PROVE  IsDisk(e, F, C) /\ OnlyAt(d, e, F, f, d.path[f], Absent, d.backup[f])
<1>1. e = [d EXCEPT !.temp[f] = Absent]
    BY DEF Apply, Delete
<1> QED BY <1>1, DiskSlots, OnlyAtIsDisk

LEMMA DeleteBackupDoes ==
    ASSUME NEW F, NEW C, NEW d, IsDisk(d, F, C), NEW f \in F,
           NEW e, e = Apply(d, Delete("backup", f))
    PROVE  IsDisk(e, F, C) /\ OnlyAt(d, e, F, f, d.path[f], d.temp[f], Absent)
<1>1. e = [d EXCEPT !.backup[f] = Absent]
    BY DEF Apply, Delete
<1> QED BY <1>1, DiskSlots, OnlyAtIsDisk

LEMMA WritePathDoes ==
    ASSUME NEW F, NEW C, NEW d, IsDisk(d, F, C), NEW f \in F, NEW c \in C[f],
           NEW e, e = Apply(d, Write("path", f, c))
    PROVE  IsDisk(e, F, C) /\ OnlyAt(d, e, F, f, c, d.temp[f], d.backup[f])
<1>1. e = [d EXCEPT !.path[f] = c]
    BY DEF Apply, Write
<1> QED BY <1>1, DiskSlots, OnlyAtIsDisk

LEMMA WriteTempDoes ==
    ASSUME NEW F, NEW C, NEW d, IsDisk(d, F, C), NEW f \in F, NEW c \in C[f],
           NEW e, e = Apply(d, Write("temp", f, c))
    PROVE  IsDisk(e, F, C) /\ OnlyAt(d, e, F, f, d.path[f], c, d.backup[f])
<1>1. e = [d EXCEPT !.temp[f] = c]
    BY DEF Apply, Write
<1> QED BY <1>1, DiskSlots, OnlyAtIsDisk

LEMMA AddToDoes ==
    ASSUME NEW F, NEW C, NEW d, IsDisk(d, F, C), NEW f \in F, NEW c,
           d.path[f] # Absent, Torn \notin d.path[f] => d.path[f] \cup c \in C[f],
           NEW e, e = Apply(d, AddTo(f, c))
    PROVE  /\ IsDisk(e, F, C)
           /\ OnlyAt(d, e, F, f, IF Torn \in d.path[f] THEN d.path[f] ELSE d.path[f] \cup c,
                     d.temp[f], d.backup[f])
<1> DEFINE p == IF Torn \in d.path[f] THEN d.path[f] ELSE d.path[f] \cup c
<1>1. e = [d EXCEPT !.path[f] = p]
    BY DEF Apply, AddTo
<1>2. p \in C[f] /\ d.temp[f] \in C[f] /\ d.backup[f] \in C[f]
    BY DiskSlots
<1> HIDE DEF p
<1>3. IsDisk(e, F, C) /\ OnlyAt(d, e, F, f, p, d.temp[f], d.backup[f])
    BY <1>1, <1>2, OnlyAtIsDisk
<1> QED BY <1>3 DEF p

\* The slots are the same in both.
SameSlots(d, e) == e.path = d.path /\ e.temp = d.temp /\ e.backup = d.backup

LEMMA PublishManifestDoes ==
    ASSUME NEW F, NEW C, NEW d, IsDisk(d, F, C), NEW m \in Seq([file : F, hadPath : BOOLEAN]),
           NEW e, e = Apply(d, PublishManifest(m))
    PROVE  IsDisk(e, F, C) /\ SameSlots(d, e) /\ e.manifest = m /\ e.commit = d.commit
<1>1. e = [d EXCEPT !.manifest = m]
    BY DEF Apply, PublishManifest
<1> QED BY <1>1 DEF IsDisk, SameSlots

LEMMA PublishCommitDoes ==
    ASSUME NEW F, NEW C, NEW d, IsDisk(d, F, C), NEW e, e = Apply(d, PublishCommit)
    PROVE  IsDisk(e, F, C) /\ SameSlots(d, e) /\ e.manifest = d.manifest /\ e.commit
<1>1. e = [d EXCEPT !.commit = TRUE]
    BY DEF Apply, PublishCommit
<1> QED BY <1>1 DEF IsDisk, SameSlots

LEMMA RemoveManifestDoes ==
    ASSUME NEW F, NEW C, NEW d, IsDisk(d, F, C), NEW e, e = Apply(d, RemoveManifest)
    PROVE  IsDisk(e, F, C) /\ SameSlots(d, e) /\ e.manifest = NoManifest /\ e.commit = d.commit
<1>1. << >> \in Seq([file : F, hadPath : BOOLEAN])
    OBVIOUS
<1>2. e = [d EXCEPT !.manifest = NoManifest]
    BY DEF Apply, RemoveManifest
<1> QED BY <1>1, <1>2 DEF IsDisk, SameSlots, NoManifest

LEMMA RemoveCommitDoes ==
    ASSUME NEW F, NEW C, NEW d, IsDisk(d, F, C), NEW e, e = Apply(d, RemoveCommit)
    PROVE  IsDisk(e, F, C) /\ SameSlots(d, e) /\ e.manifest = d.manifest /\ ~e.commit
<1>1. e = [d EXCEPT !.commit = FALSE]
    BY DEF Apply, RemoveCommit
<1> QED BY <1>1 DEF IsDisk, SameSlots

\* Changes of different kinds, slots or files are different.
LEMMA ChangesDiffer ==
    ASSUME NEW f, NEW g, NEW c, NEW m
    PROVE  /\ PutBack(f) = PutBack(g) <=> f = g
           /\ SetAside(f) = SetAside(g) <=> f = g
           /\ PutInPlace(f) = PutInPlace(g) <=> f = g
           /\ \A slot : Delete(slot, f) = Delete(slot, g) <=> f = g
           /\ \A slot, s : Write(slot, f, c) = Write(slot, g, s) <=> f = g /\ c = s
           /\ PutBack(f) # SetAside(g) /\ PutBack(f) # PutInPlace(g) /\ SetAside(f) # PutInPlace(g)
           /\ \A slot : /\ Delete(slot, f) # PutBack(g) /\ Delete(slot, f) # SetAside(g)
                        /\ Delete(slot, f) # PutInPlace(g) /\ Delete(slot, f) # RemoveManifest
                        /\ Delete(slot, f) # RemoveCommit
                        /\ \A s : Write(slot, f, c) # Delete(s, g)
                        /\ Write(slot, f, c) # PutBack(g) /\ Write(slot, f, c) # SetAside(g)
                        /\ Write(slot, f, c) # PutInPlace(g) /\ Write(slot, f, c) # RemoveManifest
           /\ Delete("path", f) # Delete("temp", g) /\ Delete("path", f) # Delete("backup", g)
           /\ Delete("temp", f) # Delete("backup", g)
           /\ PutBack(f) # RemoveManifest /\ RemoveManifest # RemoveCommit
           /\ PublishManifest(m) # PublishCommit
           /\ SetAside(f) # PublishManifest(m) /\ SetAside(f) # PublishCommit
           /\ PutInPlace(f) # PublishManifest(m) /\ PutInPlace(f) # PublishCommit
BY DEF PutBack, SetAside, PutInPlace, Rename, Delete, Write, PublishManifest, PublishCommit,
       RemoveManifest, RemoveCommit

-----------------------------------------------------------------------------
\* What is still to come in a plan

Has(p, c) == \E i \in 1 .. Len(p) : p[i] = c
NoneAfter(p, c, e) == \A i, j \in 1 .. Len(p) : i < j /\ p[i] = c => p[j] # e
OnlyLast(p, c) == \A i \in 1 .. Len(p) : p[i] = c => i = Len(p)

LEMMA TailOf ==
    ASSUME NEW X, NEW p \in Seq(X), p # << >>
    PROVE  /\ Tail(p) \in Seq(X) /\ Len(Tail(p)) = Len(p) - 1
           /\ Len(p) \in Nat /\ Len(p) >= 1
           /\ Head(p) = p[1] /\ p[1] \in X
           /\ \A i \in 1 .. Len(p) - 1 : Tail(p)[i] = p[i + 1]
           /\ Tail(p) = << >> <=> Len(p) = 1
<1>1. /\ Tail(p) \in Seq(X) /\ Len(Tail(p)) = Len(p) - 1
      /\ Head(p) = p[1] /\ Head(p) \in X
      /\ \A i \in 1 .. Len(Tail(p)) : Tail(p)[i] = p[i + 1]
    BY HeadTailProperties
<1>2. Len(p) \in Nat /\ Len(p) # 0
    BY EmptySeq
<1>3. Tail(p) = << >> <=> Len(Tail(p)) = 0
    BY <1>1, EmptySeq
<1> QED BY <1>1, <1>2, <1>3

LEMMA EmptyPlan ==
    ASSUME NEW X, NEW p \in Seq(X)
    PROVE  p = << >> <=> Len(p) = 0
BY EmptySeq

LEMMA TailHas ==
    ASSUME NEW X, NEW p \in Seq(X), p # << >>, NEW c
    PROVE  /\ Has(Tail(p), c) => Has(p, c)
           /\ Has(p, c) /\ c # Head(p) => Has(Tail(p), c)
           /\ Has(p, Head(p))
<1>1. /\ Len(Tail(p)) = Len(p) - 1 /\ Len(p) \in Nat /\ Len(p) >= 1 /\ Head(p) = p[1]
      /\ \A i \in 1 .. Len(p) - 1 : Tail(p)[i] = p[i + 1]
    BY TailOf
<1>2. ASSUME Has(Tail(p), c) PROVE Has(p, c)
    <2>1. PICK i \in 1 .. Len(p) - 1 : Tail(p)[i] = c
        BY <1>1, <1>2 DEF Has
    <2>2. i + 1 \in 1 .. Len(p) /\ p[i + 1] = c
        BY <1>1, <2>1
    <2> QED BY <2>2 DEF Has
<1>3. ASSUME Has(p, c), c # Head(p) PROVE Has(Tail(p), c)
    <2>1. PICK i \in 1 .. Len(p) : p[i] = c
        BY <1>3 DEF Has
    <2>2. i # 1 /\ i - 1 \in 1 .. Len(p) - 1 /\ i - 1 + 1 = i
        BY <1>1, <1>3, <2>1
    <2>3. Tail(p)[i - 1] = c
        BY <1>1, <2>1, <2>2
    <2> QED BY <1>1, <2>2, <2>3 DEF Has
<1>4. 1 \in 1 .. Len(p)
    BY <1>1
<1> QED BY <1>1, <1>2, <1>3, <1>4 DEF Has

LEMMA TailNoneAfter ==
    ASSUME NEW X, NEW p \in Seq(X), p # << >>, NEW c, NEW e, NoneAfter(p, c, e)
    PROVE  /\ NoneAfter(Tail(p), c, e)
           /\ c = Head(p) => ~Has(Tail(p), e)
<1>1. /\ Len(Tail(p)) = Len(p) - 1 /\ Len(p) \in Nat /\ Len(p) >= 1 /\ Head(p) = p[1]
      /\ \A i \in 1 .. Len(p) - 1 : Tail(p)[i] = p[i + 1]
    BY TailOf
<1>2. ASSUME NEW i \in 1 .. Len(p) - 1, NEW j \in 1 .. Len(p) - 1, i < j, Tail(p)[i] = c
      PROVE  Tail(p)[j] # e
    <2>1. i + 1 \in 1 .. Len(p) /\ j + 1 \in 1 .. Len(p) /\ i + 1 < j + 1
        BY <1>1, <1>2
    <2>2. p[i + 1] = c /\ Tail(p)[j] = p[j + 1]
        BY <1>1, <1>2
    <2> QED BY <2>1, <2>2 DEF NoneAfter
<1>3. ASSUME NEW i \in 1 .. Len(p) - 1, c = p[1] PROVE Tail(p)[i] # e
    <2>1. i + 1 \in 1 .. Len(p) /\ 1 \in 1 .. Len(p) /\ 1 < i + 1
        BY <1>1
    <2> QED BY <1>1, <1>3, <2>1 DEF NoneAfter
<1> QED BY <1>1, <1>2, <1>3 DEF NoneAfter, Has

LEMMA TailLast ==
    ASSUME NEW X, NEW p \in Seq(X), p # << >>, NEW c, OnlyLast(p, c)
    PROVE  /\ OnlyLast(Tail(p), c)
           /\ Head(p) = c => Tail(p) = << >>
<1>1. /\ Len(Tail(p)) = Len(p) - 1 /\ Len(p) \in Nat /\ Len(p) >= 1 /\ Head(p) = p[1]
      /\ \A i \in 1 .. Len(p) - 1 : Tail(p)[i] = p[i + 1]
      /\ Tail(p) = << >> <=> Len(p) = 1
    BY TailOf
<1>2. ASSUME NEW i \in 1 .. Len(p) - 1, Tail(p)[i] = c PROVE i = Len(p) - 1
    <2>1. i + 1 \in 1 .. Len(p) /\ p[i + 1] = c
        BY <1>1, <1>2
    <2>2. i + 1 = Len(p) /\ Len(p) \in Nat
        BY <1>1, <2>1 DEF OnlyLast
    <2> QED BY <2>2
<1>3. ASSUME p[1] = c PROVE Len(p) = 1
    <2>1. 1 \in 1 .. Len(p)
        BY <1>1
    <2> QED BY <1>3, <2>1 DEF OnlyLast
<1> QED BY <1>1, <1>2, <1>3 DEF OnlyLast

-----------------------------------------------------------------------------
\* What a directory stands for

AllHadPath(d) == \A i \in DOMAIN d.manifest : d.manifest[i].hadPath
Settled(d) == d.manifest = NoManifest /\ ~d.commit
Whole(d, F) == \A f \in F : Holds(d, "path", f) /\ ~Holds(d, "backup", f)

\* What f stands for as long as nothing is committed.
Kept(d, f) == IF Holds(d, "backup", f) THEN d.backup[f] ELSE d.path[f]

LEMMA RecoveredIsKept ==
    ASSUME NEW d, NEW f, AllHadPath(d), ~d.commit \/ f \notin TargetFiles(d)
    PROVE  Recovered(d, f) = Kept(d, f)
<1>1. ~RolledBackToNothing(d, f)
    BY DEF AllHadPath, RolledBackToNothing
<1> QED BY <1>1 DEF Recovered, Kept

LEMMA NoManifestFacts ==
    ASSUME NEW d, d.manifest = NoManifest
    PROVE  AllHadPath(d) /\ TargetFiles(d) = {}
<1>1. DOMAIN d.manifest = {}
    BY DEF NoManifest
<1> QED BY <1>1 DEF AllHadPath, TargetFiles

-----------------------------------------------------------------------------
\* Putting files back (recoverReplacementArtifacts, rollbackUncommittedTransaction)
\* and creating those that are missing

MendChanges(F, E) ==
    {Delete("path", f) : f \in F} \cup {PutBack(f) : f \in F} \cup {Delete("temp", f) : f \in F}
    \cup {Write("path", f, {}) : f \in E} \cup {RemoveManifest}

\* A backup that is there will be put back, once, after the file in its place has
\* gone; a file is created where there is neither, once; the manifest goes.
MendingFiles(d, p, F, E) ==
    /\ p \in Seq(MendChanges(F, E))
    /\ \A f \in F : Has(p, Delete("path", f)) \/ Has(p, PutBack(f)) => Holds(d, "backup", f)
    /\ \A f \in F : /\ NoneAfter(p, PutBack(f), Delete("path", f))
                    /\ NoneAfter(p, PutBack(f), PutBack(f))
    /\ \A f \in F : Holds(d, "backup", f) => Has(p, PutBack(f))
    /\ \A f \in E : /\ Has(p, Write("path", f, {})) => ~Holds(d, "path", f) /\ ~Holds(d, "backup", f)
                    /\ NoneAfter(p, Write("path", f, {}), Write("path", f, {}))
                    /\ Holds(d, "path", f) \/ Holds(d, "backup", f) \/ Has(p, Write("path", f, {}))

Mending(d, p, F, E) ==
    /\ MendingFiles(d, p, F, E)
    /\ d.manifest # NoManifest => Has(p, RemoveManifest)
    /\ ~d.commit

\* Every change keeps what the files stand for, but for those that are created.
MendedTo(d, e, A, C, F, E, p) ==
    /\ IsDisk(e, A, C)
    /\ Mending(e, Tail(p), F, E)
    /\ e.manifest \in {d.manifest, NoManifest}
    /\ \A g \in A : \/ Kept(e, g) = Kept(d, g)
                    \/ g \in E /\ Kept(d, g) = Absent /\ Kept(e, g) = {}
    /\ \A g \in A \ F : e.path[g] = d.path[g] /\ e.backup[g] = d.backup[g]

LEMMA MendGoes ==
    ASSUME NEW A, NEW C, NEW d, IsDisk(d, A, C), NEW F \in SUBSET A, NEW E \in SUBSET F,
           \A f \in E : {} \in C[f] /\ {} # Absent,
           NEW p, Mending(d, p, F, E), p # << >>,
           NEW e, e = Apply(d, Head(p))
    PROVE  MendedTo(d, e, A, C, F, E, p)
<1> SUFFICES /\ IsDisk(e, A, C)
             /\ Mending(e, Tail(p), F, E)
             /\ e.manifest \in {d.manifest, NoManifest}
             /\ \A g \in A : \/ Kept(e, g) = Kept(d, g)
                             \/ g \in E /\ Kept(d, g) = Absent /\ Kept(e, g) = {}
             /\ \A g \in A \ F : e.path[g] = d.path[g] /\ e.backup[g] = d.backup[g]
    BY DEF MendedTo
<1> DEFINE h == Head(p)
           t == Tail(p)
           W(f) == Write("path", f, {})
<1>1. p \in Seq(MendChanges(F, E))
    BY DEF Mending, MendingFiles
<1>2. t \in Seq(MendChanges(F, E)) /\ h \in MendChanges(F, E)
    BY <1>1, TailOf
<1>3. \A c : (Has(t, c) => Has(p, c)) /\ (Has(p, c) /\ c # h => Has(t, c)) /\ Has(p, h)
    BY <1>1, TailHas
<1>4. \A f \in F : /\ NoneAfter(t, PutBack(f), Delete("path", f))
                   /\ NoneAfter(t, PutBack(f), PutBack(f))
                   /\ h = PutBack(f) => ~Has(t, PutBack(f)) /\ ~Has(t, Delete("path", f))
    BY <1>1, TailNoneAfter DEF Mending, MendingFiles
<1>5. \A f \in E : /\ NoneAfter(t, W(f), W(f))
                   /\ h = W(f) => ~Has(t, W(f))
    BY <1>1, TailNoneAfter DEF Mending, MendingFiles
<1>6. h # RemoveManifest /\ d.manifest # NoManifest => Has(t, RemoveManifest)
    BY <1>3 DEF Mending, MendingFiles
<1> SUFFICES
        /\ IsDisk(e, A, C)
        /\ \A f \in F : Has(t, Delete("path", f)) \/ Has(t, PutBack(f)) => Holds(e, "backup", f)
        /\ \A f \in F : Holds(e, "backup", f) => Has(t, PutBack(f))
        /\ \A f \in E : /\ Has(t, W(f)) => ~Holds(e, "path", f) /\ ~Holds(e, "backup", f)
                        /\ Holds(e, "path", f) \/ Holds(e, "backup", f) \/ Has(t, W(f))
        /\ e.manifest = IF h = RemoveManifest THEN NoManifest ELSE d.manifest
        /\ ~e.commit
        /\ \A g \in A : \/ Kept(e, g) = Kept(d, g)
                        \/ g \in E /\ Kept(d, g) = Absent /\ Kept(e, g) = {}
        /\ \A g \in A \ F : e.path[g] = d.path[g] /\ e.backup[g] = d.backup[g]
    BY <1>2, <1>4, <1>5, <1>6 DEF Mending, MendingFiles
<1>8. /\ \A f \in F : Has(p, Delete("path", f)) \/ Has(p, PutBack(f)) => d.backup[f] # Absent
      /\ \A f \in F : d.backup[f] # Absent => Has(p, PutBack(f))
      /\ \A f \in E : /\ Has(p, W(f)) => d.path[f] = Absent /\ d.backup[f] = Absent
                      /\ d.path[f] # Absent \/ d.backup[f] # Absent \/ Has(p, W(f))
      /\ ~d.commit
    BY DEF Mending, MendingFiles, Holds
<1> HIDE DEF h, t
<1> USE DEF Holds, Kept
<1>a. CASE \E f \in F : h = Delete("path", f)
    <2>1. PICK f \in F : h = Delete("path", f)
        BY <1>a
    <2>2. IsDisk(e, A, C) /\ OnlyAt(d, e, A, f, Absent, d.temp[f], d.backup[f])
        BY <2>1, DeletePathDoes DEF h
    <2>3. h # RemoveManifest /\ \A g : h # PutBack(g) /\ h # W(g)
        BY <2>1, ChangesDiffer
    <2>4. d.backup[f] # Absent
        BY <1>3, <1>8, <2>1
    <2> QED BY <1>3, <1>8, <2>2, <2>3, <2>4 DEF OnlyAt
<1>b. CASE \E f \in F : h = PutBack(f)
    <2>1. PICK f \in F : h = PutBack(f)
        BY <1>b
    <2>2. IsDisk(e, A, C) /\ OnlyAt(d, e, A, f, d.backup[f], d.temp[f], Absent)
        BY <2>1, PutBackDoes DEF h
    <2>3. h # RemoveManifest /\ \A g : (h = PutBack(g) => f = g) /\ h # W(g)
        <3>1. h # RemoveManifest
            BY <2>1, ChangesDiffer
        <3>2. \A g : h = PutBack(g) => f = g
            BY <2>1, ChangesDiffer
        <3>3. \A g : h # W(g)
            BY <2>1, ChangesDiffer
        <3> QED BY <3>1, <3>2, <3>3
    <2>4. d.backup[f] # Absent
        BY <1>3, <1>8, <2>1
    <2>5. ~Has(t, PutBack(f)) /\ ~Has(t, Delete("path", f))
        BY <1>4, <2>1
    <2> QED BY <1>3, <1>8, <2>2, <2>3, <2>4, <2>5 DEF OnlyAt
<1>c. CASE \E f \in F : h = Delete("temp", f)
    <2>1. PICK f \in F : h = Delete("temp", f)
        BY <1>c
    <2>2. IsDisk(e, A, C) /\ OnlyAt(d, e, A, f, d.path[f], Absent, d.backup[f])
        BY <2>1, DeleteTempDoes DEF h
    <2>3. h # RemoveManifest /\ \A g : h # PutBack(g) /\ h # W(g)
        BY <2>1, ChangesDiffer
    <2> QED BY <1>3, <1>8, <2>2, <2>3 DEF OnlyAt
<1>d. CASE \E f \in E : h = W(f)
    <2>1. PICK f \in E : h = W(f)
        BY <1>d
    <2>2. IsDisk(e, A, C) /\ OnlyAt(d, e, A, f, {}, d.temp[f], d.backup[f])
        BY <2>1, WritePathDoes DEF h
    <2>3. h # RemoveManifest /\ \A g : h # PutBack(g) /\ (h = W(g) => f = g)
        BY <2>1, ChangesDiffer
    <2>4. d.path[f] = Absent /\ d.backup[f] = Absent /\ ~Has(t, W(f))
        BY <1>3, <1>5, <1>8, <2>1
    <2> QED BY <1>3, <1>8, <2>1, <2>2, <2>3, <2>4 DEF OnlyAt
<1>e. CASE h = RemoveManifest
    <2>1. IsDisk(e, A, C) /\ SameSlots(d, e) /\ e.manifest = NoManifest /\ e.commit = d.commit
        <3>1. e = Apply(d, RemoveManifest)
            BY <1>e DEF h
        <3> QED BY <3>1, RemoveManifestDoes
    <2>2. \A g : h # PutBack(g) /\ h # W(g)
        BY <1>e, ChangesDiffer
    <2> QED BY <1>3, <1>8, <1>e, <2>1, <2>2 DEF SameSlots
<1> QED BY <1>2, <1>a, <1>b, <1>c, <1>d, <1>e DEF MendChanges

\* At the end nothing is left to put back or to create.
LEMMA MendEnds ==
    ASSUME NEW d, NEW F, NEW E \in SUBSET F, Mending(d, << >>, F, E)
    PROVE  /\ Settled(d)
           /\ \A f \in F : ~Holds(d, "backup", f)
           /\ \A f \in E : Holds(d, "path", f)
<1>1. \A c : ~Has(<< >>, c)
    BY DEF Has
<1>2. /\ d.manifest # NoManifest => Has(<< >>, RemoveManifest)
      /\ \A f \in F : Holds(d, "backup", f) => Has(<< >>, PutBack(f))
      /\ \A f \in E : Holds(d, "path", f) \/ Holds(d, "backup", f) \/ Has(<< >>, Write("path", f, {}))
      /\ ~d.commit /\ E \subseteq F
    BY DEF Mending, MendingFiles
<1> QED BY <1>1, <1>2 DEF Settled

-----------------------------------------------------------------------------
\* What is in a plan that is put together from others

LEMMA SeqOfFunction ==
    ASSUME NEW S, NEW n \in Nat, NEW s \in [1 .. n -> S]
    PROVE  s \in Seq(S) /\ Len(s) = n
OBVIOUS

LEMMA HasOne ==
    ASSUME NEW c
    PROVE  /\ \A e : Has(<<c>>, e) <=> c = e
           /\ \A e, g : NoneAfter(<<c>>, e, g)
           /\ \A e : ~Has(<< >>, e)
           /\ \A e, g : NoneAfter(<< >>, e, g)
<1>1. Len(<<c>>) = 1 /\ <<c>>[1] = c /\ Len(<< >>) = 0
    OBVIOUS
<1>2. 1 .. 1 = {1} /\ 1 .. 0 = {}
    OBVIOUS
<1> DEFINE s == <<c>>
<1> HIDE DEF s
<1>3. Len(s) = 1 /\ s[1] = c
    BY <1>1 DEF s
<1>4. /\ \A e : Has(s, e) <=> c = e
      /\ \A e, g : NoneAfter(s, e, g)
    BY <1>2, <1>3 DEF Has, NoneAfter
<1>5. /\ \A e : ~Has(<< >>, e)
      /\ \A e, g : NoneAfter(<< >>, e, g)
    BY <1>1, <1>2 DEF Has, NoneAfter
<1> QED BY <1>4, <1>5 DEF s

LEMMA ConcatHas ==
    ASSUME NEW X, NEW p \in Seq(X), NEW q \in Seq(X)
    PROVE  \A c : Has(p \o q, c) <=> Has(p, c) \/ Has(q, c)
<1> DEFINE r == p \o q
<1>1. /\ Len(r) = Len(p) + Len(q) /\ Len(p) \in Nat /\ Len(q) \in Nat
      /\ \A i \in 1 .. Len(r) : r[i] = IF i <= Len(p) THEN p[i] ELSE q[i - Len(p)]
    BY ConcatProperties
<1> HIDE DEF r
<1> SUFFICES ASSUME NEW c PROVE Has(r, c) <=> Has(p, c) \/ Has(q, c)
    BY DEF r
<1>2. ASSUME Has(r, c) PROVE Has(p, c) \/ Has(q, c)
    <2>1. PICK i \in 1 .. Len(r) : r[i] = c
        BY <1>2 DEF Has
    <2>2. CASE i <= Len(p)
        <3>1. i \in 1 .. Len(p) /\ p[i] = c
            BY <1>1, <2>1, <2>2
        <3> QED BY <3>1 DEF Has
    <2>3. CASE ~(i <= Len(p))
        <3>1. i - Len(p) \in 1 .. Len(q) /\ q[i - Len(p)] = c
            BY <1>1, <2>1, <2>3
        <3> QED BY <3>1 DEF Has
    <2> QED BY <2>2, <2>3
<1>3. ASSUME Has(p, c) PROVE Has(r, c)
    <2>1. PICK i \in 1 .. Len(p) : p[i] = c
        BY <1>3 DEF Has
    <2>2. i \in 1 .. Len(r) /\ r[i] = c
        BY <1>1, <2>1
    <2> QED BY <2>2 DEF Has
<1>4. ASSUME Has(q, c) PROVE Has(r, c)
    <2>1. PICK i \in 1 .. Len(q) : q[i] = c
        BY <1>4 DEF Has
    <2>2. Len(p) + i \in 1 .. Len(r) /\ ~(Len(p) + i <= Len(p)) /\ Len(p) + i - Len(p) = i
        BY <1>1, <2>1
    <2>3. r[Len(p) + i] = c
        BY <1>1, <2>1, <2>2
    <2> QED BY <2>2, <2>3 DEF Has
<1> QED BY <1>2, <1>3, <1>4

LEMMA ConcatNoneAfter ==
    ASSUME NEW X, NEW p \in Seq(X), NEW q \in Seq(X), NEW c, NEW e,
           NoneAfter(p, c, e), NoneAfter(q, c, e), ~Has(p, c) \/ ~Has(q, e)
    PROVE  NoneAfter(p \o q, c, e)
<1> DEFINE r == p \o q
<1>1. /\ Len(r) = Len(p) + Len(q) /\ Len(p) \in Nat /\ Len(q) \in Nat
      /\ \A i \in 1 .. Len(r) : r[i] = IF i <= Len(p) THEN p[i] ELSE q[i - Len(p)]
    BY ConcatProperties
<1> HIDE DEF r
<1> SUFFICES ASSUME NEW i \in 1 .. Len(r), NEW j \in 1 .. Len(r), i < j, r[i] = c, r[j] = e
             PROVE  FALSE
    BY DEF r, NoneAfter
<1>2. CASE j <= Len(p)
    <2>1. i \in 1 .. Len(p) /\ j \in 1 .. Len(p) /\ p[i] = c /\ p[j] = e
        BY <1>1, <1>2
    <2> QED BY <2>1 DEF NoneAfter
<1>3. CASE i <= Len(p) /\ ~(j <= Len(p))
    <2>1. i \in 1 .. Len(p) /\ p[i] = c
        BY <1>1, <1>3
    <2>2. j - Len(p) \in 1 .. Len(q) /\ q[j - Len(p)] = e
        BY <1>1, <1>3
    <2> QED BY <2>1, <2>2 DEF Has
<1>4. CASE ~(i <= Len(p))
    <2>1. i - Len(p) \in 1 .. Len(q) /\ j - Len(p) \in 1 .. Len(q) /\ i - Len(p) < j - Len(p)
        BY <1>1, <1>4
    <2>2. q[i - Len(p)] = c
        BY <1>1, <1>4
    <2>3. q[j - Len(p)] = e
        <3>1. ~(j <= Len(p))
            BY <1>1, <1>4
        <3> QED BY <1>1, <3>1
    <2> QED BY <2>1, <2>2, <2>3 DEF NoneAfter
<1> QED BY <1>2, <1>3, <1>4

LEMMA FlattenHas ==
    ASSUME NEW X, NEW ss, NEW n \in Nat, Len(ss) = n, \A i \in 1 .. n : ss[i] \in Seq(X),
           n = 0 => ss = << >>
    PROVE  /\ FlattenSeq(ss) \in Seq(X)
           /\ \A c : Has(FlattenSeq(ss), c) <=> \E i \in 1 .. n : Has(ss[i], c)
<1> DEFINE r == FlattenSeq(ss)
<1>1. r \in Seq(X) /\ \E b, o : Located(r, ss, n, b, o)
    BY FlattenIsLocated
<1> HIDE DEF r
<1>2. PICK b, o : Located(r, ss, n, b, o)
    BY <1>1
<1>3. ASSUME NEW c, Has(r, c) PROVE \E i \in 1 .. n : Has(ss[i], c)
    <2>1. PICK p \in 1 .. Len(r) : r[p] = c
        BY <1>3 DEF Has
    <2>2. b[p] \in 1 .. n /\ o[p] \in 1 .. Len(ss[b[p]]) /\ r[p] = ss[b[p]][o[p]]
        BY <1>2 DEF Located
    <2>3. Has(ss[b[p]], c)
        BY <2>1, <2>2 DEF Has
    <2> QED BY <2>2, <2>3
<1>4. ASSUME NEW c, NEW i \in 1 .. n, Has(ss[i], c) PROVE Has(r, c)
    <2>1. PICK j \in 1 .. Len(ss[i]) : ss[i][j] = c
        BY <1>4 DEF Has
    <2>2. PICK p \in 1 .. Len(r) : b[p] = i /\ o[p] = j
        BY <1>2 DEF Located
    <2>3. r[p] = ss[i][j]
        BY <1>2, <2>2 DEF Located
    <2> QED BY <2>1, <2>3 DEF Has
<1> QED BY <1>1, <1>3, <1>4 DEF r

LEMMA FlattenNoneAfter ==
    ASSUME NEW X, NEW ss, NEW n \in Nat, Len(ss) = n, \A i \in 1 .. n : ss[i] \in Seq(X),
           n = 0 => ss = << >>, NEW c, NEW e,
           \A i \in 1 .. n : NoneAfter(ss[i], c, e),
           \A i, j \in 1 .. n : Has(ss[i], c) /\ Has(ss[j], e) => i = j
    PROVE  NoneAfter(FlattenSeq(ss), c, e)
<1> DEFINE r == FlattenSeq(ss)
<1>1. \E b, o : Located(r, ss, n, b, o)
    BY FlattenIsLocated
<1> HIDE DEF r
<1>2. PICK b, o : Located(r, ss, n, b, o)
    BY <1>1
<1> SUFFICES ASSUME NEW p \in 1 .. Len(r), NEW q \in 1 .. Len(r), p < q, r[p] = c, r[q] = e
             PROVE  FALSE
    BY DEF r, NoneAfter
<1>3. /\ b[p] \in 1 .. n /\ o[p] \in 1 .. Len(ss[b[p]]) /\ c = ss[b[p]][o[p]]
      /\ b[q] \in 1 .. n /\ o[q] \in 1 .. Len(ss[b[q]]) /\ e = ss[b[q]][o[q]]
    BY <1>2 DEF Located
<1>4. b[p] = b[q]
    <2>1. Has(ss[b[p]], c) /\ Has(ss[b[q]], e)
        BY <1>3 DEF Has
    <2> QED BY <1>3, <2>1
<1>5. o[p] < o[q]
    <2>1. b[p] < b[q] \/ (b[p] = b[q] /\ o[p] < o[q])
        BY <1>2 DEF Located
    <2> QED BY <1>3, <1>4, <2>1
<1> QED BY <1>3, <1>4, <1>5 DEF NoneAfter

-----------------------------------------------------------------------------
\* The plans that put files back

\* A plan for other files says nothing of f.
LEMMA Elsewhere ==
    ASSUME NEW F, NEW E, NEW p \in Seq(MendChanges(F, E)), NEW f
    PROVE  /\ f \notin F => /\ ~Has(p, Delete("path", f)) /\ ~Has(p, PutBack(f))
           /\ f \notin E => ~Has(p, Write("path", f, {}))
<1>1. \A i \in 1 .. Len(p) : p[i] \in MendChanges(F, E)
    BY ElementOfSeq
<1>2. \A i \in 1 .. Len(p) : \/ \E g \in F : p[i] = Delete("path", g)
                             \/ \E g \in F : p[i] = PutBack(g)
                             \/ \E g \in F : p[i] = Delete("temp", g)
                             \/ \E g \in E : p[i] = Write("path", g, {})
                             \/ p[i] = RemoveManifest
    BY <1>1 DEF MendChanges
<1>3. \A g : /\ Delete("path", f) = Delete("path", g) => f = g
             /\ Delete("path", f) # PutBack(g) /\ Delete("path", f) # Delete("temp", g)
             /\ Delete("path", f) # RemoveManifest
    <2> TAKE g
    <2>1. Delete("path", f) = Delete("path", g) => f = g
        BY ChangesDiffer
    <2>2. Delete("path", f) # PutBack(g) /\ Delete("path", f) # RemoveManifest
        BY ChangesDiffer
    <2>3. Delete("path", f) # Delete("temp", g)
        BY ChangesDiffer
    <2> QED BY <2>1, <2>2, <2>3
<1>4. \A g : Write("path", g, {}) # Delete("path", f) /\ Write("path", g, {}) # PutBack(f)
    BY ChangesDiffer, SMTT(30)
<1>5. \A g : /\ PutBack(f) = PutBack(g) => f = g
             /\ PutBack(f) # Delete("path", g) /\ PutBack(f) # Delete("temp", g)
             /\ PutBack(f) # RemoveManifest
    <2> TAKE g
    <2>1. PutBack(f) = PutBack(g) => f = g
        BY ChangesDiffer
    <2>2. \A slot : Delete(slot, g) # PutBack(f)
        BY DEF PutBack, Rename, Delete
    <2>3. PutBack(f) # RemoveManifest
        BY ChangesDiffer
    <2> QED BY <2>1, <2>2, <2>3
<1>6. \A g : /\ Write("path", f, {}) = Write("path", g, {}) => f = g
             /\ Write("path", f, {}) # Delete("path", g) /\ Write("path", f, {}) # Delete("temp", g)
             /\ Write("path", f, {}) # PutBack(g) /\ Write("path", f, {}) # RemoveManifest
    <2> TAKE g
    <2>1. Write("path", f, {}) = Write("path", g, {}) => f = g
        BY ChangesDiffer
    <2>2. Write("path", f, {}) # Delete("path", g) /\ Write("path", f, {}) # Delete("temp", g)
        BY ChangesDiffer
    <2>3. Write("path", f, {}) # PutBack(g) /\ Write("path", f, {}) # RemoveManifest
        BY ChangesDiffer
    <2> QED BY <2>1, <2>2, <2>3
<1>7. f \notin F => ~Has(p, Delete("path", f))
    BY <1>2, <1>3, <1>4 DEF Has
<1>8. f \notin F => ~Has(p, PutBack(f))
    BY <1>2, <1>4, <1>5 DEF Has
<1>9. f \notin E => ~Has(p, Write("path", f, {}))
    BY <1>2, <1>6 DEF Has
<1> QED BY <1>7, <1>8, <1>9

LEMMA MendConcat ==
    ASSUME NEW d, NEW F, NEW E \in SUBSET F, NEW G, NEW H \in SUBSET G, F \cap G = {},
           NEW p, MendingFiles(d, p, F, E), NEW q, MendingFiles(d, q, G, H)
    PROVE  MendingFiles(d, p \o q, F \cup G, E \cup H)
<1> DEFINE X == MendChanges(F \cup G, E \cup H)
<1>1. p \in Seq(MendChanges(F, E)) /\ q \in Seq(MendChanges(G, H))
    BY DEF MendingFiles
<1>2. p \in Seq(X) /\ q \in Seq(X)
    <2>1. MendChanges(F, E) \subseteq X /\ MendChanges(G, H) \subseteq X
        BY DEF MendChanges
    <2> HIDE DEF X
    <2> QED BY <1>1, <2>1, SeqMonotonic
<1>3. \A f : /\ f \notin F => ~Has(p, Delete("path", f)) /\ ~Has(p, PutBack(f))
             /\ f \notin E => ~Has(p, Write("path", f, {}))
    BY <1>1, Elsewhere
<1>4. \A f : /\ f \notin G => ~Has(q, Delete("path", f)) /\ ~Has(q, PutBack(f))
             /\ f \notin H => ~Has(q, Write("path", f, {}))
    BY <1>1, Elsewhere
<1>5. \A f : ~Has(p, f) => \A e : NoneAfter(p, f, e) /\ NoneAfter(p, e, f)
    BY DEF Has, NoneAfter
<1>6. \A f : ~Has(q, f) => \A e : NoneAfter(q, f, e) /\ NoneAfter(q, e, f)
    BY DEF Has, NoneAfter
<1>7. \A c : Has(p \o q, c) <=> Has(p, c) \/ Has(q, c)
    BY <1>2, ConcatHas
<1>8. \A f \in F \cup G : /\ NoneAfter(p \o q, PutBack(f), Delete("path", f))
                          /\ NoneAfter(p \o q, PutBack(f), PutBack(f))
    <2> TAKE f \in F \cup G
    <2>1. /\ NoneAfter(p, PutBack(f), Delete("path", f)) /\ NoneAfter(q, PutBack(f), Delete("path", f))
          /\ NoneAfter(p, PutBack(f), PutBack(f)) /\ NoneAfter(q, PutBack(f), PutBack(f))
        BY <1>3, <1>4, <1>5, <1>6 DEF MendingFiles
    <2>2. ~Has(p, PutBack(f)) \/ (~Has(q, Delete("path", f)) /\ ~Has(q, PutBack(f)))
        BY <1>3, <1>4
    <2> QED BY <1>2, <2>1, <2>2, ConcatNoneAfter
<1>9. \A f \in E \cup H : NoneAfter(p \o q, Write("path", f, {}), Write("path", f, {}))
    <2> TAKE f \in E \cup H
    <2>1. /\ NoneAfter(p, Write("path", f, {}), Write("path", f, {}))
          /\ NoneAfter(q, Write("path", f, {}), Write("path", f, {}))
        BY <1>3, <1>4, <1>5, <1>6 DEF MendingFiles
    <2>2. ~Has(p, Write("path", f, {})) \/ ~Has(q, Write("path", f, {}))
        BY <1>3, <1>4
    <2> QED BY <1>2, <2>1, <2>2, ConcatNoneAfter
<1>10. p \o q \in Seq(X)
    BY <1>2, ConcatProperties
<1>11. /\ \A f \in F : Has(p, Delete("path", f)) \/ Has(p, PutBack(f)) => Holds(d, "backup", f)
       /\ \A f \in F : Holds(d, "backup", f) => Has(p, PutBack(f))
       /\ \A f \in E : /\ Has(p, Write("path", f, {})) => ~Holds(d, "path", f) /\ ~Holds(d, "backup", f)
                       /\ Holds(d, "path", f) \/ Holds(d, "backup", f) \/ Has(p, Write("path", f, {}))
    BY DEF MendingFiles
<1>12. /\ \A f \in G : Has(q, Delete("path", f)) \/ Has(q, PutBack(f)) => Holds(d, "backup", f)
       /\ \A f \in G : Holds(d, "backup", f) => Has(q, PutBack(f))
       /\ \A f \in H : /\ Has(q, Write("path", f, {})) => ~Holds(d, "path", f) /\ ~Holds(d, "backup", f)
                       /\ Holds(d, "path", f) \/ Holds(d, "backup", f) \/ Has(q, Write("path", f, {}))
    BY DEF MendingFiles
<1>13. \A f \in F \cup G : Has(p \o q, Delete("path", f)) \/ Has(p \o q, PutBack(f)) => Holds(d, "backup", f)
    BY <1>3, <1>4, <1>7, <1>11, <1>12
<1>14. \A f \in F \cup G : Holds(d, "backup", f) => Has(p \o q, PutBack(f))
    BY <1>7, <1>11, <1>12
<1>15. \A f \in E \cup H :
           /\ Has(p \o q, Write("path", f, {})) => ~Holds(d, "path", f) /\ ~Holds(d, "backup", f)
           /\ Holds(d, "path", f) \/ Holds(d, "backup", f) \/ Has(p \o q, Write("path", f, {}))
    BY <1>3, <1>4, <1>7, <1>11, <1>12
<1> HIDE DEF X
<1> QED BY <1>8, <1>9, <1>10, <1>13, <1>14, <1>15 DEF MendingFiles, X

LEMMA MendFlatten ==
    ASSUME NEW d, NEW n \in Nat, NEW ss, Len(ss) = n, n = 0 => ss = << >>,
           NEW fs, \A i, j \in 1 .. n : fs[i] = fs[j] => i = j,
           NEW F, F = {fs[i] : i \in 1 .. n}, NEW E \in SUBSET F,
           \A i \in 1 .. n : MendingFiles(d, ss[i], {fs[i]}, E \cap {fs[i]})
    PROVE  MendingFiles(d, FlattenSeq(ss), F, E)
<1> DEFINE X == MendChanges(F, E)
           r == FlattenSeq(ss)
<1>1. \A i \in 1 .. n : ss[i] \in Seq(MendChanges({fs[i]}, E \cap {fs[i]}))
    BY DEF MendingFiles
<1>2. \A i \in 1 .. n : ss[i] \in Seq(X)
    <2> TAKE i \in 1 .. n
    <2>1. fs[i] \in F
        OBVIOUS
    <2>2. MendChanges({fs[i]}, E \cap {fs[i]}) \subseteq X
        BY <2>1 DEF MendChanges
    <2> HIDE DEF X
    <2> QED BY <1>1, <2>2, SeqMonotonic
<1>3. \A i \in 1 .. n : \A f :
          /\ f # fs[i] => ~Has(ss[i], Delete("path", f)) /\ ~Has(ss[i], PutBack(f))
          /\ f # fs[i] => ~Has(ss[i], Write("path", f, {}))
    <2> TAKE i \in 1 .. n
    <2> TAKE f
    <2>1. f # fs[i] => f \notin {fs[i]} /\ f \notin E \cap {fs[i]}
        OBVIOUS
    <2> QED BY <1>1, <2>1, Elsewhere
<1>4. r \in Seq(X) /\ \A c : Has(r, c) <=> \E i \in 1 .. n : Has(ss[i], c)
    <2> HIDE DEF X
    <2> QED BY <1>2, FlattenHas
<1>5. \A c, e : (\A i \in 1 .. n : NoneAfter(ss[i], c, e))
                /\ (\A i, j \in 1 .. n : Has(ss[i], c) /\ Has(ss[j], e) => i = j)
                => NoneAfter(r, c, e)
    <2> HIDE DEF X
    <2> SUFFICES ASSUME NEW c, NEW e, \A i \in 1 .. n : NoneAfter(ss[i], c, e),
                        \A i, j \in 1 .. n : Has(ss[i], c) /\ Has(ss[j], e) => i = j
                 PROVE  NoneAfter(r, c, e)
        OBVIOUS
    <2> QED BY <1>2, FlattenNoneAfter, SMTT(30)
<1> HIDE DEF r
<1>6. \A i \in 1 .. n : \A c : ~Has(ss[i], c) => \A e : NoneAfter(ss[i], c, e)
    BY DEF Has, NoneAfter
<1>7. \A i \in 1 .. n :
          LET f == fs[i]
              p == ss[i]
          IN  /\ Has(p, Delete("path", f)) \/ Has(p, PutBack(f)) => Holds(d, "backup", f)
              /\ NoneAfter(p, PutBack(f), Delete("path", f)) /\ NoneAfter(p, PutBack(f), PutBack(f))
              /\ Holds(d, "backup", f) => Has(p, PutBack(f))
    BY DEF MendingFiles
<1>8. \A i \in 1 .. n : fs[i] \in E =>
          LET f == fs[i]
              p == ss[i]
          IN  /\ Has(p, Write("path", f, {})) => ~Holds(d, "path", f) /\ ~Holds(d, "backup", f)
              /\ NoneAfter(p, Write("path", f, {}), Write("path", f, {}))
              /\ Holds(d, "path", f) \/ Holds(d, "backup", f) \/ Has(p, Write("path", f, {}))
    BY DEF MendingFiles
<1>9. \A f \in F : Has(r, Delete("path", f)) \/ Has(r, PutBack(f)) => Holds(d, "backup", f)
    BY <1>3, <1>4, <1>7
<1>10. \A f \in F : NoneAfter(r, PutBack(f), Delete("path", f))
    <2> TAKE f \in F
    <2>1. \A i \in 1 .. n : NoneAfter(ss[i], PutBack(f), Delete("path", f))
        BY <1>3, <1>6, <1>7
    <2>2. \A i, j \in 1 .. n : Has(ss[i], PutBack(f)) /\ Has(ss[j], Delete("path", f)) => i = j
        BY <1>3
    <2> QED BY <1>5, <2>1, <2>2
<1>11. \A f \in F : NoneAfter(r, PutBack(f), PutBack(f))
    <2> TAKE f \in F
    <2>1. \A i \in 1 .. n : NoneAfter(ss[i], PutBack(f), PutBack(f))
        BY <1>3, <1>6, <1>7
    <2>2. \A i, j \in 1 .. n : Has(ss[i], PutBack(f)) /\ Has(ss[j], PutBack(f)) => i = j
        BY <1>3
    <2> QED BY <1>5, <2>1, <2>2
<1>12. \A f \in F : Holds(d, "backup", f) => Has(r, PutBack(f))
    BY <1>4, <1>7
<1>13. \A f \in E :
           /\ Has(r, Write("path", f, {})) => ~Holds(d, "path", f) /\ ~Holds(d, "backup", f)
           /\ Holds(d, "path", f) \/ Holds(d, "backup", f) \/ Has(r, Write("path", f, {}))
    <2> TAKE f \in E
    <2>1. PICK i \in 1 .. n : fs[i] = f
        OBVIOUS
    <2> QED BY <1>3, <1>4, <1>8, <2>1
<1>14. \A f \in E : NoneAfter(r, Write("path", f, {}), Write("path", f, {}))
    <2> TAKE f \in E
    <2>1. \A i \in 1 .. n : NoneAfter(ss[i], Write("path", f, {}), Write("path", f, {}))
        BY <1>3, <1>6, <1>8
    <2>2. \A i, j \in 1 .. n : Has(ss[i], Write("path", f, {})) /\ Has(ss[j], Write("path", f, {})) => i = j
        BY <1>3
    <2> QED BY <1>5, <2>1, <2>2
<1> HIDE DEF X
<1> QED BY <1>4, <1>9, <1>10, <1>11, <1>12, <1>13, <1>14 DEF MendingFiles, X, r

LEMMA RemoveIfThereDoes ==
    ASSUME NEW d, NEW slot, NEW f, NEW X, Delete(slot, f) \in X
    PROVE  /\ RemoveIfThere(d, slot, f) \in Seq(X)
           /\ \A c : Has(RemoveIfThere(d, slot, f), c) <=> Holds(d, slot, f) /\ c = Delete(slot, f)
           /\ \A c, e : NoneAfter(RemoveIfThere(d, slot, f), c, e)
<1> DEFINE c == Delete(slot, f)
<1>1. << >> \in Seq(X)
    OBVIOUS
<1>2. <<c>> \in Seq(X)
    <2> HIDE DEF c
    <2> SUFFICES c \in X
        OBVIOUS
    <2> QED BY DEF c
<1>3. /\ \A e : Has(<<c>>, e) <=> c = e
      /\ \A e, g : NoneAfter(<<c>>, e, g)
      /\ \A e : ~Has(<< >>, e)
      /\ \A e, g : NoneAfter(<< >>, e, g)
    BY HasOne
<1>4. RemoveIfThere(d, slot, f) = IF Holds(d, slot, f) THEN <<c>> ELSE << >>
    BY DEF RemoveIfThere
<1> HIDE DEF c
<1>5. CASE Holds(d, slot, f)
    <2>1. RemoveIfThere(d, slot, f) = <<c>>
        BY <1>4, <1>5
    <2>2. \A e : Has(RemoveIfThere(d, slot, f), e) <=> Holds(d, slot, f) /\ e = c
        BY <1>3, <1>5, <2>1
    <2> QED BY <1>2, <1>3, <2>1, <2>2 DEF c
<1>6. CASE ~Holds(d, slot, f)
    <2>1. RemoveIfThere(d, slot, f) = << >>
        BY <1>4, <1>6
    <2>2. \A e : Has(RemoveIfThere(d, slot, f), e) <=> Holds(d, slot, f) /\ e = c
        BY <1>3, <1>6, <2>1
    <2> QED BY <1>1, <1>3, <2>1, <2>2 DEF c
<1> QED BY <1>5, <1>6

LEMMA RecoverArtifactsDoes ==
    ASSUME NEW d, NEW f, NEW p, p = RecoverArtifacts(d, f)
    PROVE  /\ p \in Seq({Delete("path", f), PutBack(f), Delete("temp", f)})
           /\ \A c : Has(p, c) <=> \/ c = Delete("path", f) /\ Holds(d, "path", f) /\ Holds(d, "backup", f)
                                   \/ c = PutBack(f) /\ Holds(d, "backup", f)
                                   \/ c = Delete("temp", f) /\ Holds(d, "temp", f)
           /\ NoneAfter(p, PutBack(f), Delete("path", f))
           /\ NoneAfter(p, PutBack(f), PutBack(f))
<1> DEFINE X == {Delete("path", f), PutBack(f), Delete("temp", f)}
           a == RemoveIfThere(d, "path", f)
           b == <<PutBack(f)>>
           c == RemoveIfThere(d, "temp", f)
           ab == IF Holds(d, "backup", f) THEN a \o b ELSE << >>
<1>1. /\ a \in Seq(X)
      /\ \A g : Has(a, g) <=> Holds(d, "path", f) /\ g = Delete("path", f)
      /\ \A g, e : NoneAfter(a, g, e)
    <2> Delete("path", f) \in X
        OBVIOUS
    <2> HIDE DEF X
    <2> QED BY RemoveIfThereDoes
<1>2. /\ c \in Seq(X)
      /\ \A g : Has(c, g) <=> Holds(d, "temp", f) /\ g = Delete("temp", f)
      /\ \A g, e : NoneAfter(c, g, e)
    <2> Delete("temp", f) \in X
        OBVIOUS
    <2> HIDE DEF X
    <2> QED BY RemoveIfThereDoes
<1>3. b \in Seq(X)
    <2> PutBack(f) \in X
        OBVIOUS
    <2> HIDE DEF X
    <2> DEFINE h == PutBack(f)
    <2> HIDE DEF h
    <2> h \in X
        BY DEF h
    <2> <<h>> \in Seq(X)
        OBVIOUS
    <2> QED BY DEF h
<1>4. /\ \A e : Has(b, e) <=> PutBack(f) = e
      /\ \A e, g : NoneAfter(b, e, g)
      /\ \A e : ~Has(<< >>, e)
      /\ \A e, g : NoneAfter(<< >>, e, g)
    BY HasOne
<1>5. p = ab \o c
    BY DEF RecoverArtifacts, PutBack
<1> HIDE DEF X, a, b, c
<1>6. PutBack(f) # Delete("path", f) /\ PutBack(f) # Delete("temp", f) /\ Delete("path", f) # Delete("temp", f)
    BY DEF PutBack, Rename, Delete
<1>7. ab \in Seq(X)
    <2>1. << >> \in Seq(X) /\ a \o b \in Seq(X)
        BY <1>1, <1>3, ConcatProperties
    <2> QED BY <2>1
<1>8. \A g : Has(ab, g) <=> Holds(d, "backup", f) /\ (g = PutBack(f) \/ (Holds(d, "path", f) /\ g = Delete("path", f)))
    <2>1. \A g : Has(a \o b, g) <=> Has(a, g) \/ Has(b, g)
        BY <1>1, <1>3, ConcatHas
    <2>2. CASE Holds(d, "backup", f)
        BY <1>1, <1>4, <2>1, <2>2
    <2>3. CASE ~Holds(d, "backup", f)
        BY <1>4, <2>3
    <2> QED BY <2>2, <2>3
<1>9. NoneAfter(ab, PutBack(f), Delete("path", f)) /\ NoneAfter(ab, PutBack(f), PutBack(f))
    <2>1. ~Has(a, PutBack(f))
        BY <1>1, <1>6
    <2>2. NoneAfter(a \o b, PutBack(f), Delete("path", f)) /\ NoneAfter(a \o b, PutBack(f), PutBack(f))
        BY <1>1, <1>3, <1>4, <2>1, ConcatNoneAfter
    <2> QED BY <1>4, <2>2
<1> HIDE DEF ab
<1>10. p \in Seq(X)
    BY <1>2, <1>5, <1>7, ConcatProperties
<1>11. \A g : Has(p, g) <=> Has(ab, g) \/ Has(c, g)
    BY <1>2, <1>5, <1>7, ConcatHas
<1>12. ~Has(c, PutBack(f)) /\ ~Has(c, Delete("path", f))
    BY <1>2, <1>6
<1>13. NoneAfter(p, PutBack(f), Delete("path", f)) /\ NoneAfter(p, PutBack(f), PutBack(f))
    BY <1>2, <1>5, <1>7, <1>9, <1>12, ConcatNoneAfter
<1>14. \A g : Has(p, g) <=> \/ g = Delete("path", f) /\ Holds(d, "path", f) /\ Holds(d, "backup", f)
                            \/ g = PutBack(f) /\ Holds(d, "backup", f)
                            \/ g = Delete("temp", f) /\ Holds(d, "temp", f)
    BY <1>2, <1>8, <1>11
<1> QED BY <1>10, <1>13, <1>14 DEF X

\* recoverReplacementArtifacts puts one file back.
LEMMA RecoverArtifactsMends ==
    ASSUME NEW d, NEW f
    PROVE  MendingFiles(d, RecoverArtifacts(d, f), {f}, {})
<1> DEFINE p == RecoverArtifacts(d, f)
           X == {Delete("path", f), PutBack(f), Delete("temp", f)}
<1>1. /\ p \in Seq(X)
      /\ \A c : Has(p, c) <=> \/ c = Delete("path", f) /\ Holds(d, "path", f) /\ Holds(d, "backup", f)
                              \/ c = PutBack(f) /\ Holds(d, "backup", f)
                              \/ c = Delete("temp", f) /\ Holds(d, "temp", f)
      /\ NoneAfter(p, PutBack(f), Delete("path", f))
      /\ NoneAfter(p, PutBack(f), PutBack(f))
    BY RecoverArtifactsDoes
<1> HIDE DEF p
<1>2. p \in Seq(MendChanges({f}, {}))
    <2>1. X \subseteq MendChanges({f}, {})
        BY DEF MendChanges
    <2> HIDE DEF X
    <2> QED BY <1>1, <2>1, SeqMonotonic
<1>3. PutBack(f) # Delete("path", f) /\ PutBack(f) # Delete("temp", f) /\ Delete("path", f) # Delete("temp", f)
    BY DEF PutBack, Rename, Delete
<1>4. Has(p, Delete("path", f)) \/ Has(p, PutBack(f)) => Holds(d, "backup", f)
    BY <1>1, <1>3
<1>5. Holds(d, "backup", f) => Has(p, PutBack(f))
    BY <1>1
<1> QED BY <1>1, <1>2, <1>4, <1>5 DEF MendingFiles, p

\* initializeSchema then creates it if it is missing.
LEMMA CreatingMends ==
    ASSUME NEW d, NEW f
    PROVE  MendingFiles(d, RecoverArtifacts(d, f)
                           \o (IF Holds(d, "path", f) \/ Holds(d, "backup", f) THEN << >>
                               ELSE <<Write("path", f, {})>>), {f}, {f})
<1> DEFINE a == RecoverArtifacts(d, f)
           X == MendChanges({f}, {f})
           w == Write("path", f, {})
           here == Holds(d, "path", f) \/ Holds(d, "backup", f)
           made == IF here THEN << >> ELSE <<w>>
<1>1. MendingFiles(d, a, {f}, {})
    BY RecoverArtifactsMends
<1>2. a \in Seq(MendChanges({f}, {}))
    BY <1>1 DEF MendingFiles
<1>3. a \in Seq(X)
    <2>1. MendChanges({f}, {}) \subseteq X
        BY DEF MendChanges
    <2> HIDE DEF X
    <2> QED BY <1>2, <2>1, SeqMonotonic
<1>4. ~Has(a, w)
    <2> HIDE DEF a
    <2> QED BY <1>2, Elsewhere
<1>5. w \in X
    BY DEF MendChanges
<1>6. /\ \A e : Has(<<w>>, e) <=> w = e
      /\ \A e, g : NoneAfter(<<w>>, e, g)
      /\ \A e : ~Has(<< >>, e)
      /\ \A e, g : NoneAfter(<< >>, e, g)
    BY HasOne
<1>7. w # PutBack(f) /\ w # Delete("path", f)
    BY DEF PutBack, Rename, Delete, Write
<1>8. made = IF here THEN << >> ELSE <<w>>
    OBVIOUS
<1> HIDE DEF a, w, X, here, made
<1>9. /\ made \in Seq(X)
      /\ \A e : Has(made, e) <=> ~here /\ e = w
      /\ \A e, g : NoneAfter(made, e, g)
    <2>1. << >> \in Seq(X)
        OBVIOUS
    <2>2. <<w>> \in Seq(X)
        BY <1>5
    <2>3. CASE here
        <3>1. made = << >>
            BY <1>8, <2>3
        <3> QED BY <1>6, <2>1, <2>3, <3>1
    <2>4. CASE ~here
        <3>1. made = <<w>>
            BY <1>8, <2>4
        <3> QED BY <1>6, <2>2, <2>4, <3>1
    <2> QED BY <2>3, <2>4
<1>10. a \o made \in Seq(X)
    BY <1>3, <1>9, ConcatProperties
<1>11. \A e : Has(a \o made, e) <=> Has(a, e) \/ Has(made, e)
    <2>1. made \in Seq(X)
        BY <1>9
    <2> QED BY <1>3, <2>1, ConcatHas
<1>12. ~Has(made, PutBack(f)) /\ ~Has(made, Delete("path", f))
    BY <1>7, <1>9
<1>13. NoneAfter(a, PutBack(f), Delete("path", f)) /\ NoneAfter(a, PutBack(f), PutBack(f))
    BY <1>1 DEF MendingFiles
<1>14. NoneAfter(a, w, w)
    BY <1>4 DEF NoneAfter, Has
<1>15. NoneAfter(a \o made, PutBack(f), Delete("path", f)) /\ NoneAfter(a \o made, PutBack(f), PutBack(f))
    BY <1>3, <1>9, <1>12, <1>13, ConcatNoneAfter
<1>16. NoneAfter(a \o made, w, w)
    BY <1>3, <1>4, <1>9, <1>14, ConcatNoneAfter
<1>17. /\ Has(a, Delete("path", f)) \/ Has(a, PutBack(f)) => Holds(d, "backup", f)
       /\ Holds(d, "backup", f) => Has(a, PutBack(f))
    BY <1>1 DEF MendingFiles
<1>18. /\ Has(a \o made, Delete("path", f)) \/ Has(a \o made, PutBack(f)) => Holds(d, "backup", f)
       /\ Holds(d, "backup", f) => Has(a \o made, PutBack(f))
    BY <1>11, <1>12, <1>17
<1>19. /\ Has(a \o made, w) => ~Holds(d, "path", f) /\ ~Holds(d, "backup", f)
       /\ Holds(d, "path", f) \/ Holds(d, "backup", f) \/ Has(a \o made, w)
    BY <1>4, <1>9, <1>11 DEF here
<1> QED BY <1>10, <1>15, <1>16, <1>18, <1>19 DEF MendingFiles, a, w, X, made, here

\* The manifest of files that were all there.
FullManifest(files) == [i \in DOMAIN files |-> Target(files[i], TRUE)]
InOrder(files, F) == /\ files \in Seq(F)
                     /\ F = {files[i] : i \in 1 .. Len(files)}
                     /\ \A i, j \in 1 .. Len(files) : files[i] = files[j] => i = j

LEMMA FullManifestFacts ==
    ASSUME NEW F, NEW files, InOrder(files, F), NEW d, d.manifest = FullManifest(files)
    PROVE  /\ DOMAIN d.manifest = 1 .. Len(files)
           /\ Len(d.manifest) = Len(files) /\ Len(files) \in Nat
           /\ \A i \in 1 .. Len(files) : d.manifest[i] = Target(files[i], TRUE)
           /\ d.manifest \in Seq([file : F, hadPath : BOOLEAN])
           /\ AllHadPath(d)
           /\ TargetFiles(d) = F
<1> DEFINE n == Len(files)
           m == [i \in 1 .. n |-> Target(files[i], TRUE)]
<1>1. n \in Nat /\ DOMAIN files = 1 .. n /\ \A i \in 1 .. n : files[i] \in F
    BY DEF InOrder
<1>2. d.manifest = m
    BY <1>1 DEF FullManifest
<1>3. DOMAIN m = 1 .. n /\ \A i \in 1 .. n : m[i] = Target(files[i], TRUE)
    OBVIOUS
<1>4. \A i \in 1 .. n : Target(files[i], TRUE) \in [file : F, hadPath : BOOLEAN]
    BY <1>1 DEF Target
<1>5. m \in Seq([file : F, hadPath : BOOLEAN]) /\ Len(m) = n
    <2> DEFINE T == [file : F, hadPath : BOOLEAN]
    <2>1. m \in [1 .. n -> T]
        BY <1>4
    <2> HIDE DEF T, m, n
    <2>2. m \in Seq(T) /\ Len(m) = n
        BY <1>1, <2>1, SeqOfFunction
    <2> QED BY <2>2 DEF T
<1>6. AllHadPath(d)
    BY <1>2, <1>3 DEF AllHadPath, Target
<1>7. TargetFiles(d) = {files[i] : i \in 1 .. n}
    <2>1. \A i \in 1 .. n : m[i].file = files[i]
        BY <1>3 DEF Target
    <2> HIDE DEF m
    <2> QED BY <1>2, <1>3, <2>1 DEF TargetFiles
<1> HIDE DEF m
<1> QED BY <1>1, <1>2, <1>3, <1>5, <1>6, <1>7 DEF InOrder

LEMMA RollBackBegins ==
    ASSUME NEW F, NEW files, InOrder(files, F), NEW d, d.manifest = FullManifest(files), ~d.commit
    PROVE  Mending(d, RollBack(d), F, {})
<1> DEFINE n == Len(files)
           ss == [i \in DOMAIN d.manifest |-> RollBackTarget(d, Reverse(d.manifest)[i])]
           fs == [i \in 1 .. n |-> files[n - i + 1]]
<1>1. /\ DOMAIN d.manifest = 1 .. n
      /\ Len(d.manifest) = n /\ n \in Nat
      /\ \A i \in 1 .. n : d.manifest[i] = Target(files[i], TRUE)
    BY FullManifestFacts
<1>2. \A i \in 1 .. n : n - i + 1 \in 1 .. n /\ fs[i] = files[n - i + 1]
    BY <1>1
<1>3. DOMAIN ss = 1 .. n /\ \A i \in 1 .. n : ss[i] = RecoverArtifacts(d, fs[i])
    <2>1. DOMAIN ss = 1 .. n
        BY <1>1
    <2>2. \A i \in 1 .. n : Reverse(d.manifest)[i] = Target(fs[i], TRUE)
        BY <1>1, <1>2 DEF Reverse
    <2>3. \A i \in 1 .. n : ss[i] = RollBackTarget(d, Target(fs[i], TRUE))
        BY <1>1, <2>2
    <2>4. \A f : RollBackTarget(d, Target(f, TRUE)) = RecoverArtifacts(d, f)
        BY DEF RollBackTarget, RecoverArtifacts, Target
    <2> QED BY <2>1, <2>3, <2>4, Zenon
<1>4. \A i, j \in 1 .. n : fs[i] = fs[j] => i = j
    <2> TAKE i, j \in 1 .. n
    <2> HAVE fs[i] = fs[j]
    <2>1. n - i + 1 = n - j + 1
        BY <1>2 DEF InOrder
    <2> QED BY <1>1, <2>1
<1>5. F = {fs[i] : i \in 1 .. n}
    <2>1. \A i \in 1 .. n : fs[i] \in F
        BY <1>2 DEF InOrder
    <2>2. \A f \in F : \E i \in 1 .. n : fs[i] = f
        <3> TAKE f \in F
        <3>1. PICK j \in 1 .. n : files[j] = f
            BY DEF InOrder
        <3>2. n - j + 1 \in 1 .. n /\ n - (n - j + 1) + 1 = j
            BY <1>1
        <3> QED BY <1>2, <3>1, <3>2
    <2> HIDE DEF fs
    <2> QED BY <2>1, <2>2
<1>6. Len(ss) = n /\ (n = 0 => ss = << >>)
    <2>1. ss \in Seq({ss[i] : i \in 1 .. n}) /\ Len(ss) = n
        <3>1. ss = [i \in 1 .. n |-> ss[i]]
            BY <1>3
        <3> HIDE DEF ss
        <3> QED BY <1>1, <1>3, <3>1
    <2> HIDE DEF ss
    <2> QED BY <2>1, EmptySeq
<1> HIDE DEF ss, fs
<1>7. \A i \in 1 .. n : MendingFiles(d, ss[i], {fs[i]}, {} \cap {fs[i]})
    <2>1. \A f : {} \cap {f} = {}
        OBVIOUS
    <2> QED BY <1>3, <2>1, RecoverArtifactsMends, Zenon
<1>8. MendingFiles(d, FlattenSeq(ss), F, {})
    <2>1. {} \in SUBSET F
        OBVIOUS
    <2> QED BY <1>1, <1>4, <1>5, <1>6, <1>7, <2>1, MendFlatten
<1> DEFINE last == <<RemoveManifest>>
<1>9. /\ \A e : Has(last, e) <=> RemoveManifest = e
      /\ \A e, g : NoneAfter(last, e, g)
    BY HasOne
<1>10. last \in Seq(MendChanges({}, {}))
    <2> DEFINE r == RemoveManifest
    <2>1. r \in MendChanges({}, {})
        BY DEF MendChanges
    <2> HIDE DEF r
    <2>2. <<r>> \in Seq(MendChanges({}, {}))
        BY <2>1
    <2> QED BY <2>2 DEF r
<1> HIDE DEF last
<1>11. MendingFiles(d, last, {}, {})
    BY <1>10 DEF MendingFiles
<1> DEFINE p == FlattenSeq(ss)
<1>12. MendingFiles(d, p \o last, F \cup {}, {} \cup {})
    <2>1. {} \in SUBSET F /\ {} \in SUBSET {} /\ F \cap {} = {}
        OBVIOUS
    <2> HIDE DEF p
    <2> QED BY <1>8, <1>11, <2>1, MendConcat DEF p
<1>13. MendingFiles(d, p \o last, F, {})
    <2> F \cup {} = F /\ {} \cup {} = {}
        OBVIOUS
    <2> HIDE DEF p
    <2> QED BY <1>12
<1>14. Has(p \o last, RemoveManifest)
    <2>1. p \in Seq(MendChanges(F, {}))
        BY <1>8 DEF MendingFiles
    <2>2. MendChanges({}, {}) \subseteq MendChanges(F, {})
        BY DEF MendChanges
    <2>3. last \in Seq(MendChanges(F, {}))
        BY <1>10, <2>2, SeqMonotonic
    <2> HIDE DEF p
    <2> QED BY <1>9, <2>1, <2>3, ConcatHas
<1>15. RollBack(d) = p \o last
    BY DEF RollBack, p, last, ss
<1> HIDE DEF p
<1> QED BY <1>13, <1>14, <1>15 DEF Mending

-----------------------------------------------------------------------------
\* Finishing what is committed (finishCommittedTransaction)

FinishChanges(F) ==
    {Delete("backup", f) : f \in F} \cup {Delete("temp", f) : f \in F} \cup {RemoveManifest, RemoveCommit}

\* A backup that is there goes while the manifest is there, the manifest goes while
\* the marker is there.
Finishing(d, p, F) ==
    /\ p \in Seq(FinishChanges(F))
    /\ \A f \in F : /\ Holds(d, "backup", f) => Has(p, Delete("backup", f)) /\ d.manifest # NoManifest
                    /\ NoneAfter(p, RemoveManifest, Delete("backup", f))
    /\ d.manifest # NoManifest => Has(p, RemoveManifest) /\ d.commit
    /\ NoneAfter(p, RemoveCommit, RemoveManifest)
    /\ d.commit => Has(p, RemoveCommit)

LEMMA FinishBegins ==
    ASSUME NEW F, NEW files, InOrder(files, F), NEW d, d.manifest = FullManifest(files),
           d.manifest # NoManifest, d.commit
    PROVE  Finishing(d, Finish(d), F)
<1> DEFINE n == Len(files)
<1>1. /\ DOMAIN d.manifest = 1 .. n
      /\ Len(d.manifest) = n /\ n \in Nat
      /\ \A i \in 1 .. n : d.manifest[i] = Target(files[i], TRUE)
    <2>1. DOMAIN d.manifest = 1 .. n
        BY FullManifestFacts
    <2>2. Len(d.manifest) = n /\ n \in Nat
        BY FullManifestFacts
    <2>3. \A i \in 1 .. n : d.manifest[i] = Target(files[i], TRUE)
        <3>1. DOMAIN files = 1 .. n
            BY DEF InOrder
        <3> QED BY <3>1 DEF FullManifest
    <2> QED BY <2>1, <2>2, <2>3
<1> DEFINE X == FinishChanges(F)
           ss == [i \in DOMAIN d.manifest |->
                     RemoveIfThere(d, "backup", d.manifest[i].file)
                     \o RemoveIfThere(d, "temp", d.manifest[i].file)]
           block(f) == RemoveIfThere(d, "backup", f) \o RemoveIfThere(d, "temp", f)
<1>2. DOMAIN ss = 1 .. n /\ \A i \in 1 .. n : ss[i] = block(files[i])
    <2>1. \A i \in 1 .. n : d.manifest[i].file = files[i]
        BY <1>1 DEF Target
    <2> QED BY <1>1, <2>1
<1>3. \A f \in F : /\ block(f) \in Seq(X)
                   /\ \A c : Has(block(f), c) <=> \/ Holds(d, "backup", f) /\ c = Delete("backup", f)
                                                  \/ Holds(d, "temp", f) /\ c = Delete("temp", f)
    <2> TAKE f \in F
    <2> DEFINE a == RemoveIfThere(d, "backup", f)
               b == RemoveIfThere(d, "temp", f)
    <2>1. Delete("backup", f) \in X /\ Delete("temp", f) \in X
        BY DEF FinishChanges
    <2> HIDE DEF X
    <2>2. /\ a \in Seq(X)
          /\ \A c : Has(a, c) <=> Holds(d, "backup", f) /\ c = Delete("backup", f)
        BY <2>1, RemoveIfThereDoes
    <2>3. /\ b \in Seq(X)
          /\ \A c : Has(b, c) <=> Holds(d, "temp", f) /\ c = Delete("temp", f)
        BY <2>1, RemoveIfThereDoes
    <2> HIDE DEF a, b
    <2>4. a \o b \in Seq(X)
        BY <2>2, <2>3, ConcatProperties
    <2>5. \A c : Has(a \o b, c) <=> Has(a, c) \/ Has(b, c)
        BY <2>2, <2>3, ConcatHas
    <2>6. \A c : Has(a \o b, c) <=> \/ Holds(d, "backup", f) /\ c = Delete("backup", f)
                                    \/ Holds(d, "temp", f) /\ c = Delete("temp", f)
        BY <2>2, <2>3, <2>5
    <2> QED BY <2>4, <2>6 DEF a, b
<1>4. Len(ss) = n /\ (n = 0 => ss = << >>)
    <2>1. ss \in [1 .. n -> {ss[i] : i \in 1 .. n}]
        <3>1. ss = [i \in 1 .. n |-> ss[i]]
            BY <1>2
        <3> HIDE DEF ss
        <3> QED BY <3>1
    <2> HIDE DEF ss
    <2>2. ss \in Seq({ss[i] : i \in 1 .. n}) /\ Len(ss) = n
        BY <1>1, <2>1, SeqOfFunction
    <2> QED BY <2>2, EmptySeq
<1> HIDE DEF ss, block, X
<1>5. \A i \in 1 .. n : files[i] \in F
    BY DEF InOrder
<1>6. \A i \in 1 .. n : ss[i] \in Seq(X)
    BY <1>2, <1>3, <1>5
<1> DEFINE r == FlattenSeq(ss)
           m == <<RemoveManifest, RemoveCommit>>
<1>7. r \in Seq(X) /\ \A c : Has(r, c) <=> \E i \in 1 .. n : Has(ss[i], c)
    BY <1>1, <1>4, <1>6, FlattenHas
<1>8. m \in Seq(X)
    <2> DEFINE a == RemoveManifest
               b == RemoveCommit
    <2>1. a \in X /\ b \in X
        BY DEF X, FinishChanges
    <2> HIDE DEF a, b
    <2>2. <<a, b>> \in Seq(X)
        BY <2>1
    <2> QED BY <2>2 DEF a, b
<1>9. Has(m, RemoveManifest) /\ Has(m, RemoveCommit)
    <2> DEFINE a == RemoveManifest
               b == RemoveCommit
    <2> HIDE DEF a, b
    <2>1. Len(<<a, b>>) = 2 /\ <<a, b>>[1] = a /\ <<a, b>>[2] = b
        OBVIOUS
    <2>2. 1 \in 1 .. 2 /\ 2 \in 1 .. 2
        OBVIOUS
    <2>3. Has(<<a, b>>, a) /\ Has(<<a, b>>, b)
        BY <2>1, <2>2 DEF Has
    <2> QED BY <2>3 DEF a, b
<1>10. \A f : ~Has(m, Delete("backup", f))
    <2> TAKE f
    <2> DEFINE a == RemoveManifest
               b == RemoveCommit
               c == Delete("backup", f)
    <2>1. c # a /\ c # b
        BY DEF Delete, RemoveManifest, RemoveCommit
    <2> HIDE DEF a, b, c
    <2>2. Len(<<a, b>>) = 2 /\ <<a, b>>[1] = a /\ <<a, b>>[2] = b
        OBVIOUS
    <2>3. 1 .. 2 = {1, 2}
        OBVIOUS
    <2>4. ~Has(<<a, b>>, c)
        BY <2>1, <2>2, <2>3 DEF Has
    <2> QED BY <2>4 DEF a, b, c
<1>11. NoneAfter(m, RemoveCommit, RemoveManifest)
    <2> DEFINE a == RemoveManifest
               b == RemoveCommit
    <2>1. a # b
        BY DEF RemoveManifest, RemoveCommit
    <2> HIDE DEF a, b
    <2>2. Len(<<a, b>>) = 2 /\ <<a, b>>[1] = a /\ <<a, b>>[2] = b
        OBVIOUS
    <2> DEFINE s == <<a, b>>
    <2> HIDE DEF s
    <2>3. Len(s) = 2 /\ s[1] = a /\ s[2] = b
        BY <2>2 DEF s
    <2>4. \A i, j \in 1 .. 2 : i < j => i = 1 /\ j = 2
        OBVIOUS
    <2>5. NoneAfter(s, b, a)
        BY <2>1, <2>3, <2>4 DEF NoneAfter
    <2> QED BY <2>5 DEF a, b, s
<1>12. ~Has(r, RemoveManifest) /\ ~Has(r, RemoveCommit)
    <2>1. \A slot, f : Delete(slot, f) # RemoveManifest /\ Delete(slot, f) # RemoveCommit
        BY DEF Delete, RemoveManifest, RemoveCommit
    <2> HIDE DEF r, m
    <2>2. \A i \in 1 .. n : ~Has(ss[i], RemoveManifest) /\ ~Has(ss[i], RemoveCommit)
        BY <1>2, <1>3, <1>5, <2>1
    <2>3. \A c : Has(r, c) => \E i \in 1 .. n : Has(ss[i], c)
        BY <1>7
    <2> QED BY <2>2, <2>3
<1>13. \A f \in F : Holds(d, "backup", f) => Has(r, Delete("backup", f))
    <2> TAKE f \in F
    <2>1. PICK i \in 1 .. n : files[i] = f
        BY DEF InOrder
    <2> HIDE DEF r
    <2> QED BY <1>2, <1>3, <1>7, <2>1
<1> HIDE DEF r, m
<1>14. \A c : Has(r \o m, c) <=> Has(r, c) \/ Has(m, c)
    BY <1>7, <1>8, ConcatHas
<1>15. \A f \in F : NoneAfter(r \o m, RemoveManifest, Delete("backup", f))
    <2> TAKE f \in F
    <2>1. NoneAfter(r, RemoveManifest, Delete("backup", f))
        BY <1>12 DEF Has, NoneAfter
    <2>2. NoneAfter(m, RemoveManifest, Delete("backup", f))
        BY <1>10 DEF Has, NoneAfter
    <2> QED BY <1>7, <1>8, <1>12, <2>1, <2>2, ConcatNoneAfter
<1>16. NoneAfter(r \o m, RemoveCommit, RemoveManifest)
    <2>1. NoneAfter(r, RemoveCommit, RemoveManifest)
        BY <1>12 DEF Has, NoneAfter
    <2> QED BY <1>7, <1>8, <1>11, <1>12, <2>1, ConcatNoneAfter
<1>17. r \o m \in Seq(X)
    BY <1>7, <1>8, ConcatProperties
<1>18. Finish(d) = r \o m
    BY DEF Finish, r, m, ss
<1>19. \A f \in F : Holds(d, "backup", f) => Has(r \o m, Delete("backup", f))
    BY <1>13, <1>14
<1>20. Has(r \o m, RemoveManifest) /\ Has(r \o m, RemoveCommit)
    BY <1>9, <1>14
<1> QED BY <1>15, <1>16, <1>17, <1>18, <1>19, <1>20 DEF Finishing, X

\* Every change keeps what the files stand for, and the files themselves.
FinishedTo(d, e, A, C, F, p) ==
    /\ IsDisk(e, A, C)
    /\ Finishing(e, Tail(p), F)
    /\ e.manifest \in {d.manifest, NoManifest}
    /\ \A g \in A : e.path[g] = d.path[g] /\ Recovered(e, g) = Recovered(d, g)
    /\ \A g \in A \ F : e.backup[g] = d.backup[g]
    /\ e.commit => d.commit

LEMMA FinishGoes ==
    ASSUME NEW A, NEW C, NEW d, IsDisk(d, A, C), NEW F \in SUBSET A,
           d.manifest # NoManifest => AllHadPath(d) /\ TargetFiles(d) = F,
           NEW p, Finishing(d, p, F), p # << >>,
           NEW e, e = Apply(d, Head(p))
    PROVE  FinishedTo(d, e, A, C, F, p)
<1> SUFFICES /\ IsDisk(e, A, C)
             /\ Finishing(e, Tail(p), F)
             /\ e.manifest \in {d.manifest, NoManifest}
             /\ \A g \in A : e.path[g] = d.path[g] /\ Recovered(e, g) = Recovered(d, g)
             /\ \A g \in A \ F : e.backup[g] = d.backup[g]
             /\ e.commit => d.commit
    BY DEF FinishedTo
<1> DEFINE h == Head(p)
           t == Tail(p)
<1>1. p \in Seq(FinishChanges(F))
    BY DEF Finishing
<1>2. t \in Seq(FinishChanges(F)) /\ h \in FinishChanges(F)
    BY <1>1, TailOf
<1>3. \A c : (Has(t, c) => Has(p, c)) /\ (Has(p, c) /\ c # h => Has(t, c)) /\ Has(p, h)
    BY <1>1, TailHas
<1>4. \A f \in F : /\ NoneAfter(t, RemoveManifest, Delete("backup", f))
                   /\ h = RemoveManifest => ~Has(t, Delete("backup", f))
    BY <1>1, TailNoneAfter DEF Finishing
<1>5. /\ NoneAfter(t, RemoveCommit, RemoveManifest)
      /\ h = RemoveCommit => ~Has(t, RemoveManifest)
    BY <1>1, TailNoneAfter DEF Finishing
<1>6. /\ \A f \in F : d.backup[f] # Absent => Has(p, Delete("backup", f)) /\ d.manifest # NoManifest
      /\ d.manifest # NoManifest => Has(p, RemoveManifest) /\ d.commit
      /\ d.commit => Has(p, RemoveCommit)
    BY DEF Finishing, Holds
<1>7. /\ d.manifest # NoManifest => AllHadPath(d) /\ TargetFiles(d) = F
      /\ d.manifest = NoManifest => AllHadPath(d) /\ TargetFiles(d) = {}
    BY NoManifestFacts
<1>8. \A g \in A : Recovered(d, g) = IF d.manifest # NoManifest /\ g \in F THEN d.path[g] ELSE Kept(d, g)
    <2> TAKE g \in A
    <2>1. CASE d.manifest # NoManifest /\ g \in F
        BY <1>6, <1>7, <2>1 DEF Recovered
    <2>2. CASE ~(d.manifest # NoManifest /\ g \in F)
        BY <1>6, <1>7, <2>2, RecoveredIsKept
    <2> QED BY <2>1, <2>2
<1> HIDE DEF h, t
<1> SUFFICES /\ IsDisk(e, A, C)
             /\ \A f \in F : Holds(e, "backup", f) => Has(t, Delete("backup", f)) /\ e.manifest # NoManifest
             /\ e.manifest # NoManifest => Has(t, RemoveManifest) /\ e.commit
             /\ e.commit => Has(t, RemoveCommit)
             /\ e.manifest \in {d.manifest, NoManifest}
             /\ \A g \in A : e.path[g] = d.path[g] /\ Recovered(e, g) = Recovered(d, g)
             /\ \A g \in A \ F : e.backup[g] = d.backup[g]
             /\ e.commit => d.commit
    BY <1>2, <1>4, <1>5 DEF Finishing, t
<1> USE DEF Holds
<1>9. ASSUME NEW f \in F, IsDisk(e, A, C), e.manifest = d.manifest, e.commit = d.commit,
             \A g \in A : e.path[g] = d.path[g] /\ (g # f => e.backup[g] = d.backup[g]),
             \/ h = Delete("backup", f) /\ e.backup[f] = Absent
             \/ h = Delete("temp", f) /\ e.backup[f] = d.backup[f]
      PROVE  /\ \A g \in F : e.backup[g] # Absent => Has(t, Delete("backup", g)) /\ e.manifest # NoManifest
             /\ e.manifest # NoManifest => Has(t, RemoveManifest) /\ e.commit
             /\ e.commit => Has(t, RemoveCommit)
             /\ \A g \in A : Recovered(e, g) = Recovered(d, g)
    <2>1. h # RemoveManifest /\ h # RemoveCommit
        BY <1>9 DEF Delete, RemoveManifest, RemoveCommit
    <2>2. \A g : g # f => h # Delete("backup", g)
        BY <1>9 DEF Delete
    <2>3. h = Delete("temp", f) => h # Delete("backup", f)
        BY DEF Delete
    <2>4. \A g \in A : Recovered(e, g) = IF e.manifest # NoManifest /\ g \in F THEN e.path[g] ELSE Kept(e, g)
        <3> TAKE g \in A
        <3>0. TargetFiles(e) = TargetFiles(d) /\ AllHadPath(e)
            BY <1>7, <1>9 DEF TargetFiles, AllHadPath
        <3>1. CASE d.manifest # NoManifest /\ g \in F
            BY <1>6, <1>7, <1>9, <3>0, <3>1 DEF Recovered
        <3>2. CASE ~(d.manifest # NoManifest /\ g \in F)
            BY <1>6, <1>7, <1>9, <3>0, <3>2, RecoveredIsKept
        <3> QED BY <1>9, <3>1, <3>2
    <2>5. \A g \in F : e.backup[g] # Absent => Has(t, Delete("backup", g)) /\ e.manifest # NoManifest
        BY <1>3, <1>6, <1>9, <2>2, <2>3
    <2>6. \A g \in A : Recovered(e, g) = Recovered(d, g)
        <3> TAKE g \in A
        <3>1. CASE d.manifest # NoManifest /\ g \in F
            BY <1>8, <1>9, <2>4, <3>1
        <3>2. CASE d.manifest = NoManifest /\ g \in F
            <4>1. d.backup[g] = Absent /\ e.backup[g] = Absent
                BY <1>6, <1>9, <2>5, <3>2
            <4> QED BY <1>8, <1>9, <2>4, <3>2, <4>1 DEF Kept
        <3>3. CASE g \notin F
            BY <1>8, <1>9, <2>4, <3>3 DEF Kept
        <3> QED BY <3>1, <3>2, <3>3
    <2> QED BY <1>3, <1>6, <1>9, <2>1, <2>5, <2>6
<1>a. CASE \E f \in F : h = Delete("backup", f)
    <2>1. PICK f \in F : h = Delete("backup", f)
        BY <1>a
    <2>2. IsDisk(e, A, C) /\ OnlyAt(d, e, A, f, d.path[f], d.temp[f], Absent)
        BY <2>1, DeleteBackupDoes DEF h
    <2>3. /\ e.manifest = d.manifest /\ e.commit = d.commit /\ e.backup[f] = Absent
          /\ \A g \in A : e.path[g] = d.path[g] /\ (g # f => e.backup[g] = d.backup[g])
        BY <2>2 DEF OnlyAt
    <2>4. IsDisk(e, A, C)
        BY <2>2
    <2>5. /\ \A g \in F : e.backup[g] # Absent => Has(t, Delete("backup", g)) /\ e.manifest # NoManifest
          /\ e.manifest # NoManifest => Has(t, RemoveManifest) /\ e.commit
          /\ e.commit => Has(t, RemoveCommit)
          /\ \A g \in A : Recovered(e, g) = Recovered(d, g)
        BY <1>9, <2>1, <2>3, <2>4
    <2> QED BY <2>1, <2>3, <2>4, <2>5
<1>b. CASE \E f \in F : h = Delete("temp", f)
    <2>1. PICK f \in F : h = Delete("temp", f)
        BY <1>b
    <2>2. IsDisk(e, A, C) /\ OnlyAt(d, e, A, f, d.path[f], Absent, d.backup[f])
        BY <2>1, DeleteTempDoes DEF h
    <2>3. /\ e.manifest = d.manifest /\ e.commit = d.commit /\ e.backup[f] = d.backup[f]
          /\ \A g \in A : e.path[g] = d.path[g] /\ e.backup[g] = d.backup[g]
        BY <2>2 DEF OnlyAt
    <2>4. IsDisk(e, A, C)
        BY <2>2
    <2>5. /\ \A g \in F : e.backup[g] # Absent => Has(t, Delete("backup", g)) /\ e.manifest # NoManifest
          /\ e.manifest # NoManifest => Has(t, RemoveManifest) /\ e.commit
          /\ e.commit => Has(t, RemoveCommit)
          /\ \A g \in A : Recovered(e, g) = Recovered(d, g)
        BY <1>9, <2>1, <2>3, <2>4
    <2> QED BY <2>1, <2>3, <2>4, <2>5
<1>c. CASE h = RemoveManifest
    <2>1. IsDisk(e, A, C) /\ SameSlots(d, e) /\ e.manifest = NoManifest /\ e.commit = d.commit
        <3>1. e = Apply(d, RemoveManifest)
            BY <1>c DEF h
        <3> QED BY <3>1, RemoveManifestDoes
    <2>2. h # RemoveCommit /\ \A g : h # Delete("backup", g)
        BY <1>c DEF Delete, RemoveManifest, RemoveCommit
    <2>3. \A g \in F : d.backup[g] = Absent
        BY <1>3, <1>4, <1>6, <1>c, <2>2
    <2>4. \A g \in A : Recovered(e, g) = Kept(e, g)
        BY <2>1, NoManifestFacts, RecoveredIsKept
    <2>5. \A g \in A : Recovered(e, g) = Recovered(d, g)
        BY <1>8, <2>1, <2>3, <2>4 DEF SameSlots, Kept
    <2> QED BY <1>3, <1>6, <2>1, <2>2, <2>3, <2>5 DEF SameSlots
<1>d. CASE h = RemoveCommit
    <2>1. IsDisk(e, A, C) /\ SameSlots(d, e) /\ e.manifest = d.manifest /\ ~e.commit
        <3>1. e = Apply(d, RemoveCommit)
            BY <1>d DEF h
        <3> QED BY <3>1, RemoveCommitDoes
    <2>2. h # RemoveManifest /\ \A g : h # Delete("backup", g)
        BY <1>d DEF Delete, RemoveManifest, RemoveCommit
    <2>3. d.manifest = NoManifest
        BY <1>3, <1>5, <1>6, <1>d, <2>2
    <2>4. \A g \in A : Recovered(e, g) = Kept(e, g)
        BY <2>1, <2>3, NoManifestFacts, RecoveredIsKept
    <2>5. \A g \in A : Recovered(e, g) = Recovered(d, g)
        BY <1>8, <2>1, <2>3, <2>4 DEF SameSlots, Kept
    <2> QED BY <1>3, <1>6, <2>1, <2>2, <2>3, <2>5 DEF SameSlots
<1> QED BY <1>2, <1>a, <1>b, <1>c, <1>d DEF FinishChanges

LEMMA FinishEnds ==
    ASSUME NEW d, NEW F, Finishing(d, << >>, F)
    PROVE  Settled(d) /\ \A f \in F : ~Holds(d, "backup", f)
<1>1. \A c : ~Has(<< >>, c)
    BY DEF Has
<1>2. /\ d.manifest # NoManifest => Has(<< >>, RemoveManifest)
      /\ d.commit => Has(<< >>, RemoveCommit)
      /\ \A f \in F : Holds(d, "backup", f) => Has(<< >>, Delete("backup", f))
    BY DEF Finishing
<1> QED BY <1>1, <1>2 DEF Settled

-----------------------------------------------------------------------------
\* Exchanging a set of files for their temporary ones (commitReplacementTargets)

SwapChanges(m, F) ==
    {PublishManifest(m), PublishCommit} \cup {SetAside(f) : f \in F} \cup {PutInPlace(f) : f \in F}

\* m: the manifest that is published first; new: what the temporary files hold.
\* A file is set aside before the new one is put in its place; the marker is last.
Swapping(d, p, m, F, new) ==
    /\ p \in Seq(SwapChanges(m, F))
    /\ \A c : /\ NoneAfter(p, c, c)
              /\ NoneAfter(p, c, PublishManifest(m))
              /\ NoneAfter(p, PublishCommit, c)
              /\ Has(p, c) => ~d.commit
    /\ d.manifest \in {NoManifest, m}
    /\ Has(p, PublishManifest(m)) <=> d.manifest = NoManifest
    /\ ~d.commit => Has(p, PublishCommit)
    /\ \A f \in F :
          /\ Has(p, SetAside(f)) => /\ Holds(d, "path", f) /\ ~Holds(d, "backup", f)
                                    /\ Has(p, PutInPlace(f))
          /\ NoneAfter(p, PutInPlace(f), SetAside(f))
          /\ Has(p, PutInPlace(f)) => d.temp[f] = new[f]
          /\ ~Has(p, SetAside(f)) => Holds(d, "backup", f) /\ d.manifest # NoManifest
          /\ ~Has(p, PutInPlace(f)) => d.path[f] = new[f]

LEMMA SwapChangesDiffer ==
    ASSUME NEW f, NEW g, NEW m
    PROVE  /\ SetAside(f) = SetAside(g) => f = g
           /\ PutInPlace(f) = PutInPlace(g) => f = g
           /\ SetAside(f) # PutInPlace(g)
           /\ SetAside(f) # PublishManifest(m) /\ SetAside(f) # PublishCommit
           /\ PutInPlace(f) # PublishManifest(m) /\ PutInPlace(f) # PublishCommit
           /\ PublishManifest(m) # PublishCommit
<1>1. SetAside(f) = SetAside(g) => f = g
    BY ChangesDiffer
<1>2. PutInPlace(f) = PutInPlace(g) => f = g
    BY ChangesDiffer
<1>3. SetAside(f) # PutInPlace(g)
    BY ChangesDiffer
<1>4. SetAside(f) # PublishManifest(m) /\ SetAside(f) # PublishCommit
    BY ChangesDiffer
<1>5. PutInPlace(f) # PublishManifest(m) /\ PutInPlace(f) # PublishCommit
    BY ChangesDiffer
<1>6. PublishManifest(m) # PublishCommit
    BY ChangesDiffer
<1> QED BY <1>1, <1>2, <1>3, <1>4, <1>5, <1>6

LEMMA SwapBegins ==
    ASSUME NEW F, NEW files, InOrder(files, F), NEW d, Settled(d), Whole(d, F),
           NEW new, \A f \in F : d.temp[f] = new[f],
           NEW m, m = FullManifest(files), m # NoManifest
    PROVE  Swapping(d, Swap(d, files), m, F, new)
<1> DEFINE n == Len(files)
<1>1. n \in Nat /\ DOMAIN files = 1 .. n /\ \A i \in 1 .. n : files[i] \in F
    BY DEF InOrder
<1>2. \A f \in F : \E i \in 1 .. n : files[i] = f
    BY DEF InOrder
<1>3. \A i, j \in 1 .. n : files[i] = files[j] => i = j
    BY DEF InOrder
<1> DEFINE X == SwapChanges(m, F)
           pm == PublishManifest(m)
           a == <<pm>>
           sb == [i \in DOMAIN files |->
                     IF Holds(d, "path", files[i]) THEN <<Rename("path", "backup", files[i])>> ELSE << >>]
           b == FlattenSeq(sb)
           c == [i \in DOMAIN files |-> Rename("temp", "path", files[i])]
           e == <<PublishCommit>>
<1>4. \A f, g : /\ SetAside(f) = SetAside(g) => f = g
                /\ PutInPlace(f) = PutInPlace(g) => f = g
                /\ SetAside(f) # PutInPlace(g)
                /\ SetAside(f) # pm /\ SetAside(f) # PublishCommit
                /\ PutInPlace(f) # pm /\ PutInPlace(f) # PublishCommit
                /\ pm # PublishCommit
    BY SwapChangesDiffer
<1>5. Swap(d, files) = a \o b \o c \o e
    <2>1. Manifest(d, files) = m
        <3>1. \A i \in DOMAIN files : Holds(d, "path", files[i]) = TRUE
            BY <1>1 DEF Whole, Holds
        <3> QED BY <3>1 DEF Manifest, FullManifest
    <2> HIDE DEF b, c, e
    <2>2. Swap(d, files) = <<PublishManifest(Manifest(d, files))>> \o b \o c \o e
        BY DEF Swap, b, c, e, sb
    <2> QED BY <2>1, <2>2
<1>6. /\ \A f \in F : SetAside(f) \in X /\ PutInPlace(f) \in X
      /\ pm \in X /\ PublishCommit \in X
    BY DEF SwapChanges
<1>7. DOMAIN sb = 1 .. n /\ \A i \in 1 .. n : sb[i] = <<SetAside(files[i])>>
    <2>1. \A i \in 1 .. n : Holds(d, "path", files[i])
        BY <1>1 DEF Whole
    <2> QED BY <1>1, <2>1 DEF SetAside
<1>8. DOMAIN c = 1 .. n /\ \A i \in 1 .. n : c[i] = PutInPlace(files[i])
    BY <1>1 DEF PutInPlace
<1>9. c = [i \in 1 .. n |-> c[i]] /\ sb = [i \in 1 .. n |-> sb[i]]
    BY <1>1
<1> HIDE DEF X, pm, sb, c
<1>10. a \in Seq(X) /\ \A x : Has(a, x) <=> pm = x
    BY <1>6, HasOne
<1>11. e \in Seq(X) /\ \A x : Has(e, x) <=> PublishCommit = x
    <2> DEFINE r == PublishCommit
    <2>1. r \in X
        BY <1>6
    <2> HIDE DEF r
    <2>2. <<r>> \in Seq(X) /\ \A x : Has(<<r>>, x) <=> r = x
        BY <2>1, HasOne
    <2> QED BY <2>2 DEF r
<1>12. \A x, y : NoneAfter(a, x, y) /\ NoneAfter(e, x, y)
    BY HasOne
<1>13. c \in Seq(X) /\ Len(c) = n
    <2>1. c \in [1 .. n -> X]
        BY <1>1, <1>6, <1>8, <1>9
    <2> QED BY <1>1, <2>1, SeqOfFunction
<1>14. \A x : Has(c, x) <=> \E f \in F : x = PutInPlace(f)
    BY <1>1, <1>2, <1>8, <1>13 DEF Has
<1>15. \A x : NoneAfter(c, x, x)
    <2> SUFFICES ASSUME NEW i \in 1 .. n, NEW j \in 1 .. n, i < j, c[i] = c[j] PROVE FALSE
        BY <1>13 DEF NoneAfter
    <2>1. files[i] = files[j]
        BY <1>4, <1>8
    <2>2. i = j
        BY <1>3, <2>1
    <2> QED BY <2>2
<1>16. \A i \in 1 .. n : /\ sb[i] \in Seq(X)
                         /\ \A x : Has(sb[i], x) <=> SetAside(files[i]) = x
                         /\ \A x, y : NoneAfter(sb[i], x, y)
    <2> TAKE i \in 1 .. n
    <2> DEFINE r == SetAside(files[i])
    <2>1. r \in X
        BY <1>1, <1>6
    <2> HIDE DEF r
    <2>2. <<r>> \in Seq(X) /\ (\A x : Has(<<r>>, x) <=> r = x) /\ \A x, y : NoneAfter(<<r>>, x, y)
        BY <2>1, HasOne
    <2>3. sb[i] = <<r>>
        BY <1>7 DEF r
    <2> QED BY <2>2, <2>3 DEF r
<1>17. Len(sb) = n /\ (n = 0 => sb = << >>)
    <2>1. sb \in [1 .. n -> Seq(X)]
        BY <1>9, <1>16
    <2>2. sb \in Seq(Seq(X)) /\ Len(sb) = n
        BY <1>1, <2>1, SeqOfFunction
    <2> QED BY <2>2, EmptySeq
<1>18. b \in Seq(X) /\ \A x : Has(b, x) <=> \E i \in 1 .. n : Has(sb[i], x)
    <2>1. \A i \in 1 .. n : sb[i] \in Seq(X)
        BY <1>16
    <2> QED BY <1>1, <1>17, <2>1, FlattenHas
<1>19. \A x : NoneAfter(b, x, x)
    <2> TAKE x
    <2>1. \A i, j \in 1 .. n : Has(sb[i], x) /\ Has(sb[j], x) => i = j
        BY <1>3, <1>4, <1>16
    <2> QED BY <1>1, <1>16, <1>17, <2>1, FlattenNoneAfter
<1> HIDE DEF a, b, e
<1>20. \A x : Has(b, x) <=> \E f \in F : x = SetAside(f)
    <2>1. \A i \in 1 .. n : \A x : Has(sb[i], x) <=> SetAside(files[i]) = x
        BY <1>16
    <2>2. \A x : Has(b, x) <=> \E i \in 1 .. n : x = SetAside(files[i])
        BY <1>18, <2>1
    <2> QED BY <1>1, <1>2, <2>2
<1> DEFINE ab == a \o b
           abc == ab \o c
           p == abc \o e
<1>21. ab \in Seq(X) /\ \A x : Has(ab, x) <=> Has(a, x) \/ Has(b, x)
    BY <1>10, <1>18, ConcatProperties, ConcatHas
<1> HIDE DEF ab
<1>22. abc \in Seq(X) /\ \A x : Has(abc, x) <=> Has(ab, x) \/ Has(c, x)
    BY <1>13, <1>21, ConcatProperties, ConcatHas
<1> HIDE DEF abc
<1>23. p \in Seq(X) /\ \A x : Has(p, x) <=> Has(abc, x) \/ Has(e, x)
    BY <1>11, <1>22, ConcatProperties, ConcatHas
<1> HIDE DEF p
<1>24. ASSUME NEW x, NEW y,
              NoneAfter(a, x, y), NoneAfter(b, x, y), NoneAfter(c, x, y), NoneAfter(e, x, y),
              Has(a, x) => ~Has(b, y) /\ ~Has(c, y) /\ ~Has(e, y),
              Has(b, x) => ~Has(c, y) /\ ~Has(e, y),
              Has(c, x) => ~Has(e, y)
       PROVE  NoneAfter(p, x, y)
    <2>1. NoneAfter(ab, x, y)
        BY <1>10, <1>18, <1>24, ConcatNoneAfter DEF ab
    <2>2. NoneAfter(abc, x, y)
        BY <1>13, <1>21, <1>24, <2>1, ConcatNoneAfter DEF abc
    <2> QED BY <1>11, <1>21, <1>22, <1>24, <2>2, ConcatNoneAfter DEF p
<1>25. \A q, x, y : ~Has(q, x) \/ ~Has(q, y) => NoneAfter(q, x, y)
    BY DEF Has, NoneAfter
<1>26. \A x : NoneAfter(p, x, x)
    <2> TAKE x
    <2>1. Has(a, x) => ~Has(b, x) /\ ~Has(c, x) /\ ~Has(e, x)
        BY <1>4, <1>10, <1>11, <1>14, <1>20
    <2>2. Has(b, x) => ~Has(c, x) /\ ~Has(e, x)
        BY <1>4, <1>11, <1>14, <1>20
    <2>3. Has(c, x) => ~Has(e, x)
        BY <1>4, <1>11, <1>14
    <2> QED BY <1>12, <1>15, <1>19, <1>24, <2>1, <2>2, <2>3
<1>27. ~Has(b, pm) /\ ~Has(c, pm) /\ ~Has(e, pm)
    BY <1>4, <1>11, <1>14, <1>20
<1>28. \A x : NoneAfter(p, x, pm)
    BY <1>12, <1>24, <1>25, <1>27
<1>29. ~Has(a, PublishCommit) /\ ~Has(b, PublishCommit) /\ ~Has(c, PublishCommit)
    BY <1>4, <1>10, <1>14, <1>20
<1>30. \A x : NoneAfter(p, PublishCommit, x)
    BY <1>12, <1>24, <1>25, <1>29
<1>31. \A f \in F : NoneAfter(p, PutInPlace(f), SetAside(f))
    <2> TAKE f \in F
    <2>1. ~Has(a, PutInPlace(f)) /\ ~Has(b, PutInPlace(f))
        BY <1>4, <1>10, <1>20
    <2>2. ~Has(c, SetAside(f)) /\ ~Has(e, SetAside(f))
        BY <1>4, <1>11, <1>14
    <2> QED BY <1>12, <1>24, <1>25, <2>1, <2>2
<1>32. Has(p, pm) /\ Has(p, PublishCommit) /\ \A f \in F : Has(p, SetAside(f)) /\ Has(p, PutInPlace(f))
    BY <1>10, <1>11, <1>14, <1>20, <1>21, <1>22, <1>23
<1>33. Swap(d, files) = p
    BY <1>5 DEF p, abc, ab
<1>34. d.manifest = NoManifest /\ ~d.commit
    BY DEF Settled
<1>35. \A f \in F : Holds(d, "path", f) /\ ~Holds(d, "backup", f)
    BY DEF Whole
<1>36. /\ p \in Seq(SwapChanges(m, F)) /\ Has(p, PublishManifest(m))
       /\ \A x : NoneAfter(p, x, PublishManifest(m))
    BY <1>23, <1>28, <1>32 DEF X, pm
<1> QED BY <1>26, <1>30, <1>31, <1>32, <1>33, <1>34, <1>35, <1>36 DEF Swapping

\* What the files stand for changes with the marker, all at once.
SwappedTo(d, e, A, C, F, m, new, p) ==
    /\ IsDisk(e, A, C)
    /\ Swapping(e, Tail(p), m, F, new)
    /\ \A g \in A : Kept(e, g) = Kept(d, g)
    /\ \A g \in A \ F : e.path[g] = d.path[g] /\ e.backup[g] = d.backup[g]
    /\ ~d.commit
    /\ e.commit => e.manifest = m /\ \A f \in F : e.path[f] = new[f]

LEMMA SwapGoes ==
    ASSUME NEW A, NEW C, NEW d, IsDisk(d, A, C), NEW F \in SUBSET A,
           NEW m \in Seq([file : A, hadPath : BOOLEAN]), m # NoManifest,
           NEW new, \A f \in F : new[f] # Absent,
           NEW p, Swapping(d, p, m, F, new), p # << >>,
           NEW e, e = Apply(d, Head(p))
    PROVE  SwappedTo(d, e, A, C, F, m, new, p)
<1> SUFFICES /\ IsDisk(e, A, C)
             /\ Swapping(e, Tail(p), m, F, new)
             /\ \A g \in A : Kept(e, g) = Kept(d, g)
             /\ \A g \in A \ F : e.path[g] = d.path[g] /\ e.backup[g] = d.backup[g]
             /\ ~d.commit
             /\ e.commit => e.manifest = m /\ \A f \in F : e.path[f] = new[f]
    BY DEF SwappedTo
<1> DEFINE h == Head(p)
           t == Tail(p)
           pm == PublishManifest(m)
<1>1. p \in Seq(SwapChanges(m, F))
    BY DEF Swapping
<1>2. t \in Seq(SwapChanges(m, F)) /\ h \in SwapChanges(m, F)
    BY <1>1, TailOf
<1>3. \A c : (Has(t, c) => Has(p, c)) /\ (Has(p, c) /\ c # h => Has(t, c)) /\ Has(p, h)
    BY <1>1, TailHas
<1>4. \A c : /\ NoneAfter(p, c, c) /\ NoneAfter(p, c, pm) /\ NoneAfter(p, PublishCommit, c)
             /\ Has(p, c) => ~d.commit
    BY DEF Swapping
<1>5. \A c : /\ NoneAfter(t, c, c) /\ NoneAfter(t, c, pm) /\ NoneAfter(t, PublishCommit, c)
             /\ ~Has(t, h) /\ ~Has(t, pm)
             /\ h = PublishCommit => ~Has(t, c)
    BY <1>1, <1>4, TailNoneAfter
<1>6. \A f \in F : /\ NoneAfter(t, PutInPlace(f), SetAside(f))
                   /\ h = PutInPlace(f) => ~Has(t, SetAside(f))
    BY <1>1, TailNoneAfter DEF Swapping
<1>7. ~d.commit
    BY <1>3, <1>4
<1>8. /\ d.manifest \in {NoManifest, m}
      /\ Has(p, pm) <=> d.manifest = NoManifest
      /\ Has(p, PublishCommit)
      /\ \A f \in F :
          /\ Has(p, SetAside(f)) => d.path[f] # Absent /\ d.backup[f] = Absent /\ Has(p, PutInPlace(f))
          /\ Has(p, PutInPlace(f)) => d.temp[f] = new[f]
          /\ ~Has(p, SetAside(f)) => d.backup[f] # Absent /\ d.manifest # NoManifest
          /\ ~Has(p, PutInPlace(f)) => d.path[f] = new[f]
    BY <1>7 DEF Swapping, Holds
<1>9. \A f, g : /\ SetAside(f) = SetAside(g) => f = g
                /\ PutInPlace(f) = PutInPlace(g) => f = g
                /\ SetAside(f) # PutInPlace(g)
                /\ SetAside(f) # pm /\ SetAside(f) # PublishCommit
                /\ PutInPlace(f) # pm /\ PutInPlace(f) # PublishCommit
                /\ pm # PublishCommit
    BY SwapChangesDiffer
<1> HIDE DEF h, t, pm
<1> SUFFICES
        /\ IsDisk(e, A, C)
        /\ \A c : Has(t, c) => ~e.commit
        /\ e.manifest = m
        /\ ~e.commit => Has(t, PublishCommit)
        /\ \A f \in F :
              /\ Has(t, SetAside(f)) => e.path[f] # Absent /\ e.backup[f] = Absent /\ Has(t, PutInPlace(f))
              /\ Has(t, PutInPlace(f)) => e.temp[f] = new[f]
              /\ ~Has(t, SetAside(f)) => e.backup[f] # Absent
              /\ ~Has(t, PutInPlace(f)) => e.path[f] = new[f]
        /\ \A g \in A : Kept(e, g) = Kept(d, g)
        /\ \A g \in A \ F : e.path[g] = d.path[g] /\ e.backup[g] = d.backup[g]
    <2>1. \A c : /\ NoneAfter(t, c, c) /\ NoneAfter(t, c, PublishManifest(m)) /\ NoneAfter(t, PublishCommit, c)
                 /\ ~Has(t, PublishManifest(m))
        BY <1>5 DEF pm
    <2>2. e.commit => ~Has(t, PublishCommit)
        OBVIOUS
    <2>3. e.commit => \A f \in F : e.path[f] = new[f]
        OBVIOUS
    <2>4. Swapping(e, t, m, F, new)
        BY <1>2, <1>6, <2>1 DEF Swapping, Holds
    <2> QED BY <1>7, <2>3, <2>4 DEF t
<1>a. CASE h = pm
    <2>1. IsDisk(e, A, C) /\ SameSlots(d, e) /\ e.manifest = m /\ e.commit = d.commit
        <3>1. e = Apply(d, PublishManifest(m))
            BY <1>a DEF h, pm
        <3> QED BY <3>1, PublishManifestDoes
    <2>2. \A f : h # SetAside(f) /\ h # PutInPlace(f)
        BY <1>9, <1>a
    <2>3. h # PublishCommit
        BY <1>9, <1>a
    <2> QED BY <1>3, <1>7, <1>8, <2>1, <2>2, <2>3 DEF SameSlots, Kept, Holds
<1>b. CASE \E f \in F : h = SetAside(f)
    <2>1. PICK f \in F : h = SetAside(f)
        BY <1>b
    <2>2. IsDisk(e, A, C) /\ OnlyAt(d, e, A, f, Absent, d.temp[f], d.path[f])
        BY <2>1, SetAsideDoes DEF h
    <2>3. h # pm /\ h # PublishCommit /\ \A g : (h = SetAside(g) => f = g) /\ h # PutInPlace(g)
        BY <1>9, <2>1
    <2>4. d.path[f] # Absent /\ d.backup[f] = Absent /\ ~Has(t, SetAside(f)) /\ Has(t, PutInPlace(f))
        BY <1>3, <1>5, <1>8, <2>1, <2>3
    <2>5. d.manifest = m
        BY <1>3, <1>5, <1>8, <2>3
    <2> QED BY <1>3, <1>7, <1>8, <2>2, <2>3, <2>4, <2>5 DEF OnlyAt, Kept, Holds
<1>c. CASE \E f \in F : h = PutInPlace(f)
    <2>1. PICK f \in F : h = PutInPlace(f)
        BY <1>c
    <2>2. IsDisk(e, A, C) /\ OnlyAt(d, e, A, f, d.temp[f], Absent, d.backup[f])
        BY <2>1, PutInPlaceDoes DEF h
    <2>3. h # pm /\ h # PublishCommit /\ \A g : (h = PutInPlace(g) => f = g) /\ h # SetAside(g)
        BY <1>9, <2>1
    <2>4. ~Has(t, SetAside(f)) /\ ~Has(t, PutInPlace(f)) /\ ~Has(p, SetAside(f)) /\ d.temp[f] = new[f]
        BY <1>3, <1>5, <1>6, <1>8, <2>1, <2>3
    <2>5. d.manifest = m
        BY <1>3, <1>5, <1>8, <2>3
    <2> QED BY <1>3, <1>7, <1>8, <2>2, <2>3, <2>4, <2>5 DEF OnlyAt, Kept, Holds
<1>d. CASE h = PublishCommit
    <2>1. IsDisk(e, A, C) /\ SameSlots(d, e) /\ e.manifest = d.manifest /\ e.commit
        <3>1. e = Apply(d, PublishCommit)
            BY <1>d DEF h
        <3> QED BY <3>1, PublishCommitDoes
    <2>2. h # pm /\ \A f : h # SetAside(f) /\ h # PutInPlace(f)
        BY <1>9, <1>d
    <2>3. \A c : ~Has(t, c)
        BY <1>5, <1>d
    <2>4. d.manifest = m /\ \A f \in F : ~Has(p, SetAside(f)) /\ ~Has(p, PutInPlace(f))
        BY <1>3, <1>8, <2>2, <2>3
    <2> QED BY <1>8, <2>1, <2>3, <2>4 DEF SameSlots, Kept, Holds
<1> QED BY <1>2, <1>a, <1>b, <1>c, <1>d DEF SwapChanges, pm

LEMMA SwapEnds ==
    ASSUME NEW d, NEW m, NEW F, NEW new, Swapping(d, << >>, m, F, new), m # NoManifest
    PROVE  /\ d.manifest = m /\ d.commit
           /\ \A f \in F : d.path[f] = new[f] /\ Holds(d, "backup", f)
<1>1. \A c : ~Has(<< >>, c)
    BY DEF Has
<1> QED BY <1>1 DEF Swapping

-----------------------------------------------------------------------------
\* Replacing one file (replaceFileWithTemp) and putting it back when that fails

\* p is what is left of rewriting f: with a file there before, or without.
Rewriting(d, p, f, content) ==
    \/ /\ Holds(d, "path", f) /\ ~Holds(d, "backup", f)
       /\ p = <<Write("temp", f, content), SetAside(f), PutInPlace(f), Delete("backup", f)>>
    \/ /\ Holds(d, "path", f) /\ ~Holds(d, "backup", f) /\ d.temp[f] = content
       /\ p = <<SetAside(f), PutInPlace(f), Delete("backup", f)>>
    \/ /\ ~Holds(d, "path", f) /\ Holds(d, "backup", f) /\ d.temp[f] = content
       /\ p = <<PutInPlace(f), Delete("backup", f)>>
    \/ /\ d.path[f] = content /\ Holds(d, "backup", f)
       /\ p = <<Delete("backup", f)>>
    \/ /\ ~Holds(d, "path", f) /\ ~Holds(d, "backup", f)
       /\ p = <<Write("temp", f, content), PutInPlace(f)>>
    \/ /\ ~Holds(d, "path", f) /\ ~Holds(d, "backup", f) /\ d.temp[f] = content
       /\ p = <<PutInPlace(f)>>
    \/ /\ d.path[f] = content /\ ~Holds(d, "backup", f)
       /\ p = << >>

LEMMA ShortPlans ==
    ASSUME NEW a, NEW b, NEW c, NEW e
    PROVE  /\ Head(<<a>>) = a /\ Tail(<<a>>) = << >> /\ <<a>> # << >>
           /\ Head(<<a, b>>) = a /\ Tail(<<a, b>>) = <<b>> /\ <<a, b>> # << >>
           /\ Head(<<a, b, c>>) = a /\ Tail(<<a, b, c>>) = <<b, c>> /\ <<a, b, c>> # << >>
           /\ Head(<<a, b, c, e>>) = a /\ Tail(<<a, b, c, e>>) = <<b, c, e>> /\ <<a, b, c, e>> # << >>
<1>1. Head(<<a>>) = a /\ Tail(<<a>>) = << >> /\ <<a>> # << >>
    OBVIOUS
<1>2. Head(<<a, b>>) = a /\ Tail(<<a, b>>) = <<b>> /\ <<a, b>> # << >>
    OBVIOUS
<1>3. Head(<<a, b, c>>) = a /\ Tail(<<a, b, c>>) = <<b, c>> /\ <<a, b, c>> # << >>
    OBVIOUS
<1>4. Head(<<a, b, c, e>>) = a /\ Tail(<<a, b, c, e>>) = <<b, c, e>> /\ <<a, b, c, e>> # << >>
    OBVIOUS
<1> QED BY <1>1, <1>2, <1>3, <1>4

LEMMA ConcatOne ==
    ASSUME NEW a, NEW b
    PROVE  <<a>> \o <<b>> = <<a, b>>
<1> DEFINE S == {a, b}
<1>1. <<a>> \in Seq(S) /\ <<b>> \in Seq(S) /\ <<a, b>> \in Seq(S)
    OBVIOUS
<1>2. Len(<<a>>) = 1 /\ Len(<<b>>) = 1 /\ Len(<<a, b>>) = 2 /\ <<a>>[1] = a /\ <<b>>[1] = b /\ <<a, b>>[1] = a /\ <<a, b>>[2] = b
    OBVIOUS
<1> DEFINE s == <<a>>
           t == <<b>>
           r == <<a, b>>
<1> HIDE DEF s, t, r, S
<1>3. s \in Seq(S) /\ t \in Seq(S) /\ r \in Seq(S) /\ Len(s) = 1 /\ Len(t) = 1 /\ Len(r) = 2
      /\ s[1] = a /\ t[1] = b /\ r[1] = a /\ r[2] = b
    BY <1>1, <1>2 DEF s, t, r
<1>4. s \o t \in Seq(S) /\ Len(s \o t) = 2 /\ (s \o t)[1] = a /\ (s \o t)[2] = b
    <2>1. /\ s \o t \in Seq(S) /\ Len(s \o t) = Len(s) + Len(t)
          /\ \A i \in 1 .. Len(s) + Len(t) : (s \o t)[i] = IF i <= Len(s) THEN s[i] ELSE t[i - Len(s)]
        BY <1>3, ConcatProperties
    <2>2. 1 \in 1 .. 2 /\ 2 \in 1 .. 2 /\ 2 - 1 = 1 /\ 1 + 1 = 2
        OBVIOUS
    <2> QED BY <1>3, <2>1, <2>2
<1>5. \A i \in 1 .. 2 : i = 1 \/ i = 2
    OBVIOUS
<1>6. s \o t = r
    BY <1>3, <1>4, <1>5, SeqEqual
<1> QED BY <1>6 DEF s, t, r

LEMMA ConcatThree ==
    ASSUME NEW a, NEW b, NEW c, NEW e
    PROVE  <<a>> \o <<b, c, e>> = <<a, b, c, e>>
<1> DEFINE S == {a, b, c, e}
           s == <<a>>
           t == <<b, c, e>>
           r == <<a, b, c, e>>
<1>1. s \in Seq(S) /\ t \in Seq(S) /\ r \in Seq(S)
    OBVIOUS
<1>2. Len(s) = 1 /\ Len(t) = 3 /\ Len(r) = 4
    OBVIOUS
<1>3. s[1] = a /\ t[1] = b /\ t[2] = c /\ t[3] = e /\ r[1] = a /\ r[2] = b /\ r[3] = c /\ r[4] = e
    OBVIOUS
<1> HIDE DEF s, t, r, S
<1>4. s \o t \in Seq(S) /\ Len(s \o t) = 4 /\ (s \o t)[1] = a /\ (s \o t)[2] = b /\ (s \o t)[3] = c /\ (s \o t)[4] = e
    <2>1. /\ s \o t \in Seq(S) /\ Len(s \o t) = Len(s) + Len(t)
          /\ \A i \in 1 .. Len(s) + Len(t) : (s \o t)[i] = IF i <= Len(s) THEN s[i] ELSE t[i - Len(s)]
        BY <1>1, ConcatProperties
    <2>2. \A i \in 1 .. 4 : (s \o t)[i] = IF i <= 1 THEN s[i] ELSE t[i - 1]
        BY <1>2, <2>1
    <2>3. 1 \in 1 .. 4 /\ 2 \in 1 .. 4 /\ 3 \in 1 .. 4 /\ 4 \in 1 .. 4 
        OBVIOUS
    <2>4. 2 - 1 = 1 /\ 3 - 1 = 2 /\ 4 - 1 = 3 /\ ~(2 <= 1) /\ ~(3 <= 1) /\ ~(4 <= 1) /\ 1 <= 1 /\ 1 + 3 = 4
        OBVIOUS
    <2> QED BY <1>2, <1>3, <2>1, <2>2, <2>3, <2>4
<1>5. \A i \in 1 .. 4 : i = 1 \/ i = 2 \/ i = 3 \/ i = 4
    OBVIOUS
<1>6. s \o t = r
    BY <1>1, <1>2, <1>3, <1>4, <1>5, SeqEqual
<1> QED BY <1>6 DEF s, t, r
LEMMA RewriteBegins ==
    ASSUME NEW d, NEW f, ~Holds(d, "backup", f), NEW content
    PROVE  Rewriting(d, RewriteFile(d, f, content), f, content)
<1> DEFINE w == Write("temp", f, content)
           sa == SetAside(f)
           pip == PutInPlace(f)
           db == Delete("backup", f)
<1>1. CASE Holds(d, "path", f)
    <2>1. RewriteFile(d, f, content) = <<w>> \o (<< >> \o <<sa, pip, db>>)
        BY <1>1 DEF RewriteFile, ReplaceFileWithTemp, RemoveIfThere, SetAside, PutInPlace
    <2> HIDE DEF w, sa, pip, db
    <2>2. << >> \o <<sa, pip, db>> = <<sa, pip, db>>
        OBVIOUS
    <2>3. RewriteFile(d, f, content) = <<w, sa, pip, db>>
        BY <2>1, <2>2, ConcatThree
    <2> QED BY <1>1, <2>3 DEF Rewriting, w, sa, pip, db
<1>2. CASE ~Holds(d, "path", f)
    <2>1. RewriteFile(d, f, content) = <<w>> \o <<pip>>
        BY <1>2 DEF RewriteFile, ReplaceFileWithTemp, PutInPlace
    <2> HIDE DEF w, sa, pip, db
    <2>2. RewriteFile(d, f, content) = <<w, pip>>
        BY <2>1, ConcatOne
    <2> QED BY <1>2, <2>2 DEF Rewriting, w, pip
<1> QED BY <1>1, <1>2

\* The file is what it was until the last change.
LEMMA RewriteGoes ==
    ASSUME NEW A, NEW C, NEW d, IsDisk(d, A, C), NEW f \in A,
           NEW content \in C[f], content # Absent,
           NEW p, Rewriting(d, p, f, content), p # << >>,
           NEW e, e = Apply(d, Head(p))
    PROVE  /\ IsDisk(e, A, C)
           /\ Rewriting(e, Tail(p), f, content)
           /\ e.manifest = d.manifest /\ e.commit = d.commit
           /\ \A g \in A \ {f} : e.path[g] = d.path[g] /\ e.backup[g] = d.backup[g]
           /\ Kept(e, f) = IF Tail(p) = << >> THEN content ELSE Kept(d, f)
<1> DEFINE w == Write("temp", f, content)
           sa == SetAside(f)
           pip == PutInPlace(f)
           db == Delete("backup", f)
           same == /\ e.manifest = d.manifest /\ e.commit = d.commit
                   /\ \A g \in A \ {f} : e.path[g] = d.path[g] /\ e.backup[g] = d.backup[g]
<1>1. Head(p) = w => IsDisk(e, A, C) /\ OnlyAt(d, e, A, f, d.path[f], content, d.backup[f])
    BY WriteTempDoes
<1>2. Head(p) = sa => IsDisk(e, A, C) /\ OnlyAt(d, e, A, f, Absent, d.temp[f], d.path[f])
    BY SetAsideDoes
<1>3. Head(p) = pip => IsDisk(e, A, C) /\ OnlyAt(d, e, A, f, d.temp[f], Absent, d.backup[f])
    BY PutInPlaceDoes
<1>4. Head(p) = db => IsDisk(e, A, C) /\ OnlyAt(d, e, A, f, d.path[f], d.temp[f], Absent)
    BY DeleteBackupDoes
<1>5. Rewriting(d, p, f, content)
    OBVIOUS
<1> HIDE DEF w, sa, pip, db
<1> DEFINE Goal ==
        /\ IsDisk(e, A, C)
        /\ Rewriting(e, Tail(p), f, content)
        /\ same
        /\ Kept(e, f) = IF Tail(p) = << >> THEN content ELSE Kept(d, f)
<1>a. CASE /\ Holds(d, "path", f) /\ ~Holds(d, "backup", f)
           /\ p = <<w, sa, pip, db>>
    <2>1. Head(p) = w /\ Tail(p) = <<sa, pip, db>> /\ Tail(p) # << >>
        BY <1>a, ShortPlans
    <2>2. IsDisk(e, A, C) /\ OnlyAt(d, e, A, f, d.path[f], content, d.backup[f])
        BY <1>1, <2>1
    <2>3. Rewriting(e, Tail(p), f, content)
        BY <1>a, <2>1, <2>2 DEF Rewriting, OnlyAt, Holds, sa, pip, db
    <2>4. same /\ Kept(e, f) = Kept(d, f)
        BY <2>2 DEF OnlyAt, Kept, Holds
    <2> QED BY <2>1, <2>2, <2>3, <2>4
<1>b. CASE /\ Holds(d, "path", f) /\ ~Holds(d, "backup", f) /\ d.temp[f] = content
           /\ p = <<sa, pip, db>>
    <2>1. Head(p) = sa /\ Tail(p) = <<pip, db>> /\ Tail(p) # << >>
        BY <1>b, ShortPlans
    <2>2. IsDisk(e, A, C) /\ OnlyAt(d, e, A, f, Absent, d.temp[f], d.path[f])
        BY <1>2, <2>1
    <2>3. Rewriting(e, Tail(p), f, content)
        BY <1>b, <2>1, <2>2 DEF Rewriting, OnlyAt, Holds, sa, pip, db
    <2>4. same /\ Kept(e, f) = Kept(d, f)
        BY <1>b, <2>2 DEF OnlyAt, Kept, Holds
    <2> QED BY <2>1, <2>2, <2>3, <2>4
<1>c. CASE /\ ~Holds(d, "path", f) /\ Holds(d, "backup", f) /\ d.temp[f] = content
           /\ p = <<pip, db>>
    <2>1. Head(p) = pip /\ Tail(p) = <<db>> /\ Tail(p) # << >>
        BY <1>c, ShortPlans
    <2>2. IsDisk(e, A, C) /\ OnlyAt(d, e, A, f, d.temp[f], Absent, d.backup[f])
        BY <1>3, <2>1
    <2>3. Rewriting(e, Tail(p), f, content)
        BY <1>c, <2>1, <2>2 DEF Rewriting, OnlyAt, Holds, sa, pip, db
    <2>4. same /\ Kept(e, f) = Kept(d, f)
        BY <1>c, <2>2 DEF OnlyAt, Kept, Holds
    <2> QED BY <2>1, <2>2, <2>3, <2>4
<1>d. CASE /\ d.path[f] = content /\ Holds(d, "backup", f)
           /\ p = <<db>>
    <2>1. Head(p) = db /\ Tail(p) = << >>
        BY <1>d, ShortPlans
    <2>2. IsDisk(e, A, C) /\ OnlyAt(d, e, A, f, d.path[f], d.temp[f], Absent)
        BY <1>4, <2>1
    <2>3. Rewriting(e, Tail(p), f, content)
        BY <1>d, <2>1, <2>2 DEF Rewriting, OnlyAt, Holds
    <2>4. same /\ Kept(e, f) = content
        BY <1>d, <2>2 DEF OnlyAt, Kept, Holds
    <2> QED BY <2>1, <2>2, <2>3, <2>4
<1>e. CASE /\ ~Holds(d, "path", f) /\ ~Holds(d, "backup", f)
           /\ p = <<w, pip>>
    <2>1. Head(p) = w /\ Tail(p) = <<pip>> /\ Tail(p) # << >>
        BY <1>e, ShortPlans
    <2>2. IsDisk(e, A, C) /\ OnlyAt(d, e, A, f, d.path[f], content, d.backup[f])
        BY <1>1, <2>1
    <2>3. Rewriting(e, Tail(p), f, content)
        BY <1>e, <2>1, <2>2 DEF Rewriting, OnlyAt, Holds, pip
    <2>4. same /\ Kept(e, f) = Kept(d, f)
        BY <2>2 DEF OnlyAt, Kept, Holds
    <2> QED BY <2>1, <2>2, <2>3, <2>4
<1>f. CASE /\ ~Holds(d, "path", f) /\ ~Holds(d, "backup", f) /\ d.temp[f] = content
           /\ p = <<pip>>
    <2>1. Head(p) = pip /\ Tail(p) = << >>
        BY <1>f, ShortPlans
    <2>2. IsDisk(e, A, C) /\ OnlyAt(d, e, A, f, d.temp[f], Absent, d.backup[f])
        BY <1>3, <2>1
    <2>3. Rewriting(e, Tail(p), f, content)
        BY <1>f, <2>1, <2>2 DEF Rewriting, OnlyAt, Holds
    <2>4. same /\ Kept(e, f) = content
        BY <1>f, <2>2 DEF OnlyAt, Kept, Holds
    <2> QED BY <2>1, <2>2, <2>3, <2>4
<1> QED BY <1>5, <1>a, <1>b, <1>c, <1>d, <1>e, <1>f DEF Rewriting, w, sa, pip, db

LEMMA RewriteEnds ==
    ASSUME NEW d, NEW f, NEW content, Rewriting(d, << >>, f, content)
    PROVE  d.path[f] = content /\ ~Holds(d, "backup", f)
<1> DEFINE w == Write("temp", f, content)
           a == SetAside(f)
           b == PutInPlace(f)
           c == Delete("backup", f)
<1>1. <<w, a, b, c>> # << >> /\ <<a, b, c>> # << >> /\ <<b, c>> # << >> /\ <<c>> # << >>
      /\ <<w, b>> # << >> /\ <<b>> # << >>
    OBVIOUS
<1> QED BY <1>1 DEF Rewriting

\* Where a rewriting can fail.
LEMMA RewritePoints ==
    ASSUME NEW d, NEW p, NEW f, NEW content, content # Absent, Rewriting(d, p, f, content), p # << >>
    PROVE  /\ Head(p).file = f
           /\ \/ /\ Head(p).slot = "path" /\ ~Holds(d, "path", f)
                 /\ Holds(d, "backup", f) <=> Tail(p) # << >>
              \/ /\ Head(p).slot # "path" /\ Head(p).do # "remove" /\ ~Holds(d, "backup", f)
              \/ /\ Head(p).slot # "path" /\ Head(p).do = "remove" /\ SystemCall(Head(p)) = "remove"
                 /\ Holds(d, "path", f) /\ Holds(d, "backup", f) /\ d.path[f] = content
<1> DEFINE w == Write("temp", f, content)
           sa == SetAside(f)
           pip == PutInPlace(f)
           db == Delete("backup", f)
<1>1. w.file = f /\ w.slot = "temp" /\ w.do = "write"
    BY DEF Write
<1>2. sa.file = f /\ sa.slot = "backup" /\ sa.do = "rename"
    BY DEF SetAside, Rename
<1>3. pip.file = f /\ pip.slot = "path" /\ pip.do = "rename"
    BY DEF PutInPlace, Rename
<1>4. db.file = f /\ db.slot = "backup" /\ db.do = "remove" /\ SystemCall(db) = "remove"
    BY DEF Delete, SystemCall
<1>5. Rewriting(d, p, f, content)
    OBVIOUS
<1> HIDE DEF w, sa, pip, db
<1>a. CASE Holds(d, "path", f) /\ ~Holds(d, "backup", f) /\ p = <<w, sa, pip, db>>
    <2>1. Head(p) = w
        BY <1>a, ShortPlans
    <2> QED BY <1>1, <1>a, <2>1
<1>b. CASE Holds(d, "path", f) /\ ~Holds(d, "backup", f) /\ p = <<sa, pip, db>>
    <2>1. Head(p) = sa
        BY <1>b, ShortPlans
    <2> QED BY <1>2, <1>b, <2>1
<1>c. CASE ~Holds(d, "path", f) /\ Holds(d, "backup", f) /\ p = <<pip, db>>
    <2>1. Head(p) = pip /\ Tail(p) # << >>
        BY <1>c, ShortPlans
    <2> QED BY <1>3, <1>c, <2>1
<1>d. CASE d.path[f] = content /\ Holds(d, "backup", f) /\ p = <<db>>
    <2>1. Head(p) = db
        BY <1>d, ShortPlans
    <2> QED BY <1>4, <1>d, <2>1 DEF Holds
<1>e. CASE ~Holds(d, "path", f) /\ ~Holds(d, "backup", f) /\ p = <<w, pip>>
    <2>1. Head(p) = w
        BY <1>e, ShortPlans
    <2> QED BY <1>1, <1>e, <2>1
<1>f. CASE ~Holds(d, "path", f) /\ ~Holds(d, "backup", f) /\ p = <<pip>>
    <2>1. Head(p) = pip /\ Tail(p) = << >>
        BY <1>f, ShortPlans
    <2> QED BY <1>3, <1>f, <2>1
<1> QED BY <1>5, <1>a, <1>b, <1>c, <1>d, <1>e, <1>f DEF Rewriting, w, sa, pip, db

\* What the failure of a rewriting leaves to do: exists tells whether there was a
\* file before.
Undoing(d, p, f, exists) ==
    \/ Holds(d, "backup", f) /\ p = <<PutBack(f), Delete("temp", f)>>
    \/ /\ ~Holds(d, "backup", f) /\ (exists => Holds(d, "path", f))
       /\ p = <<Delete("temp", f)>> \/ p = << >>

UndoneTo(d, e, A, C, f, exists, p) ==
    /\ IsDisk(e, A, C)
    /\ Undoing(e, Tail(p), f, exists)
    /\ e.manifest = d.manifest /\ e.commit = d.commit
    /\ \A g \in A \ {f} : e.path[g] = d.path[g] /\ e.backup[g] = d.backup[g]
    /\ Kept(e, f) = Kept(d, f)

LEMMA UndoGoes ==
    ASSUME NEW A, NEW C, NEW d, IsDisk(d, A, C), NEW f \in A, NEW exists,
           NEW p, Undoing(d, p, f, exists), p # << >>,
           NEW e, e = Apply(d, Head(p))
    PROVE  UndoneTo(d, e, A, C, f, exists, p)
<1> SUFFICES /\ IsDisk(e, A, C)
             /\ Undoing(e, Tail(p), f, exists)
             /\ e.manifest = d.manifest /\ e.commit = d.commit
             /\ \A g \in A \ {f} : e.path[g] = d.path[g] /\ e.backup[g] = d.backup[g]
             /\ Kept(e, f) = Kept(d, f)
    BY DEF UndoneTo
<1> DEFINE pb == PutBack(f)
           dt == Delete("temp", f)
<1>1. Head(p) = pb => IsDisk(e, A, C) /\ OnlyAt(d, e, A, f, d.backup[f], d.temp[f], Absent)
    BY PutBackDoes
<1>2. Head(p) = dt => IsDisk(e, A, C) /\ OnlyAt(d, e, A, f, d.path[f], Absent, d.backup[f])
    BY DeleteTempDoes
<1>3. Undoing(d, p, f, exists)
    OBVIOUS
<1> HIDE DEF pb, dt
<1>a. CASE Holds(d, "backup", f) /\ p = <<pb, dt>>
    <2>1. Head(p) = pb /\ Tail(p) = <<dt>>
        BY <1>a, ShortPlans
    <2>2. IsDisk(e, A, C) /\ OnlyAt(d, e, A, f, d.backup[f], d.temp[f], Absent)
        BY <1>1, <2>1
    <2>3. Undoing(e, Tail(p), f, exists)
        BY <1>a, <2>1, <2>2 DEF Undoing, OnlyAt, Holds, dt
    <2> QED BY <1>a, <2>2, <2>3 DEF OnlyAt, Kept, Holds
<1>b. CASE ~Holds(d, "backup", f) /\ (exists => Holds(d, "path", f)) /\ p = <<dt>>
    <2>1. Head(p) = dt /\ Tail(p) = << >>
        BY <1>b, ShortPlans
    <2>2. IsDisk(e, A, C) /\ OnlyAt(d, e, A, f, d.path[f], Absent, d.backup[f])
        BY <1>2, <2>1
    <2>3. Undoing(e, Tail(p), f, exists)
        BY <1>b, <2>1, <2>2 DEF Undoing, OnlyAt, Holds
    <2> QED BY <1>b, <2>2, <2>3 DEF OnlyAt, Kept, Holds
<1> QED BY <1>3, <1>a, <1>b DEF Undoing, pb, dt

LEMMA UndoEnds ==
    ASSUME NEW d, NEW f, NEW exists, Undoing(d, << >>, f, exists)
    PROVE  ~Holds(d, "backup", f) /\ (exists => Holds(d, "path", f))
<1>1. \A x, y : << >> # <<x, y>>
    BY ShortPlans
<1> QED BY <1>1 DEF Undoing

-----------------------------------------------------------------------------
\* Temporary files

Tidying(p, F) == p \in Seq({Delete("temp", f) : f \in F})

TidiedTo(d, e, A, C, F, p) ==
    /\ IsDisk(e, A, C)
    /\ Tidying(Tail(p), F)
    /\ e.manifest = d.manifest /\ e.commit = d.commit
    /\ \A g \in A : e.path[g] = d.path[g] /\ e.backup[g] = d.backup[g]

LEMMA TidyGoes ==
    ASSUME NEW A, NEW C, NEW d, IsDisk(d, A, C), NEW F \in SUBSET A,
           NEW p, Tidying(p, F), p # << >>,
           NEW e, e = Apply(d, Head(p))
    PROVE  TidiedTo(d, e, A, C, F, p)
<1> SUFFICES /\ IsDisk(e, A, C)
             /\ Tidying(Tail(p), F)
             /\ e.manifest = d.manifest /\ e.commit = d.commit
             /\ \A g \in A : e.path[g] = d.path[g] /\ e.backup[g] = d.backup[g]
    BY DEF TidiedTo
<1> DEFINE X == {Delete("temp", f) : f \in F}
<1>0. p \in Seq(X)
    BY DEF Tidying
<1>1. PICK f \in F : Head(p) = Delete("temp", f)
    <2> HIDE DEF X
    <2>1. Head(p) \in X
        BY <1>0, TailOf
    <2> QED BY <2>1 DEF X
<1>2. Tail(p) \in Seq(X)
    <2> HIDE DEF X
    <2> QED BY <1>0, TailOf
<1>3. IsDisk(e, A, C) /\ OnlyAt(d, e, A, f, d.path[f], Absent, d.backup[f])
    BY <1>1, DeleteTempDoes
<1>4. /\ e.manifest = d.manifest /\ e.commit = d.commit
      /\ \A g \in A : e.path[g] = d.path[g] /\ e.backup[g] = d.backup[g]
    BY <1>3 DEF OnlyAt
<1> QED BY <1>2, <1>3, <1>4 DEF Tidying

\* new[f] is what the temporary file of f is to hold.
Preparing(d, p, F, new) ==
    /\ p \in Seq({Write("temp", f, new[f]) : f \in F})
    /\ \A f \in F : d.temp[f] = new[f] \/ Has(p, Write("temp", f, new[f]))

LEMMA PrepareBegins ==
    ASSUME NEW F, NEW files, InOrder(files, F), NEW d, NEW new,
           NEW p, DOMAIN p = 1 .. Len(files), p = [i \in DOMAIN p |-> p[i]],
           \A i \in 1 .. Len(files) : p[i] = Write("temp", files[i], new[files[i]])
    PROVE  Preparing(d, p, F, new)
<1> DEFINE n == Len(files)
           X == {Write("temp", f, new[f]) : f \in F}
<1>1. n \in Nat /\ \A i \in 1 .. n : files[i] \in F
    BY DEF InOrder
<1>2. \A i \in 1 .. n : p[i] \in X
    BY <1>1
<1> HIDE DEF X
<1>3. p \in [1 .. n -> X]
    BY <1>2
<1>4. p \in Seq(X) /\ Len(p) = n
    BY <1>1, <1>3, SeqOfFunction
<1>5. \A f \in F : Has(p, Write("temp", f, new[f]))
    <2> TAKE f \in F
    <2>1. PICK i \in 1 .. n : files[i] = f
        BY DEF InOrder
    <2>2. p[i] = Write("temp", f, new[f])
        BY <2>1
    <2> QED BY <1>4, <2>2 DEF Has
<1> QED BY <1>4, <1>5 DEF Preparing, X

PreparedTo(d, e, A, C, F, new, p) ==
    /\ IsDisk(e, A, C)
    /\ Preparing(e, Tail(p), F, new)
    /\ e.manifest = d.manifest /\ e.commit = d.commit
    /\ \A g \in A : e.path[g] = d.path[g] /\ e.backup[g] = d.backup[g]

LEMMA PrepareGoes ==
    ASSUME NEW A, NEW C, NEW d, IsDisk(d, A, C), NEW F \in SUBSET A,
           NEW new, \A f \in F : new[f] \in C[f],
           NEW p, Preparing(d, p, F, new), p # << >>,
           NEW e, e = Apply(d, Head(p))
    PROVE  PreparedTo(d, e, A, C, F, new, p)
<1> SUFFICES /\ IsDisk(e, A, C)
             /\ Preparing(e, Tail(p), F, new)
             /\ e.manifest = d.manifest /\ e.commit = d.commit
             /\ \A g \in A : e.path[g] = d.path[g] /\ e.backup[g] = d.backup[g]
    BY DEF PreparedTo
<1> DEFINE X == {Write("temp", f, new[f]) : f \in F}
<1>0. p \in Seq(X)
    BY DEF Preparing
<1>1. PICK f \in F : Head(p) = Write("temp", f, new[f])
    <2> HIDE DEF X
    <2>1. Head(p) \in X
        BY <1>0, TailOf
    <2> QED BY <2>1 DEF X
<1>2. /\ Tail(p) \in Seq(X)
      /\ \A c : Has(p, c) /\ c # Head(p) => Has(Tail(p), c)
    <2> HIDE DEF X
    <2> QED BY <1>0, TailOf, TailHas
<1>3. IsDisk(e, A, C) /\ OnlyAt(d, e, A, f, d.path[f], new[f], d.backup[f])
    BY <1>1, WriteTempDoes
<1>4. \A g : g # f => Write("temp", g, new[g]) # Head(p)
    BY <1>1, ChangesDiffer
<1>5. \A g \in F : d.temp[g] = new[g] \/ Has(p, Write("temp", g, new[g]))
    BY DEF Preparing
<1> HIDE DEF X
<1>6. \A g \in F : e.temp[g] = new[g] \/ Has(Tail(p), Write("temp", g, new[g]))
    BY <1>2, <1>3, <1>4, <1>5 DEF OnlyAt
<1>7. /\ e.manifest = d.manifest /\ e.commit = d.commit
      /\ \A g \in A : e.path[g] = d.path[g] /\ e.backup[g] = d.backup[g]
    BY <1>3 DEF OnlyAt
<1> QED BY <1>2, <1>3, <1>6, <1>7 DEF Preparing, X

LEMMA PrepareEnds ==
    ASSUME NEW d, NEW F, NEW new, Preparing(d, << >>, F, new)
    PROVE  \A f \in F : d.temp[f] = new[f]
<1>1. \A c : ~Has(<< >>, c)
    BY DEF Has
<1> QED BY <1>1 DEF Preparing
=============================================================================
