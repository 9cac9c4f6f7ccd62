---------------------------- MODULE ResultsProofs ----------------------------
(* Theorems about the processing of results, for all folders, rates, request  *)
(* types, lists of folders and edits: what a run writes into the two metadata *)
(* files, and what it leaves alone there.                                     *)
EXTENDS Results, SequenceTheorems, FiniteSetTheorems, WellFoundedInduction, TLAPS

-----------------------------------------------------------------------------
(* A set of numbers has a least one.                                          *)
LEMMA Least ==
  ASSUME NEW S, S \subseteq Nat, S # {}
  PROVE  \E n \in S : \A m \in S : n <= m
<1>1. PICK n \in S : \A m \in S : ~(<<m, n>> \in OpToRel(<, Nat))
  BY NatLessThanWellFounded, WFMin
<1>2. ASSUME NEW m \in S PROVE n <= m
  <2>1. ~(m < n)
    BY <1>1 DEF OpToRel
  <2> QED
    BY <2>1
<1> QED
  BY <1>2

(* A value that is carried from one index to the next: there is a function    *)
(* that says what it is at each.                                              *)
IsStep(step, n, V) == step \in [1 .. n -> [V -> V]]

IsCarried(f, n, V, first, step) ==
  /\ f \in [0 .. n -> V] /\ f[0] = first
  /\ \A i \in 1 .. n : f[i] = step[i][f[i - 1]]

LEMMA CarriedOn ==
  ASSUME NEW V, NEW n \in Nat, NEW first \in V, NEW step, IsStep(step, n, V)
  PROVE  \E f : IsCarried(f, n, V, first, step)
<1> USE DEF IsStep
<1> DEFINE Upto(m, f) == /\ f \in [0 .. m -> V] /\ f[0] = first
                         /\ \A i \in 1 .. m : f[i] = step[i][f[i - 1]]
           None == {m \in 0 .. n : ~ \E f : Upto(m, f)}
<1>1. SUFFICES ASSUME None # {} PROVE FALSE
  <2>1. n \in 0 .. n /\ None = {}
    BY <1>1
  <2>2. \E f : Upto(n, f)
    <3> HIDE DEF Upto
    <3> QED
      BY <2>1
  <2> QED
    BY <2>2 DEF IsCarried
<1>2. None \subseteq Nat
  OBVIOUS
<1>3. PICK m \in None : \A l \in None : m <= l
  BY <1>1, <1>2, Least
<1>4. CASE m = 0
  <2>1. Upto(0, [i \in 0 .. 0 |-> first])
    OBVIOUS
  <2> QED
    BY <1>3, <1>4, <2>1
<1>5. CASE m # 0
  <2>1. m - 1 \in 0 .. n /\ m \in 1 .. n /\ m \in Nat /\ m - 1 \in Nat
    BY <1>2, <1>3, <1>5
  <2>2. m - 1 \notin None
    <3> HIDE DEF None
    <3> QED
      BY <1>3, <2>1
  <2>3. PICK f : Upto(m - 1, f)
    BY <2>1, <2>2
  <2>4. f[m - 1] \in V /\ step[m] \in [V -> V]
    BY <2>1, <2>3
  <2> DEFINE g == [i \in 0 .. m |-> IF i < m THEN f[i] ELSE step[m][f[m - 1]]]
  <2>5. ASSUME NEW i \in 0 .. m PROVE g[i] \in V
    <3>1. CASE i < m
      BY <2>1, <2>3, <3>1
    <3>2. CASE ~(i < m)
      BY <2>4, <3>2
    <3> QED
      BY <3>1, <3>2
  <2>6. g \in [0 .. m -> V]
    BY <2>5
  <2>7. g[0] = first
    BY <2>1, <2>3
  <2>8. ASSUME NEW i \in 1 .. m PROVE g[i] = step[i][g[i - 1]]
    <3>1. CASE i < m
      BY <2>1, <2>3, <3>1
    <3>2. CASE i = m
      BY <2>1, <3>2
    <3> QED
      BY <2>1, <3>1, <3>2
  <2>9. Upto(m, g)
    BY <2>6, <2>7, <2>8
  <2> QED
    BY <1>3, <2>9
<1> QED
  BY <1>4, <1>5

(* A sequence without one of its elements.                                    *)
Behind(i, p) == IF i < p THEN i ELSE i + 1

LEMMA RemoveAtIs ==
  ASSUME NEW S, NEW s \in Seq(S), NEW p \in 1 .. Len(s)
  PROVE  /\ RemoveAt(s, p) \in Seq(S) /\ Len(RemoveAt(s, p)) = Len(s) - 1
         /\ Len(s) - 1 \in Nat
         /\ \A i \in 1 .. Len(s) - 1 : RemoveAt(s, p)[i] = s[Behind(i, p)]
                                       /\ Behind(i, p) \in 1 .. Len(s)
<1> DEFINE a == SubSeq(s, 1, p - 1)
           b == SubSeq(s, p + 1, Len(s))
<1>0. Len(s) \in Nat /\ p \in Nat /\ 1 <= p /\ p <= Len(s)
  BY LenProperties
<1>1. /\ a \in Seq(S) /\ Len(a) = p - 1
      /\ \A i \in 1 .. p - 1 : a[i] = s[i]
  <2>1. \A i \in 1 .. p - 1 : s[i] \in S
    BY <1>0, ElementOfSeq
  <2>2. a = [i \in 1 .. p - 1 |-> s[i]]
    BY <1>0
  <2> QED
    BY <1>0, <2>1, <2>2
<1>2. /\ b \in Seq(S) /\ Len(b) = Len(s) - p
      /\ \A i \in 1 .. Len(s) - p : b[i] = s[i + p]
  <2>1. \A i \in 1 .. Len(s) - p : s[i + p] \in S /\ s[i + p] = s[p + 1 + i - 1]
    BY <1>0, ElementOfSeq
  <2>2. b = [i \in 1 .. Len(s) - p |-> s[i + p]]
    BY <1>0
  <2> QED
    BY <1>0, <2>1, <2>2
<1>3. RemoveAt(s, p) = a \o b
  BY DEF RemoveAt
<1> HIDE DEF a, b
<1>4. /\ a \o b \in Seq(S) /\ Len(a \o b) = Len(s) - 1
      /\ \A i \in 1 .. Len(s) - 1 :
           (a \o b)[i] = IF i <= p - 1 THEN a[i] ELSE b[i - (p - 1)]
  <2>1. /\ a \o b \in Seq(S) /\ Len(a \o b) = Len(a) + Len(b)
        /\ \A i \in 1 .. Len(a) + Len(b) :
             (a \o b)[i] = IF i <= Len(a) THEN a[i] ELSE b[i - Len(a)]
    BY <1>1, <1>2, ConcatProperties
  <2>2. Len(a) + Len(b) = Len(s) - 1
    BY <1>0, <1>1, <1>2
  <2> QED
    BY <1>1, <2>1, <2>2
<1>5. ASSUME NEW i \in 1 .. Len(s) - 1
      PROVE  RemoveAt(s, p)[i] = s[Behind(i, p)] /\ Behind(i, p) \in 1 .. Len(s)
  <2>1. CASE i < p
    BY <1>0, <1>1, <1>3, <1>4, <2>1 DEF Behind
  <2>2. CASE ~(i < p)
    <3>1. i - (p - 1) \in 1 .. Len(s) - p /\ i - (p - 1) + p = i + 1 /\ ~(i <= p - 1)
      BY <1>0, <2>2
    <3>2. b[i - (p - 1)] = s[i + 1]
      BY <1>2, <3>1
    <3>3. RemoveAt(s, p)[i] = b[i - (p - 1)]
      BY <1>3, <1>4, <3>1
    <3>4. Behind(i, p) = i + 1 /\ i + 1 \in 1 .. Len(s)
      BY <1>0, <2>2 DEF Behind
    <3> QED
      BY <3>2, <3>3, <3>4
  <2> QED
    BY <2>1, <2>2
<1>6. RemoveAt(s, p) \in Seq(S) /\ Len(RemoveAt(s, p)) = Len(s) - 1
  BY <1>3, <1>4, Zenon
<1>7. Len(s) - 1 \in Nat
  BY <1>0
<1> QED
  BY <1>5, <1>6, <1>7

-----------------------------------------------------------------------------
(* remove_if_present, entry by entry.                                         *)
Passed(name, d, i) == IF i <= Len(d) /\ d[i].name = name THEN RemoveAt(d, i) ELSE d

AfterIn(name, data) ==
  CHOOSE after : after = [i \in 0 .. Len(data) |->
                            IF i = 0 THEN data ELSE Passed(name, after[i - 1], i)]

LEMMA PassedTyped ==
  ASSUME NEW name, NEW d \in Seq(Entries), NEW i \in Nat \ {0}
  PROVE  Passed(name, d, i) \in Seq(Entries) /\ Len(Passed(name, d, i)) <= Len(d)
<1>1. CASE i <= Len(d) /\ d[i].name = name
  <2>1. i \in 1 .. Len(d) /\ Len(d) \in Nat
    BY <1>1, LenProperties
  <2>2. RemoveAt(d, i) \in Seq(Entries) /\ Len(RemoveAt(d, i)) = Len(d) - 1
    BY <2>1, RemoveAtIs
  <2> QED
    BY <1>1, <2>1, <2>2 DEF Passed
<1>2. CASE ~(i <= Len(d) /\ d[i].name = name)
  BY <1>2, LenProperties DEF Passed
<1> QED
  BY <1>1, <1>2

LEMMA AfterIs ==
  ASSUME NEW name, NEW data \in Seq(Entries)
  PROVE  /\ AfterIn(name, data) \in [0 .. Len(data) -> Seq(Entries)]
         /\ AfterIn(name, data)[0] = data
         /\ \A i \in 1 .. Len(data) :
              AfterIn(name, data)[i] = Passed(name, AfterIn(name, data)[i - 1], i)
         /\ RemoveIfPresent(name, data) = AfterIn(name, data)[Len(data)]
<1> DEFINE n == Len(data)
           step == [i \in 1 .. n |-> [d \in Seq(Entries) |-> Passed(name, d, i)]]
           Eq(f) == f = [i \in 0 .. n |-> IF i = 0 THEN data ELSE Passed(name, f[i - 1], i)]
<1>1. n \in Nat
  BY LenProperties
<1>2. step \in [1 .. n -> [Seq(Entries) -> Seq(Entries)]]
  <2>1. ASSUME NEW i \in 1 .. n, NEW d \in Seq(Entries) PROVE Passed(name, d, i) \in Seq(Entries)
    BY <1>1, PassedTyped
  <2> QED
    BY <2>1
<1>3. PICK f \in [0 .. n -> Seq(Entries)] :
        f[0] = data /\ \A i \in 1 .. n : f[i] = step[i][f[i - 1]]
  <2>1. IsStep(step, n, Seq(Entries))
    BY <1>2 DEF IsStep
  <2> HIDE DEF step, n
  <2>2. \E f : IsCarried(f, n, Seq(Entries), data, step)
    BY <1>1, <2>1, CarriedOn
  <2> QED
    BY <2>2 DEF IsCarried
<1>4. \A i \in 1 .. n : f[i] = Passed(name, f[i - 1], i)
  <2>1. ASSUME NEW i \in 1 .. n PROVE f[i] = Passed(name, f[i - 1], i)
    <3>1. i - 1 \in 0 .. n
      BY <1>1
    <3>2. f[i - 1] \in Seq(Entries)
      BY <3>1
    <3> QED
      BY <1>3, <3>2
  <2> QED
    BY <2>1
<1>5. Eq(f)
  <2>1. ASSUME NEW i \in 0 .. n
        PROVE  f[i] = IF i = 0 THEN data ELSE Passed(name, f[i - 1], i)
    BY <1>1, <1>3, <1>4
  <2> QED
    BY <2>1
<1>6. Eq(AfterIn(name, data))
  <2>1. AfterIn(name, data) = CHOOSE g : Eq(g)
    BY DEF AfterIn
  <2> HIDE DEF Eq
  <2> QED
    BY <1>5, <2>1
<1> DEFINE a == AfterIn(name, data)
<1>7. a = [i \in 0 .. n |-> IF i = 0 THEN data ELSE Passed(name, a[i - 1], i)]
  BY <1>6
<1> HIDE DEF a
<1>8. /\ a[0] = data /\ DOMAIN a = 0 .. n
      /\ \A i \in 1 .. n : a[i] = Passed(name, a[i - 1], i)
  BY <1>1, <1>7
<1>9. a = f
  <2> DEFINE Off == {i \in 0 .. n : a[i] # f[i]}
  <2>1. SUFFICES ASSUME Off # {} PROVE FALSE
    BY <1>7, <1>5
  <2>2. Off \subseteq Nat
    BY <1>1
  <2>3. PICK i \in Off : \A j \in Off : i <= j
    BY <2>1, <2>2, Least
  <2>4. i # 0 /\ i \in 1 .. n /\ i - 1 \in 0 .. n
    BY <1>1, <1>3, <1>8, <2>3
  <2>5. a[i - 1] = f[i - 1]
    BY <1>1, <2>3, <2>4
  <2> QED
    BY <1>4, <1>8, <2>3, <2>4, <2>5
<1>10. RemoveIfPresent(name, data) = AfterIn(name, data)[Len(data)]
  BY DEF RemoveIfPresent, AfterIn, Passed
<1> QED
  BY <1>3, <1>8, <1>9, <1>10 DEF a

-----------------------------------------------------------------------------
(* OthersIn, entry by entry.                                                  *)
KeptOne(v, e, names) == IF e.name \in names THEN v ELSE Append(v, e)

KeptIn(file, names) ==
  CHOOSE kept : kept = [i \in 0 .. Len(file) |->
                          IF i = 0 THEN <<>> ELSE KeptOne(kept[i - 1], file[i], names)]

LEMMA KeptIs ==
  ASSUME NEW names, NEW file \in Seq(Entries)
  PROVE  /\ KeptIn(file, names)[0] = <<>>
         /\ \A i \in 1 .. Len(file) :
              KeptIn(file, names)[i] = KeptOne(KeptIn(file, names)[i - 1], file[i], names)
         /\ OthersIn(file, names) = KeptIn(file, names)[Len(file)]
<1> DEFINE n == Len(file)
           step == [i \in 1 .. n |-> [v \in Seq(Entries) |-> KeptOne(v, file[i], names)]]
           Eq(f) == f = [i \in 0 .. n |-> IF i = 0 THEN <<>> ELSE KeptOne(f[i - 1], file[i], names)]
<1>1. n \in Nat
  BY LenProperties
<1>2. step \in [1 .. n -> [Seq(Entries) -> Seq(Entries)]]
  <2>1. ASSUME NEW i \in 1 .. n, NEW v \in Seq(Entries)
        PROVE  KeptOne(v, file[i], names) \in Seq(Entries)
    <3>1. file[i] \in Entries
      BY ElementOfSeq
    <3> QED
      BY <3>1, AppendProperties DEF KeptOne
  <2> QED
    BY <2>1
<1>3. PICK f : IsCarried(f, n, Seq(Entries), <<>>, step)
  <2>1. IsStep(step, n, Seq(Entries)) /\ <<>> \in Seq(Entries)
    BY <1>2 DEF IsStep
  <2> HIDE DEF step, n
  <2> QED
    BY <1>1, <2>1, CarriedOn
<1>4. \A i \in 1 .. n : f[i] = KeptOne(f[i - 1], file[i], names)
  <2>1. ASSUME NEW i \in 1 .. n PROVE f[i] = KeptOne(f[i - 1], file[i], names)
    <3>1. i - 1 \in 0 .. n
      BY <1>1
    <3>2. f[i - 1] \in Seq(Entries)
      BY <1>3, <3>1 DEF IsCarried
    <3> QED
      BY <1>3, <3>2 DEF IsCarried
  <2> QED
    BY <2>1
<1>5. Eq(f)
  <2>1. ASSUME NEW i \in 0 .. n
        PROVE  f[i] = IF i = 0 THEN <<>> ELSE KeptOne(f[i - 1], file[i], names)
    BY <1>1, <1>3, <1>4 DEF IsCarried
  <2> QED
    BY <1>3, <2>1 DEF IsCarried
<1>6. Eq(KeptIn(file, names))
  <2>1. KeptIn(file, names) = CHOOSE g : Eq(g)
    BY DEF KeptIn
  <2> HIDE DEF Eq
  <2> QED
    BY <1>5, <2>1
<1> DEFINE a == KeptIn(file, names)
<1>7. a = [i \in 0 .. n |-> IF i = 0 THEN <<>> ELSE KeptOne(a[i - 1], file[i], names)]
  BY <1>6
<1> HIDE DEF a
<1>8. /\ a[0] = <<>>
      /\ \A i \in 1 .. n : a[i] = KeptOne(a[i - 1], file[i], names)
  BY <1>1, <1>7
<1>9. OthersIn(file, names) = KeptIn(file, names)[Len(file)]
  BY DEF OthersIn, KeptIn, KeptOne
<1> QED
  BY <1>8, <1>9 DEF a

LEMMA OthersInEmpty == ASSUME NEW names PROVE OthersIn(<<>>, names) = <<>>
<1> DEFINE d == <<>>
<1>1. d \in Seq(Entries) /\ Len(d) = 0
  OBVIOUS
<1> HIDE DEF d
<1>2. OthersIn(d, names) = KeptIn(d, names)[0] /\ KeptIn(d, names)[0] = <<>>
  BY <1>1, KeptIs
<1> QED
  BY <1>2 DEF d

(* What is removed from the entries of the names, or added to them, is not    *)
(* seen among the others.                                                     *)
LEMMA OthersAppend ==
  ASSUME NEW names, NEW d \in Seq(Entries), NEW e \in Entries, e.name \in names
  PROVE  OthersIn(Append(d, e), names) = OthersIn(d, names)
<1> DEFINE b == Append(d, e)
           kd == KeptIn(d, names)
           kb == KeptIn(b, names)
           Off == {i \in 0 .. Len(d) : kb[i] # kd[i]}
<1>1. /\ Len(d) \in Nat /\ b \in Seq(Entries) /\ Len(b) = Len(d) + 1
      /\ \A i \in 1 .. Len(d) : b[i] = d[i]
      /\ b[Len(d) + 1] = e
  BY AppendProperties, LenProperties
<1>2. /\ kd[0] = <<>> /\ OthersIn(d, names) = kd[Len(d)]
      /\ \A i \in 1 .. Len(d) : kd[i] = KeptOne(kd[i - 1], d[i], names)
  BY KeptIs
<1>3. /\ kb[0] = <<>> /\ OthersIn(b, names) = kb[Len(b)]
      /\ \A i \in 1 .. Len(b) : kb[i] = KeptOne(kb[i - 1], b[i], names)
  <2> HIDE DEF b
  <2> QED
    BY <1>1, KeptIs
<1> HIDE DEF b, kd, kb
<1>4. Off = {}
  <2>1. SUFFICES ASSUME Off # {} PROVE FALSE
    OBVIOUS
  <2>2. Off \subseteq Nat
    BY <1>1
  <2>3. PICK i \in Off : \A j \in Off : i <= j
    BY <2>1, <2>2, Least
  <2>4. i # 0 /\ i \in 1 .. Len(d) /\ i - 1 \in 0 .. Len(d) /\ i \in 1 .. Len(b)
    BY <1>1, <1>2, <1>3, <2>3
  <2>5. kb[i - 1] = kd[i - 1]
    BY <1>1, <2>3, <2>4
  <2>6. kd[i] = KeptOne(kd[i - 1], d[i], names) /\ kb[i] = KeptOne(kb[i - 1], b[i], names)
    BY <1>2, <1>3, <2>4
  <2> QED
    BY <1>1, <2>3, <2>4, <2>5, <2>6
<1>5. kb[Len(d)] = kd[Len(d)]
  BY <1>1, <1>4
<1>6. kb[Len(d) + 1] = KeptOne(kb[Len(d)], e, names)
  <2>1. Len(d) + 1 \in 1 .. Len(b) /\ (Len(d) + 1) - 1 = Len(d)
    BY <1>1
  <2>2. kb[Len(d) + 1] = KeptOne(kb[(Len(d) + 1) - 1], b[Len(d) + 1], names)
    BY <1>3, <2>1
  <2> QED
    BY <1>1, <2>1, <2>2
<1>7. OthersIn(b, names) = OthersIn(d, names)
  BY <1>1, <1>2, <1>3, <1>5, <1>6 DEF KeptOne
<1> QED
  BY <1>7 DEF b

LEMMA OthersRemove ==
  ASSUME NEW names, NEW d \in Seq(Entries), NEW p \in 1 .. Len(d), d[p].name \in names
  PROVE  OthersIn(RemoveAt(d, p), names) = OthersIn(d, names)
<1> DEFINE b == RemoveAt(d, p)
           kd == KeptIn(d, names)
           kb == KeptIn(b, names)
           Off == {i \in 0 .. Len(d) - 1 : kb[i] # IF i < p THEN kd[i] ELSE kd[i + 1]}
<1>1. /\ Len(d) \in Nat /\ b \in Seq(Entries) /\ Len(b) = Len(d) - 1 /\ Len(d) - 1 \in Nat
      /\ \A i \in 1 .. Len(d) - 1 : b[i] = d[Behind(i, p)] /\ Behind(i, p) \in 1 .. Len(d)
      /\ p \in Nat /\ 1 <= p /\ p <= Len(d)
  <2>1. Len(d) \in Nat /\ p \in Nat /\ 1 <= p /\ p <= Len(d)
    BY LenProperties
  <2> QED
    BY <2>1, RemoveAtIs
<1>2. /\ kd[0] = <<>> /\ OthersIn(d, names) = kd[Len(d)]
      /\ \A i \in 1 .. Len(d) : kd[i] = KeptOne(kd[i - 1], d[i], names)
  BY KeptIs
<1>3. /\ kb[0] = <<>> /\ OthersIn(b, names) = kb[Len(b)]
      /\ \A i \in 1 .. Len(b) : kb[i] = KeptOne(kb[i - 1], b[i], names)
  <2> HIDE DEF b
  <2> QED
    BY <1>1, KeptIs
<1> HIDE DEF b, kd, kb
<1>4. kd[p] = kd[p - 1]
  BY <1>2 DEF KeptOne
<1>5. Off = {}
  <2>1. SUFFICES ASSUME Off # {} PROVE FALSE
    OBVIOUS
  <2>2. Off \subseteq Nat
    BY <1>1
  <2>3. PICK i \in Off : \A j \in Off : i <= j
    BY <2>1, <2>2, Least
  <2>4. i # 0
    BY <1>1, <1>2, <1>3, <2>3
  <2>5. i \in 1 .. Len(d) - 1 /\ i \in Nat /\ i - 1 \in 0 .. Len(d) - 1
    BY <1>1, <2>3, <2>4
  <2>6. kb[i - 1] = IF i - 1 < p THEN kd[i - 1] ELSE kd[(i - 1) + 1]
    <3>1. i - 1 \notin Off
      <4> HIDE DEF Off
      <4> QED
        BY <2>3, <2>5
    <3> QED
      BY <2>5, <3>1
  <2>7. kb[i] = KeptOne(kb[i - 1], d[Behind(i, p)], names)
    BY <1>1, <1>3, <2>5
  <2>8. CASE i < p
    <3>1. i - 1 < p /\ i \in 1 .. Len(d) /\ Behind(i, p) = i
      BY <1>1, <2>5, <2>8 DEF Behind
    <3>2. kb[i] = kd[i]
      BY <1>2, <2>6, <2>7, <3>1
    <3> QED
      BY <2>3, <2>8, <3>2
  <2>9. CASE ~(i < p)
    <3>1. i + 1 \in 1 .. Len(d) /\ Behind(i, p) = i + 1 /\ (i - 1) + 1 = i /\ (i + 1) - 1 = i
      BY <1>1, <2>5, <2>9 DEF Behind
    <3>2. kb[i - 1] = kd[i]
      <4>1. CASE i = p
        <5>1. i - 1 < p
          BY <1>1, <4>1
        <5> QED
          BY <1>4, <2>6, <4>1, <5>1
      <4>2. CASE i # p
        <5>1. ~(i - 1 < p)
          BY <1>1, <2>5, <2>9, <4>2
        <5> QED
          BY <2>6, <3>1, <5>1
      <4> QED
        BY <4>1, <4>2
    <3>3. kd[i + 1] = KeptOne(kd[i], d[i + 1], names)
      BY <1>2, <3>1
    <3>4. kb[i] = kd[i + 1]
      BY <2>7, <3>1, <3>2, <3>3
    <3> QED
      BY <2>3, <2>9, <3>4
  <2> QED
    BY <2>8, <2>9
<1>6. kb[Len(d) - 1] = IF Len(d) - 1 < p THEN kd[Len(d) - 1] ELSE kd[(Len(d) - 1) + 1]
  BY <1>1, <1>5
<1>7. kb[Len(d) - 1] = kd[Len(d)]
  <2>1. CASE p = Len(d)
    <3>1. Len(d) - 1 < p
      BY <1>1, <2>1
    <3> QED
      BY <1>4, <1>6, <2>1, <3>1
  <2>2. CASE p # Len(d)
    <3>1. ~(Len(d) - 1 < p) /\ (Len(d) - 1) + 1 = Len(d)
      BY <1>1, <2>2
    <3> QED
      BY <1>6, <3>1
  <2> QED
    BY <2>1, <2>2
<1>8. OthersIn(b, names) = OthersIn(d, names)
  BY <1>1, <1>2, <1>3, <1>7
<1> QED
  BY <1>8 DEF b

-----------------------------------------------------------------------------
(* The last entry of a name holds the data v.                                 *)
LastIs(d, name, v) ==
  \E i \in 1 .. Len(d) : /\ d[i].name = name /\ d[i].data = v
                         /\ \A j \in i + 1 .. Len(d) : d[j].name # name

(* An entry of one of the names is removed: the entries of any other name are *)
(* the last of it as before, and none has come closer to its like.            *)
LEMMA LastRemove ==
  ASSUME NEW d \in Seq(Entries), NEW p \in 1 .. Len(d), NEW name, NEW v,
         d[p].name # name, LastIs(d, name, v)
  PROVE  LastIs(RemoveAt(d, p), name, v)
<1> DEFINE b == RemoveAt(d, p)
<1>1. /\ Len(d) \in Nat /\ b \in Seq(Entries) /\ Len(b) = Len(d) - 1 /\ Len(d) - 1 \in Nat
      /\ \A i \in 1 .. Len(d) - 1 : b[i] = d[Behind(i, p)] /\ Behind(i, p) \in 1 .. Len(d)
      /\ p \in Nat /\ 1 <= p /\ p <= Len(d)
  <2>1. Len(d) \in Nat /\ p \in Nat /\ 1 <= p /\ p <= Len(d)
    BY LenProperties
  <2> QED
    BY <2>1, RemoveAtIs
<1> HIDE DEF b
<1>2. PICK i \in 1 .. Len(d) : /\ d[i].name = name /\ d[i].data = v
                               /\ \A j \in i + 1 .. Len(d) : d[j].name # name
  BY DEF LastIs
<1>3. i # p /\ i \in Nat /\ 1 <= i /\ i <= Len(d)
  BY <1>1, <1>2
<1> DEFINE k == IF i < p THEN i ELSE i - 1
<1>4. k \in 1 .. Len(b) /\ Behind(k, p) = i
  BY <1>1, <1>3 DEF Behind
<1>5. b[k] = d[i]
  BY <1>1, <1>4
<1>6. ASSUME NEW j \in k + 1 .. Len(b) PROVE b[j].name # name
  <2>1. j \in 1 .. Len(d) - 1 /\ Behind(j, p) \in i + 1 .. Len(d)
    BY <1>1, <1>3, <1>4 DEF Behind
  <2> QED
    BY <1>1, <1>2, <2>1
<1> HIDE DEF k
<1>7. LastIs(b, name, v)
  BY <1>2, <1>4, <1>5, <1>6 DEF LastIs
<1> QED
  BY <1>7 DEF b

LEMMA ApartRemove ==
  ASSUME NEW d \in Seq(Entries), NEW p \in 1 .. Len(d), NEW names, d[p].name \in names,
         NEW name, Apart(d, name, names)
  PROVE  Apart(RemoveAt(d, p), name, names)
<1> DEFINE b == RemoveAt(d, p)
<1>1. /\ Len(d) \in Nat /\ b \in Seq(Entries) /\ Len(b) = Len(d) - 1 /\ Len(d) - 1 \in Nat
      /\ \A i \in 1 .. Len(d) - 1 : b[i] = d[Behind(i, p)] /\ Behind(i, p) \in 1 .. Len(d)
      /\ p \in Nat /\ 1 <= p /\ p <= Len(d)
  <2>1. Len(d) \in Nat /\ p \in Nat /\ 1 <= p /\ p <= Len(d)
    BY LenProperties
  <2> QED
    BY <2>1, RemoveAtIs
<1>2. DOMAIN b = 1 .. Len(d) - 1 /\ DOMAIN d = 1 .. Len(d)
  BY <1>1, LenProperties
<1> HIDE DEF b
<1>3. ASSUME NEW i \in At(b, name), NEW j \in At(b, name), i < j
      PROVE  \E m \in i + 1 .. j - 1 : b[m].name \notin names
  <2>1. /\ i \in 1 .. Len(d) - 1 /\ j \in 1 .. Len(d) - 1
        /\ b[i].name = name /\ b[j].name = name
    BY <1>2 DEF At
  <2>2. /\ Behind(i, p) \in At(d, name) /\ Behind(j, p) \in At(d, name)
    BY <1>1, <1>2, <2>1 DEF At
  <2>3. Behind(i, p) < Behind(j, p)
    BY <1>1, <1>3, <2>1 DEF Behind
  <2>4. PICK m \in Behind(i, p) + 1 .. Behind(j, p) - 1 : d[m].name \notin names
    BY <2>2, <2>3 DEF Apart
  <2>5. m # p
    BY <2>4
  <2> DEFINE k == IF m < p THEN m ELSE m - 1
  <2>6. k \in i + 1 .. j - 1 /\ k \in 1 .. Len(d) - 1 /\ Behind(k, p) = m
    BY <1>1, <2>1, <2>4, <2>5 DEF Behind
  <2> QED
    BY <1>1, <2>4, <2>6
<1>4. Apart(b, name, names)
  BY <1>3 DEF Apart
<1> QED
  BY <1>4 DEF b

(* What remove_if_present leaves: no entry of another name is touched, and if *)
(* those of its name are apart, none of them is passed over.                  *)
LEMMA RemoveKeeps ==
  ASSUME NEW data \in Seq(Entries), NEW names, NEW name \in names
  PROVE  \A i \in 0 .. Len(data) :
           LET d == AfterIn(name, data)[i]
           IN  /\ OthersIn(d, names) = OthersIn(data, names)
               /\ \A other, v : other # name /\ LastIs(data, other, v) => LastIs(d, other, v)
               /\ \A other : Apart(data, other, names) => Apart(d, other, names)
               /\ Len(d) <= Len(data)
               /\ Apart(data, name, names) => \A j \in At(d, name) : j > i
<1> DEFINE a == AfterIn(name, data)
           Kept(d) == /\ OthersIn(d, names) = OthersIn(data, names)
                      /\ \A other, v : other # name /\ LastIs(data, other, v) => LastIs(d, other, v)
                      /\ \A other : Apart(data, other, names) => Apart(d, other, names)
           Gone(d, i) == Apart(data, name, names) => \A j \in At(d, name) : j > i
           Good(i) == Kept(a[i]) /\ Len(a[i]) <= Len(data) /\ Gone(a[i], i)
           Bad == {i \in 0 .. Len(data) : ~Good(i)}
<1>1. /\ Len(data) \in Nat /\ a \in [0 .. Len(data) -> Seq(Entries)] /\ a[0] = data
      /\ \A i \in 1 .. Len(data) : a[i] = Passed(name, a[i - 1], i)
  BY AfterIs, LenProperties
<1> HIDE DEF a
<1>2. Good(0)
  <2>1. \A j \in At(data, name) : j > 0
    BY LenProperties DEF At
  <2> QED
    BY <1>1, <2>1
<1>3. ASSUME NEW i \in 1 .. Len(data), Good(i - 1) PROVE Good(i)
  <2> DEFINE d == a[i - 1]
  <2>1. /\ d \in Seq(Entries) /\ Len(d) \in Nat /\ DOMAIN d = 1 .. Len(d)
        /\ a[i] = Passed(name, d, i) /\ i \in Nat /\ i >= 1
    BY <1>1, LenProperties
  <2>2. Kept(d) /\ Len(d) <= Len(data) /\ Gone(d, i - 1)
    BY <1>3
  <2> HIDE DEF d
  <2>3. CASE i <= Len(d) /\ d[i].name = name
    <3> DEFINE b == RemoveAt(d, i)
    <3>1. a[i] = b /\ i \in 1 .. Len(d)
      BY <2>1, <2>3 DEF Passed
    <3>2. /\ b \in Seq(Entries) /\ Len(b) = Len(d) - 1 /\ Len(d) - 1 \in Nat
          /\ \A j \in 1 .. Len(d) - 1 : b[j] = d[Behind(j, i)]
      BY <2>1, <3>1, RemoveAtIs
    <3>3. OthersIn(b, names) = OthersIn(d, names)
      BY <2>1, <2>3, <3>1, OthersRemove
    <3>4. ASSUME NEW other, NEW v, other # name, LastIs(d, other, v) PROVE LastIs(b, other, v)
      BY <2>1, <2>3, <3>1, <3>4, LastRemove
    <3>5. ASSUME NEW other, Apart(d, other, names) PROVE Apart(b, other, names)
      BY <2>1, <2>3, <3>1, <3>5, ApartRemove
    <3>6. ASSUME Apart(data, name, names), NEW j \in At(b, name) PROVE j > i
      <4>1. j \in 1 .. Len(d) - 1 /\ b[j].name = name
        BY <3>2, LenProperties DEF At
      <4>2. CASE j < i
        <5>1. j \in At(d, name) /\ ~(j > i - 1)
          BY <2>1, <3>2, <4>1, <4>2 DEF At, Behind
        <5> QED
          BY <2>2, <3>6, <5>1
      <4>3. CASE j = i
        <5>1. i \in At(d, name) /\ i + 1 \in At(d, name)
          BY <2>1, <2>3, <3>2, <4>1, <4>3 DEF At, Behind
        <5>2. PICK m \in i + 1 .. (i + 1) - 1 : TRUE
          BY <2>1, <2>2, <3>6, <5>1 DEF Apart
        <5> QED
          BY <2>1, <5>2
      <4> QED
        BY <2>1, <4>1, <4>2, <4>3
    <3> HIDE DEF b
    <3>7. Kept(b)
      BY <2>2, <3>3, <3>4, <3>5
    <3>8. Len(b) <= Len(data)
      BY <1>1, <2>1, <2>2, <3>2
    <3> QED
      BY <3>1, <3>6, <3>7, <3>8
  <2>4. CASE ~(i <= Len(d) /\ d[i].name = name)
    <3>1. a[i] = d
      BY <2>1, <2>4 DEF Passed
    <3>2. ASSUME Apart(data, name, names), NEW j \in At(d, name) PROVE j > i
      <4>1. j \in 1 .. Len(d) /\ d[j].name = name
        BY <2>1 DEF At
      <4>2. j > i - 1 /\ j # i
        BY <2>2, <2>4, <3>2, <4>1
      <4> QED
        BY <2>1, <4>1, <4>2
    <3> QED
      BY <2>2, <3>1, <3>2
  <2> QED
    BY <2>3, <2>4
<1>4. Bad = {}
  <2> HIDE DEF Good
  <2>1. SUFFICES ASSUME Bad # {} PROVE FALSE
    OBVIOUS
  <2>2. Bad \subseteq Nat
    BY <1>1
  <2>3. PICK i \in Bad : \A j \in Bad : i <= j
    BY <2>1, <2>2, Least
  <2>4. i # 0
    BY <1>2, <2>3
  <2>5. i \in 1 .. Len(data) /\ i - 1 \in 0 .. Len(data) /\ i \in Nat
    BY <1>1, <2>3, <2>4
  <2>6. Good(i - 1)
    BY <2>3, <2>5
  <2> QED
    BY <1>3, <2>3, <2>5, <2>6
<1> QED
  BY <1>4 DEF a

(* The same at the end of remove_if_present.                                  *)
LEMMA RemoveIs ==
  ASSUME NEW data \in Seq(Entries), NEW names, NEW name \in names
  PROVE  LET d == RemoveIfPresent(name, data)
         IN  /\ d \in Seq(Entries)
             /\ OthersIn(d, names) = OthersIn(data, names)
             /\ \A other, v : other # name /\ LastIs(data, other, v) => LastIs(d, other, v)
             /\ \A other : Apart(data, other, names) => Apart(d, other, names)
             /\ Apart(data, name, names) => At(d, name) = {}
<1> DEFINE d == RemoveIfPresent(name, data)
<1>1. Len(data) \in Nat /\ Len(data) \in 0 .. Len(data)
  BY LenProperties
<1>2. d = AfterIn(name, data)[Len(data)] /\ d \in Seq(Entries)
  <2>1. d = AfterIn(name, data)[Len(data)] /\ AfterIn(name, data) \in [0 .. Len(data) -> Seq(Entries)]
    BY AfterIs
  <2> QED
    BY <1>1, <2>1, Zenon
<1> HIDE DEF d
<1>3. /\ OthersIn(d, names) = OthersIn(data, names)
      /\ \A other, v : other # name /\ LastIs(data, other, v) => LastIs(d, other, v)
      /\ \A other : Apart(data, other, names) => Apart(d, other, names)
      /\ Len(d) <= Len(data)
      /\ Apart(data, name, names) => \A j \in At(d, name) : j > Len(data)
  BY <1>1, <1>2, RemoveKeeps, Zenon
<1>4. ASSUME Apart(data, name, names) PROVE At(d, name) = {}
  <2>1. At(d, name) \subseteq 1 .. Len(d) /\ Len(d) \in Nat
    BY <1>2, LenProperties DEF At
  <2> QED
    BY <1>1, <1>3, <1>4, <2>1
<1> QED
  BY <1>2, <1>3, <1>4, Zenon DEF d

(* An entry is appended.                                                      *)
LEMMA AppendKeeps ==
  ASSUME NEW d \in Seq(Entries), NEW e \in Entries
  PROVE  LET b == Append(d, e)
         IN  /\ b \in Seq(Entries)
             /\ LastIs(b, e.name, e.data)
             /\ \A other, v : other # e.name /\ LastIs(d, other, v) => LastIs(b, other, v)
             /\ \A other, names : other # e.name /\ Apart(d, other, names) => Apart(b, other, names)
             /\ \A names : At(d, e.name) = {} => Apart(b, e.name, names)
<1> DEFINE b == Append(d, e)
<1>1. /\ Len(d) \in Nat /\ b \in Seq(Entries) /\ Len(b) = Len(d) + 1
      /\ \A i \in 1 .. Len(d) : b[i] = d[i]
      /\ b[Len(d) + 1] = e
      /\ DOMAIN d = 1 .. Len(d) /\ DOMAIN b = 1 .. Len(d) + 1
  BY AppendProperties, LenProperties
<1> HIDE DEF b
<1>2. LastIs(b, e.name, e.data)
  <2>1. Len(d) + 1 \in 1 .. Len(b) /\ Len(d) + 1 + 1 .. Len(b) = {}
    BY <1>1
  <2> QED
    BY <1>1, <2>1 DEF LastIs
<1>3. ASSUME NEW other, NEW v, other # e.name, LastIs(d, other, v) PROVE LastIs(b, other, v)
  <2>1. PICK i \in 1 .. Len(d) : /\ d[i].name = other /\ d[i].data = v
                                 /\ \A j \in i + 1 .. Len(d) : d[j].name # other
    BY <1>3 DEF LastIs
  <2>2. i \in 1 .. Len(b) /\ b[i] = d[i]
    BY <1>1
  <2>3. ASSUME NEW j \in i + 1 .. Len(b) PROVE b[j].name # other
    <3>1. CASE j = Len(d) + 1
      BY <1>1, <1>3, <3>1
    <3>2. CASE j # Len(d) + 1
      BY <1>1, <2>1, <3>2
    <3> QED
      BY <3>1, <3>2
  <2> QED
    BY <2>1, <2>2, <2>3 DEF LastIs
<1>4. ASSUME NEW other, other # e.name PROVE At(b, other) = At(d, other)
  <2>1. ASSUME NEW i \in 1 .. Len(d) + 1 PROVE i \in At(b, other) <=> i \in At(d, other)
    <3>1. CASE i = Len(d) + 1
      BY <1>1, <1>4, <3>1 DEF At
    <3>2. CASE i # Len(d) + 1
      BY <1>1, <3>2 DEF At
    <3> QED
      BY <3>1, <3>2
  <2>2. At(b, other) \subseteq 1 .. Len(d) + 1 /\ At(d, other) \subseteq 1 .. Len(d) + 1
    BY <1>1 DEF At
  <2> QED
    BY <2>1, <2>2
<1>5. ASSUME NEW other, NEW names, other # e.name, Apart(d, other, names)
      PROVE  Apart(b, other, names)
  <2>1. ASSUME NEW i \in At(b, other), NEW j \in At(b, other), i < j
        PROVE  \E m \in i + 1 .. j - 1 : b[m].name \notin names
    <3>1. i \in At(d, other) /\ j \in At(d, other) /\ i \in 1 .. Len(d) /\ j \in 1 .. Len(d)
      BY <1>1, <1>4, <1>5 DEF At
    <3>2. PICK m \in i + 1 .. j - 1 : d[m].name \notin names
      BY <1>5, <2>1, <3>1 DEF Apart
    <3>3. b[m] = d[m]
      BY <1>1, <3>1
    <3> QED
      BY <3>2, <3>3
  <2> QED
    BY <2>1 DEF Apart
<1>6. ASSUME NEW names, At(d, e.name) = {} PROVE Apart(b, e.name, names)
  <2>1. ASSUME NEW i \in At(b, e.name) PROVE i = Len(d) + 1
    <3>1. i \in 1 .. Len(d) + 1 /\ b[i].name = e.name
      BY <1>1 DEF At
    <3>2. CASE i # Len(d) + 1
      <4>1. i \in At(d, e.name)
        BY <1>1, <3>1, <3>2 DEF At
      <4> QED
        BY <1>6, <4>1
    <3> QED
      BY <3>2
  <2>2. \A i, j \in At(b, e.name) : ~(i < j)
    BY <1>1, <2>1
  <2> QED
    BY <2>2 DEF Apart
<1> QED
  BY <1>1, <1>2, <1>3, <1>5, <1>6, Zenon DEF b

(* What one turn of the loop over the policies does to either list.           *)
LEMMA UpdatedIs ==
  ASSUME NEW data \in Seq(Entries), NEW names, NEW e \in Entries, e.name \in names
  PROVE  LET d == Append(RemoveIfPresent(e.name, data), e)
         IN  /\ d \in Seq(Entries)
             /\ OthersIn(d, names) = OthersIn(data, names)
             /\ LastIs(d, e.name, e.data)
             /\ \A other, v : other # e.name /\ LastIs(data, other, v) => LastIs(d, other, v)
             /\ \A other : other # e.name /\ Apart(data, other, names) => Apart(d, other, names)
             /\ Apart(data, e.name, names) => Apart(d, e.name, STRING)
<1> DEFINE r == RemoveIfPresent(e.name, data)
           d == Append(r, e)
<1>1. /\ r \in Seq(Entries)
      /\ OthersIn(r, names) = OthersIn(data, names)
      /\ \A other, v : other # e.name /\ LastIs(data, other, v) => LastIs(r, other, v)
      /\ \A other : Apart(data, other, names) => Apart(r, other, names)
      /\ Apart(data, e.name, names) => At(r, e.name) = {}
  BY RemoveIs, Zenon
<1> HIDE DEF r
<1>2. /\ d \in Seq(Entries)
      /\ LastIs(d, e.name, e.data)
      /\ \A other, v : other # e.name /\ LastIs(r, other, v) => LastIs(d, other, v)
      /\ \A other : other # e.name /\ Apart(r, other, names) => Apart(d, other, names)
      /\ At(r, e.name) = {} => Apart(d, e.name, STRING)
  BY <1>1, AppendKeeps, Zenon
<1>3. OthersIn(d, names) = OthersIn(r, names)
  BY <1>1, OthersAppend, Zenon
<1> HIDE DEF d
<1>4. OthersIn(d, names) = OthersIn(data, names)
  BY <1>1, <1>3
<1> QED
  BY <1>1, <1>2, <1>4, Zenon DEF d, r

-----------------------------------------------------------------------------
(* Two files with the same names in the same order: what is done to them for  *)
(* a policy leaves them so.                                                   *)
SameNames(c, d) == Len(c) = Len(d) /\ \A i \in 1 .. Len(c) : c[i].name = d[i].name

LEMMA SameIs ==
  ASSUME NEW c \in Seq(Entries), NEW d \in Seq(Entries)
  PROVE  SameNames(c, d) <=> NamesOf(c) = NamesOf(d)
<1>1. /\ Len(c) \in Nat /\ DOMAIN c = 1 .. Len(c) /\ Len(d) \in Nat /\ DOMAIN d = 1 .. Len(d)
  BY LenProperties
<1>2. c \notin {Absent, Broken} /\ d \notin {Absent, Broken}
  BY ResultsAssumption
<1>3. /\ NamesOf(c) = [i \in 1 .. Len(c) |-> c[i].name]
      /\ NamesOf(d) = [i \in 1 .. Len(d) |-> d[i].name]
  BY <1>1, <1>2 DEF NamesOf
<1>4. ASSUME SameNames(c, d) PROVE NamesOf(c) = NamesOf(d)
  BY <1>3, <1>4 DEF SameNames
<1>5. ASSUME NamesOf(c) = NamesOf(d) PROVE SameNames(c, d)
  <2>1. 1 .. Len(c) = 1 .. Len(d)
    BY <1>3, <1>5
  <2>2. Len(c) = Len(d)
    <3>1. \A m, n \in Nat : 1 .. m = 1 .. n => m <= n
      <4>1. ASSUME NEW m \in Nat, NEW n \in Nat, 1 .. m = 1 .. n, ~(m <= n) PROVE FALSE
        <5>1. m \in 1 .. m /\ m \notin 1 .. n
          BY <4>1
        <5> QED
          BY <4>1, <5>1
      <4> QED
        BY <4>1
    <3>2. \A m, n \in Nat : 1 .. m = 1 .. n => m = n
      <4>1. ASSUME NEW m \in Nat, NEW n \in Nat, 1 .. m = 1 .. n PROVE m = n
        <5>1. m <= n /\ n <= m
          BY <3>1, <4>1, Zenon
        <5> QED
          BY <5>1
      <4> QED
        BY <4>1
    <3> QED
      BY <1>1, <2>1, <3>2, Zenon
  <2>3. ASSUME NEW i \in 1 .. Len(c) PROVE c[i].name = d[i].name
    <3>1. NamesOf(c)[i] = c[i].name /\ NamesOf(d)[i] = d[i].name
      BY <1>3, <2>1
    <3> QED
      BY <1>5, <3>1
  <2> QED
    BY <2>2, <2>3 DEF SameNames
<1> QED
  BY <1>4, <1>5

LEMMA SamePassed ==
  ASSUME NEW c \in Seq(Entries), NEW d \in Seq(Entries), SameNames(c, d),
         NEW name, NEW i \in Nat \ {0}
  PROVE  SameNames(Passed(name, c, i), Passed(name, d, i))
<1>1. Len(c) \in Nat /\ Len(d) = Len(c)
  BY LenProperties DEF SameNames
<1>2. CASE i <= Len(c) /\ c[i].name = name
  <2>1. i \in 1 .. Len(c) /\ i \in 1 .. Len(d) /\ d[i].name = name
    BY <1>1, <1>2 DEF SameNames
  <2>2. /\ Len(RemoveAt(c, i)) = Len(c) - 1
        /\ \A j \in 1 .. Len(c) - 1 : RemoveAt(c, i)[j] = c[Behind(j, i)]
                                      /\ Behind(j, i) \in 1 .. Len(c)
    BY <2>1, RemoveAtIs
  <2>3. /\ Len(RemoveAt(d, i)) = Len(d) - 1
        /\ \A j \in 1 .. Len(d) - 1 : RemoveAt(d, i)[j] = d[Behind(j, i)]
    BY <2>1, RemoveAtIs
  <2>4. SameNames(RemoveAt(c, i), RemoveAt(d, i))
    BY <1>1, <2>2, <2>3 DEF SameNames
  <2>5. Passed(name, c, i) = RemoveAt(c, i) /\ Passed(name, d, i) = RemoveAt(d, i)
    BY <1>1, <1>2, <2>1 DEF Passed
  <2> QED
    BY <2>4, <2>5
<1>3. CASE ~(i <= Len(c) /\ c[i].name = name)
  <2>1. ~(i <= Len(d) /\ d[i].name = name)
    BY <1>1, <1>3 DEF SameNames
  <2> QED
    BY <1>3, <2>1 DEF Passed
<1> QED
  BY <1>2, <1>3

LEMMA SameRemove ==
  ASSUME NEW c \in Seq(Entries), NEW d \in Seq(Entries), SameNames(c, d), NEW name
  PROVE  SameNames(RemoveIfPresent(name, c), RemoveIfPresent(name, d))
<1> DEFINE a == AfterIn(name, c)
           b == AfterIn(name, d)
           Off == {i \in 0 .. Len(c) : ~SameNames(a[i], b[i])}
<1>1. Len(c) \in Nat /\ Len(d) = Len(c)
  BY LenProperties DEF SameNames
<1>2. /\ a \in [0 .. Len(c) -> Seq(Entries)] /\ a[0] = c
      /\ \A i \in 1 .. Len(c) : a[i] = Passed(name, a[i - 1], i)
      /\ RemoveIfPresent(name, c) = a[Len(c)]
  BY AfterIs
<1>3. /\ b \in [0 .. Len(c) -> Seq(Entries)] /\ b[0] = d
      /\ \A i \in 1 .. Len(c) : b[i] = Passed(name, b[i - 1], i)
      /\ RemoveIfPresent(name, d) = b[Len(c)]
  BY <1>1, AfterIs
<1> HIDE DEF a, b
<1>4. Off = {}
  <2>1. SUFFICES ASSUME Off # {} PROVE FALSE
    OBVIOUS
  <2>2. Off \subseteq Nat
    BY <1>1
  <2>3. PICK i \in Off : \A j \in Off : i <= j
    BY <2>1, <2>2, Least
  <2>4. i # 0
    BY <1>2, <1>3, <2>3
  <2>5. i \in 1 .. Len(c) /\ i \in Nat \ {0} /\ i - 1 \in 0 .. Len(c)
    BY <1>1, <2>3, <2>4
  <2>6. SameNames(a[i - 1], b[i - 1])
    <3>1. i - 1 \notin Off
      <4> HIDE DEF Off
      <4> QED
        BY <2>3, <2>5
    <3> QED
      BY <2>5, <3>1
  <2>7. a[i - 1] \in Seq(Entries) /\ b[i - 1] \in Seq(Entries)
    BY <1>2, <1>3, <2>5
  <2>8. SameNames(Passed(name, a[i - 1], i), Passed(name, b[i - 1], i))
    BY <2>5, <2>6, <2>7, SamePassed
  <2> QED
    BY <1>2, <1>3, <2>3, <2>5, <2>8
<1>5. Len(c) \in 0 .. Len(c)
  BY <1>1
<1> QED
  BY <1>2, <1>3, <1>4, <1>5

LEMMA SameUpdated ==
  ASSUME NEW c \in Seq(Entries), NEW d \in Seq(Entries), SameNames(c, d),
         NEW e \in Entries, NEW g \in Entries, e.name = g.name
  PROVE  SameNames(Append(RemoveIfPresent(e.name, c), e), Append(RemoveIfPresent(g.name, d), g))
<1> DEFINE r == RemoveIfPresent(e.name, c)
           s == RemoveIfPresent(g.name, d)
<1>1. r \in Seq(Entries) /\ s \in Seq(Entries)
  BY RemoveIs, Zenon
<1>2. SameNames(r, s)
  BY SameRemove
<1> HIDE DEF r, s
<1>3. /\ Len(r) \in Nat /\ Len(Append(r, e)) = Len(r) + 1
      /\ \A i \in 1 .. Len(r) : Append(r, e)[i] = r[i]
      /\ Append(r, e)[Len(r) + 1] = e
  BY <1>1, AppendProperties, LenProperties
<1>4. /\ Len(Append(s, g)) = Len(s) + 1
      /\ \A i \in 1 .. Len(s) : Append(s, g)[i] = s[i]
      /\ Append(s, g)[Len(s) + 1] = g
  BY <1>1, AppendProperties
<1>5. SameNames(Append(r, e), Append(s, g))
  <2>1. Len(s) = Len(r)
    BY <1>2 DEF SameNames
  <2>2. ASSUME NEW i \in 1 .. Len(r) + 1 PROVE Append(r, e)[i].name = Append(s, g)[i].name
    <3>1. CASE i = Len(r) + 1
      BY <1>3, <1>4, <2>1, <3>1
    <3>2. CASE i # Len(r) + 1
      <4>1. i \in 1 .. Len(r)
        BY <1>3, <3>2
      <4> QED
        BY <1>2, <1>3, <1>4, <2>1, <4>1 DEF SameNames
    <3> QED
      BY <3>1, <3>2
  <2> QED
    BY <1>3, <1>4, <2>1, <2>2 DEF SameNames
<1> QED
  BY <1>5 DEF r, s

-----------------------------------------------------------------------------
(* Sequences put one behind the other.                                        *)
LEMMA ToSetConcat ==
  ASSUME NEW S, NEW s \in Seq(S), NEW t \in Seq(S), NEW x
  PROVE  x \in ToSet(s \o t) <=> x \in ToSet(s) \/ x \in ToSet(t)
<1>1. /\ Len(s) \in Nat /\ Len(t) \in Nat /\ DOMAIN s = 1 .. Len(s) /\ DOMAIN t = 1 .. Len(t)
      /\ DOMAIN (s \o t) = 1 .. Len(s) + Len(t)
      /\ \A i \in 1 .. Len(s) + Len(t) :
           (s \o t)[i] = IF i <= Len(s) THEN s[i] ELSE t[i - Len(s)]
  <2>1. s \o t \in Seq(S) /\ Len(s \o t) = Len(s) + Len(t)
    BY ConcatProperties
  <2> QED
    BY <2>1, ConcatProperties, LenProperties
<1> DEFINE c == s \o t
<1> HIDE DEF c
<1>2. ASSUME x \in ToSet(c) PROVE x \in ToSet(s) \/ x \in ToSet(t)
  <2>1. PICK i \in 1 .. Len(s) + Len(t) : x = c[i]
    BY <1>1, <1>2 DEF ToSet, c
  <2>2. CASE i <= Len(s)
    <3>1. i \in DOMAIN s /\ x = s[i]
      BY <1>1, <2>1, <2>2 DEF c
    <3> QED
      BY <3>1 DEF ToSet
  <2>3. CASE ~(i <= Len(s))
    <3>1. i - Len(s) \in DOMAIN t /\ x = t[i - Len(s)]
      BY <1>1, <2>1, <2>3 DEF c
    <3> QED
      BY <3>1 DEF ToSet
  <2> QED
    BY <2>2, <2>3
<1>3. ASSUME x \in ToSet(s) PROVE x \in ToSet(c)
  <2>1. PICK i \in 1 .. Len(s) : x = s[i]
    BY <1>1, <1>3 DEF ToSet
  <2>2. i \in DOMAIN c /\ x = c[i]
    BY <1>1, <2>1 DEF c
  <2> QED
    BY <2>2 DEF ToSet
<1>4. ASSUME x \in ToSet(t) PROVE x \in ToSet(c)
  <2>1. PICK i \in 1 .. Len(t) : x = t[i]
    BY <1>1, <1>4 DEF ToSet
  <2>2. Len(s) + i \in 1 .. Len(s) + Len(t) /\ (Len(s) + i) - Len(s) = i /\ ~(Len(s) + i <= Len(s))
    BY <1>1
  <2>3. Len(s) + i \in DOMAIN c /\ x = c[Len(s) + i]
    BY <1>1, <2>1, <2>2 DEF c
  <2> QED
    BY <2>3 DEF ToSet
<1> QED
  BY <1>2, <1>3, <1>4 DEF c

FlatIn(seqs) ==
  CHOOSE flatten : flatten = [i \in 1 .. Len(seqs) |->
                                IF i = 1 THEN seqs[i] ELSE flatten[i - 1] \o seqs[i]]

LEMMA FlatInIs ==
  ASSUME NEW S, NEW seqs \in Seq(Seq(S))
  PROVE  LET a == FlatIn(seqs)
         IN  \A i \in 1 .. Len(seqs) : a[i] = IF i = 1 THEN seqs[i] ELSE a[i - 1] \o seqs[i]
<1> DEFINE n == Len(seqs)
           step == [i \in 1 .. n |-> [v \in Seq(S) |-> v \o seqs[i]]]
           Eq(f) == f = [i \in 1 .. n |-> IF i = 1 THEN seqs[i] ELSE f[i - 1] \o seqs[i]]
<1>1. n \in Nat /\ \A i \in 1 .. n : seqs[i] \in Seq(S)
  <2>1. n \in Nat
    BY LenProperties
  <2>2. ASSUME NEW i \in 1 .. n PROVE seqs[i] \in Seq(S)
    BY ElementOfSeq
  <2> QED
    BY <2>1, <2>2
<1>2. IsStep(step, n, Seq(S))
  <2>1. ASSUME NEW i \in 1 .. n, NEW v \in Seq(S) PROVE v \o seqs[i] \in Seq(S)
    BY <1>1, ConcatProperties
  <2> QED
    BY <2>1 DEF IsStep
<1>3. PICK f : IsCarried(f, n, Seq(S), <<>>, step)
  <2>1. <<>> \in Seq(S)
    OBVIOUS
  <2> HIDE DEF step, n
  <2> QED
    BY <1>1, <1>2, <2>1, CarriedOn
<1>4. ASSUME NEW i \in 1 .. n
      PROVE  f[i] = f[i - 1] \o seqs[i] /\ i - 1 \in 0 .. n /\ f[i - 1] \in Seq(S)
  <2>1. i - 1 \in 0 .. n
    BY <1>1
  <2>2. f[i - 1] \in Seq(S)
    BY <1>3, <2>1 DEF IsCarried
  <2>3. f[i] = step[i][f[i - 1]]
    BY <1>3 DEF IsCarried
  <2> QED
    BY <2>1, <2>2, <2>3
<1> DEFINE g == [i \in 1 .. n |-> f[i]]
<1>5. Eq(g)
  <2>1. ASSUME NEW i \in 1 .. n
        PROVE  f[i] = IF i = 1 THEN seqs[i] ELSE g[i - 1] \o seqs[i]
    <3>1. CASE i = 1
      <4>1. f[i - 1] = <<>>
        BY <1>3, <3>1 DEF IsCarried
      <4>2. <<>> \o seqs[i] = seqs[i]
        BY <1>1, ConcatEmptySeq
      <4> QED
        BY <1>4, <3>1, <4>1, <4>2
    <3>2. CASE i # 1
      <4>1. i - 1 \in 1 .. n
        BY <1>1, <3>2
      <4> QED
        BY <1>4, <3>2, <4>1
    <3> QED
      BY <3>1, <3>2
  <2> QED
    BY <2>1
<1>6. Eq(FlatIn(seqs))
  <2>1. FlatIn(seqs) = CHOOSE h : Eq(h)
    BY DEF FlatIn
  <2> HIDE DEF Eq
  <2> QED
    BY <1>5, <2>1
<1> DEFINE a == FlatIn(seqs)
<1>7. a = [i \in 1 .. n |-> IF i = 1 THEN seqs[i] ELSE a[i - 1] \o seqs[i]]
  BY <1>6
<1> HIDE DEF a
<1>8. \A i \in 1 .. n : a[i] = IF i = 1 THEN seqs[i] ELSE a[i - 1] \o seqs[i]
  BY <1>7
<1> QED
  BY <1>8 DEF a

LEMMA FlattenIs ==
  ASSUME NEW S, NEW seqs \in Seq(Seq(S))
  PROVE  /\ FlattenSeq(seqs) \in Seq(S)
         /\ \A x : x \in ToSet(FlattenSeq(seqs)) <=> \E i \in 1 .. Len(seqs) : x \in ToSet(seqs[i])
<1> DEFINE n == Len(seqs)
           a == FlatIn(seqs)
           Flat(i) == /\ a[i] \in Seq(S)
                      /\ \A x : x \in ToSet(a[i]) <=> \E j \in 1 .. i : x \in ToSet(seqs[j])
           Off == {i \in 1 .. n : ~Flat(i)}
<1>1. n \in Nat /\ \A i \in 1 .. n : seqs[i] \in Seq(S)
  <2>1. n \in Nat
    BY LenProperties
  <2>2. ASSUME NEW i \in 1 .. n PROVE seqs[i] \in Seq(S)
    BY ElementOfSeq
  <2> QED
    BY <2>1, <2>2
<1>2. \A i \in 1 .. n : a[i] = IF i = 1 THEN seqs[i] ELSE a[i - 1] \o seqs[i]
  BY FlatInIs
<1>3. CASE n = 0
  <2>1. FlattenSeq(seqs) = seqs
    BY <1>3 DEF FlattenSeq
  <2>2. seqs = <<>>
    BY <1>3
  <2>3. \A x : ~(x \in ToSet(<<>>))
    BY DEF ToSet
  <2> QED
    BY <1>3, <2>1, <2>2, <2>3
<1>4. CASE n # 0
  <2>1. FlattenSeq(seqs) = a[n]
    BY <1>4 DEF FlattenSeq, FlatIn
  <2> HIDE DEF a, n
  <2>2. Off = {}
    <3>1. SUFFICES ASSUME Off # {} PROVE FALSE
      OBVIOUS
    <3>2. Off \subseteq Nat
      BY <1>1
    <3>3. PICK i \in Off : \A j \in Off : i <= j
      BY <3>1, <3>2, Least
    <3>4. i # 1
      <4>1. ASSUME i = 1 PROVE Flat(i)
        <5>1. i \in 1 .. n /\ a[i] = seqs[i] /\ \A j \in 1 .. i : j = i
          BY <1>2, <3>3, <4>1
        <5> QED
          BY <1>1, <4>1, <5>1
      <4> QED
        BY <3>3, <4>1
    <3>5. i \in 1 .. n /\ i - 1 \in 1 .. n /\ i \in Nat /\ ~(i <= i - 1)
      BY <1>1, <3>3, <3>4
    <3>6. Flat(i - 1)
      <4>1. i - 1 \notin Off
        <5> HIDE DEF Off
        <5> QED
          BY <3>3, <3>5
      <4> HIDE DEF Flat
      <4> QED
        BY <3>5, <4>1
    <3>7. a[i] = a[i - 1] \o seqs[i] /\ a[i - 1] \in Seq(S) /\ seqs[i] \in Seq(S)
      BY <1>1, <1>2, <3>4, <3>5, <3>6
    <3>8. a[i] \in Seq(S)
      BY <3>7, ConcatProperties
    <3>9. ASSUME NEW x PROVE x \in ToSet(a[i]) <=> \E j \in 1 .. i : x \in ToSet(seqs[j])
      <4>1. x \in ToSet(a[i]) <=> x \in ToSet(a[i - 1]) \/ x \in ToSet(seqs[i])
        BY <3>7, ToSetConcat
      <4>2. x \in ToSet(a[i - 1]) <=> \E j \in 1 .. i - 1 : x \in ToSet(seqs[j])
        BY <3>6
      <4>3. \A j : j \in 1 .. i <=> j \in 1 .. i - 1 \/ j = i
        BY <3>5
      <4> QED
        BY <4>1, <4>2, <4>3, Zenon
    <3>10. Flat(i)
      BY <3>8, <3>9
    <3> QED
      <4> HIDE DEF Flat
      <4> QED
        BY <3>3, <3>10
  <2>3. n \in 1 .. n
    BY <1>1, <1>4
  <2>4. Flat(n)
    <3> HIDE DEF Flat
    <3> QED
      BY <2>2, <2>3
  <2> QED
    BY <2>1, <2>4 DEF n
<1> QED
  BY <1>3, <1>4

-----------------------------------------------------------------------------
(* A finite set of numbers can be put in order.                               *)
InOrder(s, S) == /\ s \in [1 .. Cardinality(S) -> S]
                 /\ \A i, j \in 1 .. Cardinality(S) : i < j => s[i] < s[j]

LEMMA SortedExists ==
  ASSUME NEW S \in SUBSET Nat, IsFiniteSet(S)
  PROVE  \E s : InOrder(s, S)
<1> DEFINE Bad(n) == \E T \in SUBSET Nat : IsFiniteSet(T) /\ Cardinality(T) = n /\ ~ \E s : InOrder(s, T)
           None == {n \in Nat : Bad(n)}
<1>1. SUFFICES ASSUME None # {} PROVE FALSE
  <2>1. Cardinality(S) \in Nat
    BY FS_CardinalityType
  <2>2. Cardinality(S) \notin None
    BY <1>1
  <2> QED
    BY <2>1, <2>2
<1>2. PICK n \in None : \A m \in None : n <= m
  <2>1. None \subseteq Nat
    OBVIOUS
  <2> HIDE DEF None
  <2> QED
    BY <1>1, <2>1, Least
<1>3. n \in Nat /\ Bad(n)
  BY <1>2
<1>4. PICK T \in SUBSET Nat : IsFiniteSet(T) /\ Cardinality(T) = n /\ ~ \E s : InOrder(s, T)
  BY <1>3
<1>5. T # {}
  <2>1. ASSUME T = {} PROVE \E s : InOrder(s, T)
    <3>1. Cardinality(T) = 0
      BY <2>1, FS_EmptySet
    <3>2. 1 .. 0 = {} /\ \A i, j \in 1 .. 0 : FALSE
      OBVIOUS
    <3>3. [i \in 1 .. 0 |-> i] \in [1 .. 0 -> T]
      BY <3>2
    <3>4. InOrder([i \in 1 .. 0 |-> i], T)
      BY <3>1, <3>2, <3>3 DEF InOrder
    <3> QED
      BY <3>4
  <2> QED
    BY <1>4, <2>1
<1>6. PICK x \in T : \A y \in T : x <= y
  BY <1>4, <1>5, Least
<1> DEFINE U == T \ {x}
<1>7. IsFiniteSet(U) /\ Cardinality(U) = n - 1 /\ n # 0 /\ n - 1 \in Nat /\ U \in SUBSET Nat
  <2>1. IsFiniteSet(U) /\ Cardinality(U) = n - 1
    BY <1>4, FS_RemoveElement
  <2>2. n # 0
    BY <1>4, <1>5, FS_EmptySet
  <2> QED
    BY <1>3, <2>1, <2>2
<1>8. PICK s : InOrder(s, U)
  <2>1. n - 1 \notin None
    <3>1. ~(n <= n - 1)
      BY <1>3
    <3> HIDE DEF None
    <3> QED
      BY <1>2, <3>1
  <2>2. ~Bad(n - 1)
    BY <1>7, <2>1
  <2> HIDE DEF U
  <2> QED
    BY <1>7, <2>2
<1>9. /\ s \in [1 .. n - 1 -> U]
      /\ \A i, j \in 1 .. n - 1 : i < j => s[i] < s[j]
  BY <1>7, <1>8 DEF InOrder
<1> DEFINE t == [i \in 1 .. n |-> IF i = 1 THEN x ELSE s[i - 1]]
<1>10. ASSUME NEW i \in 1 .. n PROVE t[i] \in T /\ (i # 1 => t[i] \in U /\ t[i] = s[i - 1] /\ i - 1 \in 1 .. n - 1)
  <2>1. CASE i = 1
    BY <2>1
  <2>2. CASE i # 1
    <3>1. i - 1 \in 1 .. n - 1
      BY <1>3, <2>2
    <3>2. s[i - 1] \in U
      BY <1>9, <3>1
    <3> QED
      BY <2>2, <3>1, <3>2
  <2> QED
    BY <2>1, <2>2
<1>11. t[1] = x /\ t \in [1 .. n -> T]
  <2>1. 1 \in 1 .. n
    BY <1>3, <1>7
  <2> QED
    BY <1>10, <2>1
<1> HIDE DEF t
<1>12. ASSUME NEW i \in 1 .. n, NEW j \in 1 .. n, i < j PROVE t[i] < t[j]
  <2>1. j # 1 /\ t[j] \in U /\ t[j] = s[j - 1] /\ j - 1 \in 1 .. n - 1
    BY <1>3, <1>10, <1>12
  <2>2. CASE i = 1
    <3>1. x <= t[j] /\ x # t[j] /\ x \in Nat /\ t[j] \in Nat
      BY <1>6, <2>1
    <3> QED
      BY <1>11, <2>2, <3>1
  <2>3. CASE i # 1
    <3>1. t[i] = s[i - 1] /\ i - 1 \in 1 .. n - 1
      BY <1>10, <2>3
    <3>2. i - 1 < j - 1
      BY <1>3, <1>12
    <3> QED
      BY <1>9, <2>1, <3>1, <3>2
  <2> QED
    BY <2>2, <2>3
<1>13. InOrder(t, T)
  BY <1>4, <1>11, <1>12 DEF InOrder
<1> QED
  BY <1>4, <1>13

(* A function into a set of its own size that takes no value twice takes all. *)
LEMMA TakesAll ==
  ASSUME NEW S, IsFiniteSet(S), NEW s \in [1 .. Cardinality(S) -> S],
         \A i, j \in 1 .. Cardinality(S) : i # j => s[i] # s[j]
  PROVE  s \in Seq(S) /\ ToSet(s) = S
<1> DEFINE D == 1 .. Cardinality(S)
<1>1. Cardinality(S) \in Nat
  BY FS_CardinalityType
<1>2. IsFiniteSet(D) /\ Cardinality(D) = Cardinality(S)
  <2>1. \A n \in Nat : IsFiniteSet(1 .. n) /\ Cardinality(1 .. n) = n
    <3>1. ASSUME NEW n \in Nat PROVE IsFiniteSet(1 .. n) /\ Cardinality(1 .. n) = n
      <4>1. IsFiniteSet(1 .. n) /\ Cardinality(1 .. n) = IF 1 > n THEN 0 ELSE n - 1 + 1
        BY FS_Interval
      <4> QED
        BY <4>1
    <3> QED
      BY <3>1
  <2> QED
    BY <1>1, <2>1, Zenon
<1>3. s \in Injection(D, S)
  BY DEF Injection, IsInjective
<1>4. s \in Surjection(D, S)
  <2> HIDE DEF D
  <2> QED
    BY <1>2, <1>3, FS_Injection
<1>5. \A x \in S : \E i \in D : s[i] = x
  BY <1>4 DEF Surjection
<1> QED
  BY <1>1, <1>5 DEF ToSet

LEMMA SortedIs ==
  ASSUME NEW S \in SUBSET Nat, IsFiniteSet(S)
  PROVE  /\ Sorted(S) \in Seq(S) /\ Len(Sorted(S)) = Cardinality(S)
         /\ ToSet(Sorted(S)) = S
<1> DEFINE s == Sorted(S)
           n == Cardinality(S)
<1>1. n \in Nat
  BY FS_CardinalityType
<1>2. s \in [1 .. n -> S] /\ \A i, j \in 1 .. n : i < j => s[i] < s[j]
  <2>1. PICK t : InOrder(t, S)
    BY SortedExists
  <2>2. t \in [1 .. n -> S] /\ \A i, j \in DOMAIN t : i < j => t[i] < t[j]
    BY <2>1 DEF InOrder
  <2>3. \E u \in [1 .. n -> S] : \A i, j \in DOMAIN u : i < j => u[i] < u[j]
    BY <2>2
  <2>4. s \in [1 .. n -> S] /\ \A i, j \in DOMAIN s : i < j => s[i] < s[j]
    BY <2>3 DEF Sorted
  <2> QED
    BY <2>4
<1> HIDE DEF s
<1>3. \A i, j \in 1 .. n : i # j => s[i] # s[j]
  <2>1. ASSUME NEW i \in 1 .. n, NEW j \in 1 .. n, i # j PROVE s[i] # s[j]
    <3>1. s[i] \in Nat /\ s[j] \in Nat
      BY <1>2
    <3>2. i < j \/ j < i
      BY <1>1, <2>1
    <3>3. s[i] < s[j] \/ s[j] < s[i]
      BY <1>2, <3>2
    <3> QED
      BY <3>1, <3>3
  <2> QED
    BY <2>1
<1>4. s \in Seq(S) /\ ToSet(s) = S
  BY <1>2, <1>3, TakesAll
<1>5. Len(s) = n
  BY <1>1, <1>2
<1> QED
  BY <1>4, <1>5 DEF s

-----------------------------------------------------------------------------
(* The rate folders of a policy.                                              *)
LEMMA RatesOfIs ==
  ASSUME NEW f, NEW loads \in SUBSET Loads
  PROVE  /\ RatesOf(f, loads) \in Seq(Nat)
         /\ \A r : r \in ToSet(RatesOf(f, loads)) <=> <<f, r>> \in loads
<1> DEFINE M == {m \in loads : m[1] = f}
           S == {l[2] : l \in M}
           second == [l \in M |-> l[2]]
<1>1. \A l \in Loads : l = <<l[1], l[2]>> /\ l[2] \in Nat
  BY ResultsAssumption
<1>2. S \in SUBSET Nat
  BY <1>1
<1>3. IsFiniteSet(S)
  <2>1. IsFiniteSet(M)
    <3>1. M \in SUBSET Loads
      OBVIOUS
    <3> QED
      BY <3>1, ResultsAssumption, FS_Subset
  <2>2. second \in Surjection(M, S)
    BY DEF Surjection
  <2> QED
    BY <2>1, <2>2, FS_Surjection
<1>4. RatesOf(f, loads) = Sorted(S)
  BY DEF RatesOf
<1>5. \A r : r \in S <=> <<f, r>> \in loads
  <2>1. ASSUME NEW r, r \in S PROVE <<f, r>> \in loads
    <3>1. PICK l \in M : r = l[2]
      BY <2>1
    <3>2. l = <<f, r>>
      BY <1>1, <3>1
    <3> QED
      BY <3>2
  <2>2. ASSUME NEW r, <<f, r>> \in loads PROVE r \in S
    <3>1. <<f, r>> \in M /\ <<f, r>>[2] = r
      BY <2>2
    <3> QED
      BY <3>1
  <2> QED
    BY <2>1, <2>2
<1> HIDE DEF S
<1>6. Sorted(S) \in Seq(S) /\ ToSet(Sorted(S)) = S
  BY <1>2, <1>3, SortedIs
<1>7. Sorted(S) \in Seq(Nat)
  BY <1>2, <1>6, SeqMonotonic
<1> QED
  BY <1>4, <1>5, <1>6, <1>7

(* An element of a sequence is at one of its places.                          *)
LEMMA ToSetIs ==
  ASSUME NEW S, NEW s \in Seq(S)
  PROVE  /\ Len(s) \in Nat /\ DOMAIN s = 1 .. Len(s)
         /\ \A x : x \in ToSet(s) <=> \E i \in 1 .. Len(s) : x = s[i]
         /\ \A i \in 1 .. Len(s) : s[i] \in S /\ s[i] \in ToSet(s)
<1>1. Len(s) \in Nat /\ DOMAIN s = 1 .. Len(s)
  BY LenProperties
<1>2. \A i \in 1 .. Len(s) : s[i] \in S
  BY ElementOfSeq
<1> QED
  BY <1>1, <1>2 DEF ToSet

LEMMA LoadsOfIs ==
  ASSUME NEW f, NEW loads \in SUBSET Loads
  PROVE  /\ LoadsOf(f, loads) \in Seq(loads)
         /\ \A l \in loads : l[1] = f => l \in ToSet(LoadsOf(f, loads))
<1> DEFINE rs == RatesOf(f, loads)
<1>1. rs \in Seq(Nat) /\ \A r : r \in ToSet(rs) <=> <<f, r>> \in loads
  BY RatesOfIs
<1>2. /\ Len(rs) \in Nat /\ DOMAIN rs = 1 .. Len(rs)
      /\ \A x : x \in ToSet(rs) <=> \E i \in 1 .. Len(rs) : x = rs[i]
  BY <1>1, ToSetIs
<1>3. LoadsOf(f, loads) = [i \in 1 .. Len(rs) |-> <<f, rs[i]>>]
  BY <1>2 DEF LoadsOf
<1> HIDE DEF rs
<1>4. \A i \in 1 .. Len(rs) : <<f, rs[i]>> \in loads
  BY <1>1, <1>2
<1>5. LoadsOf(f, loads) \in Seq(loads)
  BY <1>2, <1>3, <1>4
<1>6. ASSUME NEW l \in loads, l[1] = f PROVE l \in ToSet(LoadsOf(f, loads))
  <2>1. l = <<f, l[2]>>
    BY <1>6, ResultsAssumption
  <2>2. PICK i \in 1 .. Len(rs) : l[2] = rs[i]
    BY <1>1, <1>2, <2>1
  <2>3. l = LoadsOf(f, loads)[i] /\ i \in DOMAIN LoadsOf(f, loads)
    BY <1>3, <2>1, <2>2
  <2> QED
    BY <2>3 DEF ToSet
<1> QED
  BY <1>5, <1>6

-----------------------------------------------------------------------------
(* What is read of a policy's folder.                                         *)
FilesTyped == /\ rated \subseteq Loads
              /\ \A x \in DOMAIN results : results[x] \in Latency /\ results[x].rate = x[2]

ColumnRead(f, c, k) ==
  LET rs == RatesOf(f, {l \in rated : <<l[1], l[2], c, k>> \in DOMAIN results})
  IN  /\ Column(f, c, k) \in Seq(Latency) /\ rs \in Seq(Nat)
      /\ Len(Column(f, c, k)) = Len(rs)
      /\ \A i \in 1 .. Len(rs) : /\ <<f, rs[i], c, k>> \in DOMAIN results
                                 /\ Column(f, c, k)[i] = results[<<f, rs[i], c, k>>]
      /\ \A l \in rated : l[1] = f /\ <<l[1], l[2], c, k>> \in DOMAIN results =>
                            \E i \in 1 .. Len(rs) : rs[i] = l[2]

LEMMA ColumnIs ==
  ASSUME FilesTyped, NEW f, NEW c, NEW k
  PROVE  ColumnRead(f, c, k)
<1> DEFINE loads == {l \in rated : <<l[1], l[2], c, k>> \in DOMAIN results}
           rs == RatesOf(f, loads)
<1>1. loads \in SUBSET Loads
  BY DEF FilesTyped
<1>2. rs \in Seq(Nat) /\ \A r : r \in ToSet(rs) <=> <<f, r>> \in loads
  <2> HIDE DEF loads
  <2> QED
    BY <1>1, RatesOfIs
<1>3. Column(f, c, k) = [i \in DOMAIN rs |-> results[<<f, rs[i], c, k>>]]
  BY DEF Column
<1> HIDE DEF rs
<1>4. /\ Len(rs) \in Nat /\ DOMAIN rs = 1 .. Len(rs)
      /\ \A x : x \in ToSet(rs) <=> \E i \in 1 .. Len(rs) : x = rs[i]
  BY <1>2, ToSetIs
<1>5. \A i \in 1 .. Len(rs) : <<f, rs[i], c, k>> \in DOMAIN results
  <2>1. ASSUME NEW i \in 1 .. Len(rs) PROVE <<f, rs[i], c, k>> \in DOMAIN results
    <3>1. <<f, rs[i]>> \in loads
      BY <1>2, <1>4
    <3> QED
      BY <3>1
  <2> QED
    BY <2>1
<1>6. \A i \in 1 .. Len(rs) : results[<<f, rs[i], c, k>>] \in Latency
  BY <1>5 DEF FilesTyped
<1>7. /\ Column(f, c, k) \in Seq(Latency) /\ Len(Column(f, c, k)) = Len(rs)
      /\ \A i \in 1 .. Len(rs) : Column(f, c, k)[i] = results[<<f, rs[i], c, k>>]
  <2>1. Column(f, c, k) = [i \in 1 .. Len(rs) |-> results[<<f, rs[i], c, k>>]]
    BY <1>3, <1>4
  <2> HIDE DEF loads
  <2> QED
    BY <1>4, <1>6, <2>1
<1>8. ASSUME NEW l \in rated, l[1] = f, <<l[1], l[2], c, k>> \in DOMAIN results
      PROVE  \E i \in 1 .. Len(rs) : rs[i] = l[2]
  <2>1. l \in loads /\ l = <<f, l[2]>>
    BY <1>8, ResultsAssumption DEF FilesTyped
  <2>2. l[2] \in ToSet(rs)
    BY <1>2, <2>1
  <2> QED
    BY <1>4, <2>2
<1> QED
  BY <1>2, <1>5, <1>7, <1>8 DEF rs, ColumnRead

LEMMA EntryIs ==
  ASSUME FilesTyped, NEW f \in Folders, NEW k
  PROVE  /\ Entry(f, k) \in Entries
         /\ Entry(f, k).name = NameOf[f] /\ Entry(f, k).data = PolicyData(f, k)
<1>1. RatedOf(f) \in Seq(Nat)
  BY RatesOfIs DEF RatedOf, FilesTyped
<1>2. \A c \in Columns : Column(f, c, k) \in Seq(Latency)
  BY ColumnIs DEF ColumnRead
<1>3. PolicyData(f, k) \in Data
  BY <1>1, <1>2 DEF PolicyData, Data
<1>4. NameOf[f] \in STRING
  BY ResultsAssumption
<1> QED
  BY <1>3, <1>4 DEF Entry, Entries

-----------------------------------------------------------------------------
(* Types.                                                                     *)
Tests == [gen : Nat, types : SUBSET Types] \cup {Absent}

LEMMA NothingTyped == Nothing \in [Kinds -> Seq(Entries)] /\ <<>> \in Seq(Folders)
<1>1. <<>> \in Seq(Entries) /\ <<>> \in Seq(Folders)
  OBVIOUS
<1> QED
  BY <1>1 DEF Nothing

LEMMA TypesInit == RInit => RTypeOK
<1> SUFFICES ASSUME RInit PROVE RTypeOK
  OBVIOUS
<1>1. test \in [Loads -> Tests] /\ rated = Tested
  BY DEF RInit, Tests, Tested
<1>2. DOMAIN results = {}
  BY DEF RInit
<1>3. meta \in [Kinds -> Seq(Entries) \cup {Absent, Broken}]
  BY DEF RInit
<1>4. todo \in Seq(Loads) /\ ToSet(todo) = {} /\ writing \in Seq(Columns \X Kinds)
  BY DEF RInit, ToSet
<1>5. turns \in 0 .. MaxTurns /\ apart \in BOOLEAN /\ pc = "idle"
  <2>1. turns = 0 /\ MaxTurns \in Nat
    BY ResultsAssumption DEF RInit
  <2>2. turns \in 0 .. MaxTurns
    BY <2>1
  <2>3. apart = FALSE /\ pc = "idle"
    BY DEF RInit
  <2> QED
    BY <2>2, <2>3
<1>6. /\ args \in Seq(Folders) /\ policys \in Seq(Folders)
      /\ memory \in [Kinds -> Seq(Entries)] /\ was \in [Kinds -> Seq(Entries)]
  BY NothingTyped DEF RInit
<1> QED
  BY <1>1, <1>2, <1>3, <1>4, <1>5, <1>6 DEF RTypeOK, Tests, Tested

(* The user: a turn leaves the run's own variables at rest.                   *)
LEMMA TurnTyped ==
  ASSUME RTypeOK, UserTurn
  PROVE  /\ turns' \in 0 .. MaxTurns /\ turns' \in Nat /\ pc' = "idle" /\ args' \in Seq(Folders)
         /\ was' \in [Kinds -> Seq(Entries)]
  BY NothingTyped, ResultsAssumption DEF RTypeOK, UserTurn

LEMMA ExperimentTyped ==
  ASSUME RTypeOK, Experiment, todo = <<>>
  PROVE  RTypeOK'
<1>1. PICK l \in Loads, ts \in SUBSET Types, emptied \in BOOLEAN :
        /\ UserTurn
        /\ test' = [test EXCEPT ![l] = [gen |-> turns', types |-> ts]]
        /\ rated' = rated \cup {l}
        /\ results' = IF emptied
                      THEN [f \in {g \in DOMAIN results : <<g[1], g[2]>> # l} |-> results[f]]
                      ELSE results
        /\ UNCHANGED <<meta, policys, todo, writing, memory, apart>>
  BY DEF Experiment
<1>2. /\ turns' \in 0 .. MaxTurns /\ turns' \in Nat /\ pc' = "idle" /\ args' \in Seq(Folders)
      /\ was' \in [Kinds -> Seq(Entries)]
  BY <1>1, TurnTyped
<1>3. test \in [Loads -> Tests] /\ rated \subseteq Loads /\ Tested \subseteq rated
  BY DEF RTypeOK, Tests, Tested
<1>4. test' \in [Loads -> Tests]
  <2>1. [gen |-> turns', types |-> ts] \in Tests
    BY <1>2 DEF Tests
  <2> QED
    BY <1>1, <1>3, <2>1
<1>5. rated' \subseteq Loads /\ Tested' \subseteq rated'
  <2>1. \A m \in Loads : m # l => test'[m] = test[m]
    BY <1>1, <1>3
  <2> QED
    BY <1>1, <1>3, <2>1 DEF Tested
<1>6. \A x \in DOMAIN results' : x \in DOMAIN results /\ results'[x] = results[x]
  BY <1>1
<1>7. /\ DOMAIN results' \subseteq Folders \X Nat \X Columns \X Kinds
      /\ \A x \in DOMAIN results' : results'[x] \in Latency /\ results'[x].rate = x[2]
  BY <1>6 DEF RTypeOK
<1>8. todo' \in Seq(Loads) /\ ToSet(todo') = {}
  BY <1>1 DEF ToSet
<1> QED
  BY <1>1, <1>2, <1>4, <1>5, <1>7, <1>8 DEF RTypeOK, Tests, Tested

LEMMA CleanTyped ==
  ASSUME RTypeOK, Clean, todo = <<>>
  PROVE  RTypeOK'
<1>1. PICK f \in Folders :
        /\ UserTurn
        /\ test' = [l \in Loads |-> IF l[1] = f THEN Absent ELSE test[l]]
        /\ UNCHANGED <<rated, results, meta, policys, todo, writing, memory, apart>>
  BY DEF Clean
<1>2. /\ turns' \in 0 .. MaxTurns /\ pc' = "idle" /\ args' \in Seq(Folders)
      /\ was' \in [Kinds -> Seq(Entries)]
  BY <1>1, TurnTyped
<1>3. test \in [Loads -> Tests] /\ rated \subseteq Loads /\ Tested \subseteq rated
  BY DEF RTypeOK, Tests, Tested
<1>4. test' \in [Loads -> Tests]
  BY <1>1, <1>3 DEF Tests
<1>5. Tested' \subseteq rated'
  BY <1>1, <1>3 DEF Tested
<1>6. todo' \in Seq(Loads) /\ ToSet(todo') = {}
  BY <1>1 DEF ToSet
<1> QED
  BY <1>1, <1>2, <1>4, <1>5, <1>6 DEF RTypeOK, Tests, Tested

LEMMA SaveTyped ==
  ASSUME RTypeOK, NEW k \in Kinds, NEW data \in Seq(Entries), Save(k, data)
  PROVE  RTypeOK'
<1>1. PICK saved \in {data, Broken} :
        /\ UserTurn /\ meta' = [meta EXCEPT ![k] = saved] /\ apart' = TRUE
        /\ UNCHANGED <<test, rated, results, policys, todo, writing, memory>>
  BY DEF Save
<1>2. /\ turns' \in 0 .. MaxTurns /\ pc' = "idle" /\ args' \in Seq(Folders)
      /\ was' \in [Kinds -> Seq(Entries)]
  BY <1>1, TurnTyped
<1>3. meta' \in [Kinds -> Seq(Entries) \cup {Absent, Broken}]
  BY <1>1 DEF RTypeOK
<1>4. Tested' = Tested
  BY <1>1 DEF Tested
<1> QED
  BY <1>1, <1>2, <1>3, <1>4 DEF RTypeOK

(* The entry that an edit by name is about.                                   *)
LEMMA FirstIs ==
  ASSUME RTypeOK, NEW k \in Kinds, NEW name \in Known(k)
  PROVE  meta[k] \in Seq(Entries) /\ First(k, name) \in 1 .. Len(meta[k])
<1>1. meta[k] \in Seq(Entries)
  <2>1. meta[k] \in Seq(Entries) \cup {Absent, Broken}
    BY DEF RTypeOK
  <2>2. ASSUME meta[k] \in {Absent, Broken} PROVE FALSE
    <3>1. NamesOf(meta[k]) = <<>>
      BY <2>2 DEF NamesOf
    <3> QED
      BY <3>1 DEF Known, ToSet
  <2> QED
    BY <2>1, <2>2
<1>2. /\ Len(meta[k]) \in Nat /\ DOMAIN meta[k] = 1 .. Len(meta[k])
      /\ meta[k] \notin {Absent, Broken}
  BY <1>1, LenProperties, ResultsAssumption
<1>3. PICK i \in 1 .. Len(meta[k]) : meta[k][i].name = name
  BY <1>2 DEF Known, NamesOf, ToSet
<1> DEFINE S == At(meta[k], name)
<1>4. S \subseteq Nat /\ S # {} /\ S \subseteq 1 .. Len(meta[k])
  BY <1>2, <1>3 DEF At
<1>5. PICK j \in S : \A m \in S : j <= m
  BY <1>4, Least
<1>6. meta[k][j].name = name /\ \A m \in 1 .. j - 1 : meta[k][m].name # name
  <2>1. ASSUME NEW m \in 1 .. j - 1, meta[k][m].name = name PROVE FALSE
    <3>1. m \in S /\ ~(j <= m)
      BY <1>2, <1>4, <2>1 DEF At
    <3> HIDE DEF S
    <3> QED
      BY <1>5, <3>1
  <2>2. meta[k][j].name = name
    BY DEF At
  <2> QED
    BY <2>1, <2>2
<1>7. j \in DOMAIN meta[k]
  BY <1>2, <1>4
<1>8. First(k, name) \in DOMAIN meta[k]
  BY <1>6, <1>7 DEF First
<1> QED
  BY <1>1, <1>2, <1>8

LEMMA UserTyped ==
  ASSUME RTypeOK, User, todo = <<>>
  PROVE  RTypeOK'
<1>1. CASE Experiment
  BY <1>1, ExperimentTyped
<1>2. CASE Clean
  BY <1>2, CleanTyped
<1>3. CASE Rename
  <2>1. PICK k \in Kinds : \E old \in Known(k), new \in {NameOf[f] : f \in Folders} :
          Save(k, [meta[k] EXCEPT ![First(k, old)].name = new])
    BY <1>3 DEF Rename
  <2>2. PICK old \in Known(k), new \in {NameOf[f] : f \in Folders} :
          Save(k, [meta[k] EXCEPT ![First(k, old)].name = new])
    BY <2>1
  <2> DEFINE i == First(k, old)
             e == [meta[k][i] EXCEPT !.name = new]
  <2>3. meta[k] \in Seq(Entries) /\ i \in 1 .. Len(meta[k])
    BY FirstIs
  <2>4. new \in STRING
    BY ResultsAssumption
  <2>5. meta[k][i] \in Entries
    BY <2>3, ElementOfSeq
  <2>6. e \in Entries
    BY <2>4, <2>5 DEF Entries
  <2>7. [meta[k] EXCEPT ![i].name = new] = [meta[k] EXCEPT ![i] = e]
    OBVIOUS
  <2> HIDE DEF i, e
  <2>8. [meta[k] EXCEPT ![i] = e] \in Seq(Entries)
    BY <2>3, <2>6, ExceptSeq
  <2>9. Save(k, [meta[k] EXCEPT ![i] = e])
    BY <2>2, <2>7 DEF i
  <2> QED
    BY <2>8, <2>9, SaveTyped
<1>4. CASE Delete
  <2>1. PICK k \in Kinds : \E name \in Known(k) : Save(k, RemoveAt(meta[k], First(k, name)))
    BY <1>4 DEF Delete
  <2>2. PICK name \in Known(k) : Save(k, RemoveAt(meta[k], First(k, name)))
    BY <2>1
  <2>3. meta[k] \in Seq(Entries) /\ First(k, name) \in 1 .. Len(meta[k])
    BY FirstIs
  <2>4. RemoveAt(meta[k], First(k, name)) \in Seq(Entries)
    BY <2>3, RemoveAtIs
  <2> QED
    BY <2>2, <2>4, SaveTyped
<1>5. CASE Concat
  <2>1. PICK k \in Kinds, other \in Others :
          meta[k] \notin {Absent, Broken} /\ Save(k, meta[k] \o other)
    BY <1>5 DEF Concat
  <2>2. meta[k] \in Seq(Entries) /\ other \in Seq(Entries)
    BY <2>1, ResultsAssumption DEF RTypeOK
  <2>3. meta[k] \o other \in Seq(Entries)
    BY <2>2, ConcatProperties
  <2> QED
    BY <2>1, <2>3, SaveTyped
<1> QED
  BY <1>1, <1>2, <1>3, <1>4, <1>5 DEF User

LEMMA StartTyped ==
  ASSUME RTypeOK, Start
  PROVE  /\ RTypeOK'
         /\ \A l \in Tested : l[1] \in ToSet(args') => l \in ToSet(todo')
<1>1. PICK a \in ArgLists :
        /\ turns < MaxTurns /\ turns' = turns + 1
        /\ args' = a /\ policys' = a
        /\ todo' = FlattenSeq([i \in DOMAIN a |-> TestsOf(a[i])])
        /\ apart' = (NamesOf(meta["latency"]) # NamesOf(meta["slowdown"]))
        /\ was' = Nothing
        /\ pc' = "test"
        /\ UNCHANGED <<files, writing, memory>>
  BY DEF Start
<1>2. a \in Seq(Folders)
  BY ResultsAssumption
<1>3. Len(a) \in Nat /\ DOMAIN a = 1 .. Len(a)
  BY <1>2, LenProperties
<1>4. Tested \in SUBSET Loads
  BY DEF Tested
<1> DEFINE seqs == [i \in DOMAIN a |-> TestsOf(a[i])]
<1>5. \A f : /\ TestsOf(f) \in Seq(Tested)
             /\ \A l \in Tested : l[1] = f => l \in ToSet(TestsOf(f))
  BY <1>4, LoadsOfIs, Zenon DEF TestsOf
<1>6. seqs = [i \in 1 .. Len(a) |-> TestsOf(a[i])] /\ seqs \in Seq(Seq(Tested)) /\ Len(seqs) = Len(a)
  <2>1. seqs = [i \in 1 .. Len(a) |-> TestsOf(a[i])]
    BY <1>3
  <2>2. \A i \in 1 .. Len(a) : TestsOf(a[i]) \in Seq(Tested)
    BY <1>5
  <2> QED
    BY <1>3, <2>1, <2>2
<1> HIDE DEF seqs
<1>7. /\ FlattenSeq(seqs) \in Seq(Tested)
      /\ \A x : x \in ToSet(FlattenSeq(seqs)) <=> \E i \in 1 .. Len(seqs) : x \in ToSet(seqs[i])
  BY <1>6, FlattenIs
<1>8. todo' \in Seq(Tested)
  BY <1>1, <1>7 DEF seqs
<1>9. todo' \in Seq(Loads) /\ ToSet(todo') \subseteq Tested'
  <2>1. todo' \in Seq(Loads)
    BY <1>4, <1>8, SeqMonotonic
  <2>2. ToSet(todo') \subseteq Tested
    BY <1>8, LenProperties DEF ToSet
  <2>3. Tested' = Tested
    BY <1>1 DEF Tested, files
  <2> QED
    BY <2>1, <2>2, <2>3
<1>10. ASSUME NEW l \in Tested, l[1] \in ToSet(args') PROVE l \in ToSet(todo')
  <2>1. PICK i \in 1 .. Len(a) : l[1] = a[i]
    BY <1>1, <1>3, <1>10 DEF ToSet
  <2>2. l \in ToSet(seqs[i])
    BY <1>5, <1>6, <2>1
  <2>3. l \in ToSet(FlattenSeq(seqs))
    BY <1>6, <1>7, <2>1, <2>2
  <2> QED
    BY <1>1, <2>3 DEF seqs
<1>11. turns' \in 0 .. MaxTurns
  <2>1. turns \in 0 .. MaxTurns /\ MaxTurns \in Nat
    BY ResultsAssumption DEF RTypeOK
  <2> QED
    BY <1>1, <2>1
<1>12. apart' \in BOOLEAN
  BY <1>1
<1>13. was' \in [Kinds -> Seq(Entries)] /\ args' \in Seq(Folders) /\ policys' \in Seq(Folders)
  BY <1>1, <1>2, NothingTyped
<1>14. RTypeOK'
  BY <1>1, <1>9, <1>11, <1>12, <1>13 DEF RTypeOK, files, Tested
<1> QED
  BY <1>10, <1>14

LEMMA DieTyped ==
  ASSUME RTypeOK, Die, UNCHANGED <<files, turns>>, apart' \in BOOLEAN
  PROVE  RTypeOK'
<1>1. ToSet(<<>>) = {}
  BY DEF ToSet
<1>2. /\ pc' = "idle" /\ policys' = <<>> /\ todo' = <<>> /\ writing' = <<>>
      /\ memory' = Nothing /\ args' = <<>> /\ was' = Nothing
  BY DEF Die
<1>3. ToSet(todo') \subseteq Tested' /\ todo' \in Seq(Loads) /\ writing' \in Seq(Columns \X Kinds)
  BY <1>1, <1>2
<1>4. /\ args' \in Seq(Folders) /\ policys' \in Seq(Folders)
      /\ memory' \in [Kinds -> Seq(Entries)] /\ was' \in [Kinds -> Seq(Entries)]
  BY <1>2, NothingTyped
<1> QED
  BY <1>2, <1>3, <1>4 DEF RTypeOK, files, Tested

(* What process_test has to write for a test it can read.                     *)
LEMMA ReadTestIs ==
  ASSUME RTypeOK, ReadTest, test[Head(todo)].types # {}
  PROVE  /\ pc = "test" /\ todo # <<>> /\ pc' = "write"
         /\ UNCHANGED <<files, policys, todo, memory, hist>>
         /\ writing' \in Seq(Columns \X Kinds) /\ writing' # <<>>
         /\ \A c \in Columns, k \in Kinds : Answers(Head(todo), c) => <<c, k>> \in ToSet(writing')
<1> DEFINE t == test[Head(todo)]
<1>1. PICK order \in SetToSeqs(t.types) :
        /\ writing' = FlattenSeq([i \in 1 .. Len(order) + 1 |->
             LET c == (<<All>> \o order)[i] IN <<<<c, "latency">>, <<c, "slowdown">>>>])
        /\ pc' = "write"
        /\ UNCHANGED <<policys, todo, memory, args, was>>
  BY DEF ReadTest
<1>2. Head(todo) \in Loads /\ Head(todo) \in Tested
  <2>1. todo \in Seq(Loads) /\ todo # <<>> /\ ToSet(todo) \subseteq Tested
    BY DEF RTypeOK, ReadTest
  <2>2. Head(todo) = todo[1] /\ 1 \in DOMAIN todo
    BY <2>1, LenProperties
  <2>3. Head(todo) \in ToSet(todo)
    BY <2>2 DEF ToSet
  <2> QED
    BY <2>1, <2>3 DEF Tested
<1>3. t.types \subseteq Types /\ IsFiniteSet(t.types) /\ t # Absent
  <2>1. t # Absent /\ t \in [gen : Nat, types : SUBSET Types] \cup {Absent}
    BY <1>2 DEF RTypeOK, Tested
  <2>2. t.types \in SUBSET Types
    BY <2>1
  <2> HIDE DEF t
  <2> QED
    BY <2>1, <2>2, ResultsAssumption, FS_Subset
<1> HIDE DEF t
<1>4. order \in Seq(t.types) /\ ToSet(order) = t.types
  <2>1. /\ order \in [1 .. Cardinality(t.types) -> t.types]
        /\ \A i, j \in 1 .. Cardinality(t.types) : i # j => order[i] # order[j]
    BY DEF SetToSeqs
  <2> QED
    BY <1>3, <2>1, TakesAll
<1> DEFINE cs == <<All>> \o order
           pair(c) == <<<<c, "latency">>, <<c, "slowdown">>>>
           seqs == [i \in 1 .. Len(order) + 1 |-> pair(cs[i])]
<1>5. /\ Len(order) \in Nat /\ Len(cs) = Len(order) + 1 /\ cs \in Seq(Columns)
      /\ \A c : c = All \/ c \in t.types => \E i \in 1 .. Len(order) + 1 : cs[i] = c
  <2>1. /\ Len(order) \in Nat
        /\ \A c : c \in t.types <=> \E i \in 1 .. Len(order) : c = order[i]
    BY <1>4, ToSetIs
  <2>2. <<All>> \in Seq(Columns) /\ Len(<<All>>) = 1 /\ <<All>>[1] = All
    BY DEF Columns
  <2>3. order \in Seq(Columns)
    BY <1>3, <1>4, SeqMonotonic DEF Columns
  <2> DEFINE one == <<All>>
  <2> HIDE DEF one
  <2>4. /\ one \o order \in Seq(Columns) /\ Len(one \o order) = 1 + Len(order)
        /\ \A i \in 1 .. 1 + Len(order) :
             (one \o order)[i] = IF i <= 1 THEN one[i] ELSE order[i - 1]
    <3>1. one \in Seq(Columns) /\ Len(one) = 1
      BY <2>2 DEF one
    <3>2. /\ one \o order \in Seq(Columns) /\ Len(one \o order) = Len(one) + Len(order)
          /\ \A i \in 1 .. Len(one) + Len(order) :
               (one \o order)[i] = IF i <= Len(one) THEN one[i] ELSE order[i - Len(one)]
      BY <2>3, <3>1, ConcatProperties
    <3> QED
      BY <3>1, <3>2
  <2>5. cs = one \o order /\ one[1] = All
    BY <2>2 DEF one
  <2> HIDE DEF cs
  <2>6. Len(cs) = Len(order) + 1 /\ cs \in Seq(Columns)
    BY <2>1, <2>4, <2>5
  <2>7. cs[1] = All /\ 1 \in 1 .. Len(order) + 1
    BY <2>1, <2>4, <2>5
  <2>8. ASSUME NEW c \in t.types PROVE \E i \in 1 .. Len(order) + 1 : cs[i] = c
    <3>1. PICK i \in 1 .. Len(order) : c = order[i]
      BY <2>1
    <3>2. i + 1 \in 1 .. 1 + Len(order) /\ ~(i + 1 <= 1) /\ (i + 1) - 1 = i
      BY <2>1
    <3>3. cs[i + 1] = order[i]
      BY <2>4, <2>5, <3>2
    <3> QED
      BY <2>1, <3>1, <3>2, <3>3
  <2> QED
    BY <2>1, <2>6, <2>7, <2>8
<1>6. seqs \in Seq(Seq(Columns \X Kinds)) /\ Len(seqs) = Len(order) + 1
  <2>1. ASSUME NEW i \in 1 .. Len(order) + 1 PROVE pair(cs[i]) \in Seq(Columns \X Kinds)
    <3>1. cs[i] \in Columns
      BY <1>5, ElementOfSeq
    <3>2. <<cs[i], "latency">> \in Columns \X Kinds /\ <<cs[i], "slowdown">> \in Columns \X Kinds
      BY <3>1 DEF Kinds
    <3> HIDE DEF cs
    <3> QED
      BY <3>2
  <2>2. Len(order) + 1 \in Nat
    BY <1>5
  <2> HIDE DEF pair, cs
  <2> QED
    BY <2>1, <2>2
<1>7. \A i \in 1 .. Len(order) + 1, k \in Kinds : <<cs[i], k>> \in ToSet(seqs[i])
  <2>1. ASSUME NEW i \in 1 .. Len(order) + 1 PROVE seqs[i] = pair(cs[i])
    OBVIOUS
  <2>2. \A c : <<c, "latency">> \in ToSet(pair(c)) /\ <<c, "slowdown">> \in ToSet(pair(c))
    <3>1. ASSUME NEW c PROVE <<c, "latency">> \in ToSet(pair(c)) /\ <<c, "slowdown">> \in ToSet(pair(c))
      <4>1. /\ 1 \in DOMAIN pair(c) /\ pair(c)[1] = <<c, "latency">>
            /\ 2 \in DOMAIN pair(c) /\ pair(c)[2] = <<c, "slowdown">>
        OBVIOUS
      <4> HIDE DEF pair
      <4>2. pair(c)[1] \in ToSet(pair(c)) /\ pair(c)[2] \in ToSet(pair(c))
        BY <4>1, Zenon DEF ToSet
      <4> QED
        BY <4>1, <4>2
    <3> QED
      BY <3>1
  <2> HIDE DEF pair, cs, seqs
  <2> QED
    BY <2>1, <2>2 DEF Kinds
<1> HIDE DEF seqs
<1>8. /\ FlattenSeq(seqs) \in Seq(Columns \X Kinds)
      /\ \A x : x \in ToSet(FlattenSeq(seqs)) <=> \E i \in 1 .. Len(seqs) : x \in ToSet(seqs[i])
  BY <1>6, FlattenIs
<1>9. writing' = FlattenSeq(seqs)
  BY <1>1 DEF seqs
<1> HIDE DEF cs, pair
<1>10. ASSUME NEW c \in Columns, NEW k \in Kinds, c = All \/ c \in t.types
       PROVE  <<c, k>> \in ToSet(writing')
  <2>1. PICK i \in 1 .. Len(order) + 1 : cs[i] = c
    BY <1>5, <1>10
  <2> QED
    BY <1>6, <1>7, <1>8, <1>9, <2>1
<1>11. writing' # <<>>
  <2>1. <<All, "latency">> \in ToSet(writing')
    BY <1>10 DEF Columns, Kinds
  <2> QED
    BY <2>1 DEF ToSet
<1>12. \A c : Answers(Head(todo), c) => c = All \/ c \in t.types
  BY DEF Answers, t
<1>13. pc = "test" /\ todo # <<>> /\ UNCHANGED <<files, apart, turns>>
  BY DEF ReadTest
<1> QED
  BY <1>1, <1>8, <1>9, <1>10, <1>11, <1>12, <1>13 DEF hist

LEMMA ReadTestTyped == ASSUME RTypeOK, ReadTest PROVE RTypeOK'
<1>1. CASE test[Head(todo)].types = {}
  <2>1. Die /\ UNCHANGED <<files, turns>> /\ apart' = apart
    BY <1>1 DEF ReadTest
  <2>2. apart \in BOOLEAN
    BY DEF RTypeOK
  <2> QED
    BY <2>1, <2>2, DieTyped
<1>2. CASE test[Head(todo)].types # {}
  <2>1. /\ todo # <<>> /\ pc' = "write" /\ UNCHANGED <<files, policys, todo, memory, hist>>
        /\ writing' \in Seq(Columns \X Kinds) /\ writing' # <<>>
    BY <1>2, ReadTestIs
  <2> QED
    BY <2>1 DEF RTypeOK, files, hist, Tested
<1> QED
  BY <1>1, <1>2

(* The head of a sequence and what is left of it.                             *)
LEMMA HeadTailIs ==
  ASSUME NEW S, NEW s \in Seq(S), s # <<>>
  PROVE  /\ Head(s) \in S /\ Head(s) \in ToSet(s) /\ Tail(s) \in Seq(S)
         /\ \A x : x \in ToSet(s) <=> x = Head(s) \/ x \in ToSet(Tail(s))
         /\ Len(s) \in Nat \ {0} /\ Len(Tail(s)) = Len(s) - 1
         /\ Len(s) # 1 => Tail(s) # <<>>
         /\ Len(s) = 1 => ToSet(Tail(s)) = {}
<1>1. /\ Len(s) \in Nat \ {0} /\ DOMAIN s = 1 .. Len(s) /\ Head(s) = s[1] /\ Head(s) \in S
      /\ Tail(s) \in Seq(S) /\ Len(Tail(s)) = Len(s) - 1
      /\ \A i \in 1 .. Len(s) - 1 : Tail(s)[i] = s[i + 1]
  BY HeadTailProperties, LenProperties, EmptySeq
<1> DEFINE t == Tail(s)
           h == Head(s)
<1>2. DOMAIN t = 1 .. Len(s) - 1
  BY <1>1, LenProperties
<1> HIDE DEF t, h
<1>3. h = s[1] /\ h \in ToSet(s)
  BY <1>1 DEF h, ToSet
<1>4. ASSUME NEW x \in ToSet(s) PROVE x = h \/ x \in ToSet(t)
  <2>1. PICK i \in 1 .. Len(s) : x = s[i]
    BY <1>1 DEF ToSet
  <2>2. CASE i = 1
    BY <1>3, <2>1, <2>2
  <2>3. CASE i # 1
    <3>1. i - 1 \in 1 .. Len(s) - 1 /\ (i - 1) + 1 = i
      BY <1>1, <2>3
    <3>2. t[i - 1] = s[i]
      BY <1>1, <3>1 DEF t
    <3>3. i - 1 \in DOMAIN t /\ t[i - 1] = x
      BY <1>2, <2>1, <3>1, <3>2
    <3> QED
      BY <3>3 DEF ToSet
  <2> QED
    BY <2>2, <2>3
<1>5. ASSUME NEW x \in ToSet(t) PROVE x \in ToSet(s)
  <2>1. PICK i \in 1 .. Len(s) - 1 : x = t[i]
    BY <1>2 DEF ToSet
  <2>2. i + 1 \in 1 .. Len(s) /\ t[i] = s[i + 1]
    BY <1>1 DEF t
  <2>3. i + 1 \in DOMAIN s /\ s[i + 1] = x
    BY <1>1, <2>1, <2>2
  <2> QED
    BY <2>3 DEF ToSet
<1>6. ASSUME Len(s) # 1 PROVE t # <<>>
  <2>1. Len(t) = Len(s) - 1 /\ Len(<<>>) = 0
    BY <1>1 DEF t
  <2>2. Len(t) # 0
    BY <1>1, <1>6, <2>1
  <2> QED
    BY <2>1, <2>2
<1>7. ASSUME Len(s) = 1 PROVE ToSet(t) = {}
  <2>1. DOMAIN t = {}
    BY <1>2, <1>7
  <2> QED
    BY <2>1 DEF ToSet
<1> QED
  BY <1>1, <1>3, <1>4, <1>5, <1>6, <1>7 DEF t, h

LEMMA WriteResultIs ==
  ASSUME RTypeOK, WriteResult
  PROVE  LET l == Head(todo)
             w == Head(writing)
             file == <<l[1], l[2], w[1], w[2]>>
         IN  /\ l \in Tested /\ l \in Loads /\ w \in Columns \X Kinds
             /\ DOMAIN results' = DOMAIN results \cup {file}
             /\ results'[file] = [rate |-> l[2], gen |-> test[l].gen]
             /\ \A x \in DOMAIN results : x # file => results'[x] = results[x]
             /\ UNCHANGED <<test, rated, meta, policys, memory, hist>>
             /\ writing' = Tail(writing)
<1> DEFINE l == Head(todo)
           w == Head(writing)
           file == <<l[1], l[2], w[1], w[2]>>
<1>1. /\ todo \in Seq(Loads) /\ todo # <<>> /\ ToSet(todo) \subseteq Tested
      /\ writing \in Seq(Columns \X Kinds) /\ writing # <<>>
  BY DEF RTypeOK, WriteResult
<1>2. l \in Tested /\ l \in Loads
  BY <1>1, HeadTailIs DEF Tested
<1>3. w \in Columns \X Kinds
  BY <1>1, HeadTailIs
<1>4. results' = [x \in DOMAIN results \cup {file} |->
                    IF x = file THEN [rate |-> l[2], gen |-> test[l].gen] ELSE results[x]]
  BY DEF WriteResult
<1> HIDE DEF file
<1>5. /\ DOMAIN results' = DOMAIN results \cup {file}
      /\ results'[file] = [rate |-> l[2], gen |-> test[l].gen]
      /\ \A x \in DOMAIN results : x # file => results'[x] = results[x]
  BY <1>4
<1>6. UNCHANGED <<test, rated, meta, policys, memory, hist>> /\ writing' = Tail(writing)
  BY DEF WriteResult
<1> QED
  BY <1>2, <1>3, <1>5, <1>6, Zenon DEF file

LEMMA WriteResultTyped == ASSUME RTypeOK, WriteResult PROVE RTypeOK'
<1> DEFINE l == Head(todo)
           w == Head(writing)
           file == <<l[1], l[2], w[1], w[2]>>
<1>1. /\ l \in Tested /\ l \in Loads /\ w \in Columns \X Kinds
      /\ DOMAIN results' = DOMAIN results \cup {file}
      /\ results'[file] = [rate |-> l[2], gen |-> test[l].gen]
      /\ \A x \in DOMAIN results : x # file => results'[x] = results[x]
      /\ UNCHANGED <<test, rated, meta, policys, memory, hist>>
      /\ writing' = Tail(writing)
  BY WriteResultIs, Zenon
<1>2. file \in Folders \X Nat \X Columns \X Kinds /\ file[2] = l[2] /\ l[2] \in Nat
  BY <1>1, ResultsAssumption
<1>3. test[l].gen \in Nat
  BY <1>1 DEF RTypeOK, Tested
<1>4. results'[file] \in Latency /\ results'[file].rate = l[2]
  BY <1>1, <1>2, <1>3 DEF Latency
<1> HIDE DEF file, l, w
<1>5. /\ DOMAIN results' \subseteq Folders \X Nat \X Columns \X Kinds
      /\ \A x \in DOMAIN results' : results'[x] \in Latency /\ results'[x].rate = x[2]
  <2>1. /\ DOMAIN results \subseteq Folders \X Nat \X Columns \X Kinds
        /\ \A x \in DOMAIN results : results[x] \in Latency /\ results[x].rate = x[2]
    BY DEF RTypeOK
  <2>2. DOMAIN results' \subseteq Folders \X Nat \X Columns \X Kinds
    BY <1>1, <1>2, <2>1
  <2>3. ASSUME NEW x \in DOMAIN results' PROVE results'[x] \in Latency /\ results'[x].rate = x[2]
    <3>1. CASE x = file
      BY <1>2, <1>4, <3>1
    <3>2. CASE x # file
      BY <1>1, <2>1, <3>2
    <3> QED
      BY <3>1, <3>2
  <2> QED
    BY <2>2, <2>3
<1>6. /\ todo \in Seq(Loads) /\ todo # <<>> /\ ToSet(todo) \subseteq Tested
      /\ writing \in Seq(Columns \X Kinds) /\ writing # <<>>
  BY DEF RTypeOK, WriteResult
<1>7. writing' \in Seq(Columns \X Kinds) /\ (Len(writing) # 1 => writing' # <<>>)
  BY <1>1, <1>6, HeadTailIs
<1>8. Tail(todo) \in Seq(Loads) /\ ToSet(Tail(todo)) \subseteq Tested
  BY <1>6, HeadTailIs
<1>9. Tested' = Tested
  BY <1>1 DEF Tested
<1>10. todo' \in Seq(Loads) /\ ToSet(todo') \subseteq Tested'
  BY <1>6, <1>8, <1>9 DEF WriteResult
<1>11. pc' \in {"test", "write"} /\ (pc' = "write" => todo' # <<>> /\ writing' # <<>>)
  BY <1>6, <1>7 DEF WriteResult
<1> QED
  BY <1>1, <1>5, <1>7, <1>10, <1>11 DEF RTypeOK, hist

LEMMA ReadMetaTyped == ASSUME RTypeOK, ReadMeta PROVE RTypeOK'
<1>1. UNCHANGED <<files, apart, turns>>
  BY DEF ReadMeta
<1>2. apart \in BOOLEAN
  BY DEF RTypeOK
<1>3. CASE pc' = "update" /\ UNCHANGED <<policys, todo, writing, memory, args, was>>
  BY <1>1, <1>3 DEF RTypeOK, files, Tested
<1>4. CASE Die
  BY <1>1, <1>2, <1>4, DieTyped
<1>5. CASE /\ ~ \E k \in Kinds : meta[k] = Absent
           /\ ~ \E k \in Kinds : meta[k] = Broken
           /\ memory' = meta /\ was' = meta /\ pc' = "update"
           /\ UNCHANGED <<policys, todo, writing, args>>
  <2>1. meta \in [Kinds -> Seq(Entries)]
    BY <1>5 DEF RTypeOK
  <2> QED
    BY <1>1, <1>5, <2>1 DEF RTypeOK, files, Tested
<1> QED
  BY <1>3, <1>4, <1>5 DEF ReadMeta

(* One turn of the loop over the policies.                                    *)
LEMMA UpdateIs ==
  ASSUME RTypeOK, UpdatePolicy
  PROVE  LET f == Head(policys)
         IN  /\ f \in Folders /\ Tail(policys) \in Seq(Folders) /\ FilesTyped
             /\ \A k \in Kinds : /\ memory[k] \in Seq(Entries)
                                 /\ memory'[k] = Append(RemoveIfPresent(NameOf[f], memory[k]), Entry(f, k))
                                 /\ memory'[k] \in Seq(Entries)
             /\ memory' \in [Kinds -> Seq(Entries)]
             /\ policys' = Tail(policys) /\ policys # <<>> /\ pc = "update" /\ pc' = "update"
             /\ UNCHANGED <<files, todo, writing, hist>>
<1> DEFINE f == Head(policys)
<1>1. f \in Folders /\ Tail(policys) \in Seq(Folders)
  <2>1. policys \in Seq(Folders) /\ policys # <<>>
    BY DEF RTypeOK, UpdatePolicy
  <2> QED
    BY <2>1, HeadTailIs
<1>2. FilesTyped
  BY DEF RTypeOK, FilesTyped
<1>3. memory' = [k \in Kinds |-> Append(RemoveIfPresent(NameOf[f], memory[k]), Entry(f, k))]
  BY DEF UpdatePolicy
<1> HIDE DEF f
<1>4. ASSUME NEW k \in Kinds
      PROVE  /\ memory[k] \in Seq(Entries)
             /\ Append(RemoveIfPresent(NameOf[f], memory[k]), Entry(f, k)) \in Seq(Entries)
  <2>1. memory[k] \in Seq(Entries)
    BY DEF RTypeOK
  <2>2. Entry(f, k) \in Entries
    BY <1>1, <1>2, EntryIs
  <2>3. RemoveIfPresent(NameOf[f], memory[k]) \in Seq(Entries)
    BY <2>1, RemoveIs, Zenon
  <2> QED
    BY <2>1, <2>2, <2>3, AppendProperties
<1>5. memory' \in [Kinds -> Seq(Entries)]
  BY <1>3, <1>4
<1>6. \A k \in Kinds : /\ memory'[k] = Append(RemoveIfPresent(NameOf[f], memory[k]), Entry(f, k))
                       /\ memory'[k] \in Seq(Entries)
  BY <1>3, <1>4
<1>7. /\ policys' = Tail(policys) /\ policys # <<>> /\ pc = "update" /\ pc' = "update"
      /\ UNCHANGED <<files, todo, writing, hist>>
  BY DEF UpdatePolicy
<1> QED
  BY <1>1, <1>2, <1>4, <1>5, <1>6, <1>7, Zenon DEF f

LEMMA UpdateTyped == ASSUME RTypeOK, UpdatePolicy PROVE RTypeOK'
<1>1. /\ policys' \in Seq(Folders) /\ memory' \in [Kinds -> Seq(Entries)] /\ pc' = "update"
      /\ UNCHANGED <<files, todo, writing, hist>>
  BY UpdateIs
<1> QED
  BY <1>1 DEF RTypeOK, files, hist, Tested

(* The two files are written one after the other.                             *)
LEMMA OpenTyped ==
  ASSUME RTypeOK, NEW k \in Kinds, NEW from, NEW to \in {"dump", "dumpSlow"}, OpenAs(from, to, k)
  PROVE  RTypeOK'
<1>1. meta' \in [Kinds -> Seq(Entries) \cup {Absent, Broken}] /\ pc' = to
      /\ UNCHANGED <<test, rated, results, policys, todo, writing, memory, hist>>
  BY DEF OpenAs, RTypeOK
<1> QED
  BY <1>1 DEF RTypeOK, hist, Tested

LEMMA DumpTyped ==
  ASSUME RTypeOK, NEW k \in Kinds, NEW from, NEW to \in {"openSlow", "ended"}, Dump(from, to, k)
  PROVE  RTypeOK'
<1>1. memory[k] \in Seq(Entries) /\ <<>> \in Seq(Entries)
  BY DEF RTypeOK
<1>2. meta' \in [Kinds -> Seq(Entries) \cup {Absent, Broken}]
  BY <1>1 DEF Dump, RTypeOK
<1>3. memory' \in [Kinds -> Seq(Entries)]
  BY <1>1 DEF Dump, RTypeOK
<1>4. pc' = to /\ UNCHANGED <<test, rated, results, policys, todo, writing, hist>>
  BY DEF Dump
<1> QED
  BY <1>2, <1>3, <1>4 DEF RTypeOK, hist, Tested

LEMMA CrashTyped == ASSUME RTypeOK, Crash PROVE RTypeOK'
<1>1. Die /\ UNCHANGED <<files, turns>> /\ apart' \in BOOLEAN
  BY DEF Crash, RTypeOK
<1> QED
  BY <1>1, DieTyped

LEMMA StepTyped ==
  ASSUME RTypeOK, RNext, pc \in {"idle", "ended"} => todo = <<>>
  PROVE  RTypeOK'
<1>1. CASE User
  <2>1. pc \in {"idle", "ended"}
    BY <1>1 DEF User, Experiment, Clean, Rename, Delete, Concat, Save, UserTurn
  <2> QED
    BY <1>1, <2>1, UserTyped
<1>2. CASE Start
  BY <1>2, StartTyped
<1>3. CASE ReadTest
  BY <1>3, ReadTestTyped
<1>4. CASE WriteResult
  BY <1>4, WriteResultTyped
<1>5. CASE ReadMeta
  BY <1>5, ReadMetaTyped
<1>6. CASE UpdatePolicy
  BY <1>6, UpdateTyped
<1>7. CASE WriteMeta
  <2>1. "latency" \in Kinds /\ "slowdown" \in Kinds
    BY DEF Kinds
  <2> QED
    BY <1>7, <2>1, OpenTyped, DumpTyped DEF WriteMeta
<1>8. CASE Crash
  BY <1>8, CrashTyped
<1> QED
  BY <1>1, <1>2, <1>3, <1>4, <1>5, <1>6, <1>7, <1>8 DEF RNext, Processing

-----------------------------------------------------------------------------
(* The inductive invariant. What is at rest at which point of a run, and that *)
(* the folders still to be written are the last of those it was given.        *)
Written == Len(args) - Len(policys)

RestInv ==
  /\ pc \notin {"test", "write"} => todo = <<>>
  /\ pc \notin {"test", "write", "update"} => policys = <<>>
  /\ pc \in {"idle", "test", "write", "ended"} => memory = Nothing
  /\ pc \in {"openSlow", "dumpSlow"} => memory["latency"] = <<>>
  /\ pc \in {"test", "write"} => was = Nothing /\ policys = args
  /\ Len(policys) <= Len(args)
  /\ \A i \in 1 .. Len(policys) : policys[i] = args[Written + i]

(* The result files of a load that has been processed are of the test that is *)
(* in the folder now.                                                         *)
Fresh(l, c, k) ==
  LET file == <<l[1], l[2], c, k>>
  IN file \in DOMAIN results /\ results[file] = [rate |-> l[2], gen |-> test[l].gen]

FreshInv ==
  \A l \in Loads : l[1] \in ToSet(args) /\ l \notin ToSet(todo) =>
    \A c \in Columns, k \in Kinds : Answers(l, c) => Fresh(l, c, k)

WritingInv ==
  pc = "write" =>
    \A c \in Columns, k \in Kinds :
      Answers(Head(todo), c) => <<c, k>> \in ToSet(writing) \/ Fresh(Head(todo), c, k)

(* What a metadata file is to hold: it is in memory until it is written.      *)
Updating == {"update", "dump", "openSlow", "dumpSlow", "ended"}

Doc(k) == IF pc = "ended" \/ (k = "latency" /\ pc \in {"openSlow", "dumpSlow"})
          THEN meta[k] ELSE memory[k]

NamesInv ==
  ~apart =>
    /\ pc \in {"idle", "test", "write", "update"} => NamesOf(meta["latency"]) = NamesOf(meta["slowdown"])
    /\ pc \in Updating => SameNames(Doc("latency"), Doc("slowdown"))

(* The policies written so far: the last entry of each name is of the last    *)
(* folder of it, and is alone if the entries of the name were apart.          *)
Done == {NameOf[args[i]] : i \in 1 .. Written}

LastOfName(i, n) == \A j \in i + 1 .. n : NameOf[args[j]] # NameOf[args[i]]

DocOK(k) ==
  /\ Doc(k) \in Seq(Entries)
  /\ OthersIn(Doc(k), Given) = OthersIn(was[k], Given)
  /\ \A i \in 1 .. Written :
       LastOfName(i, Written) => LastIs(Doc(k), NameOf[args[i]], PolicyData(args[i], k))
  /\ \A name \in Given :
       Apart(was[k], name, Given) =>
         /\ name \in Done => Apart(Doc(k), name, STRING)
         /\ name \notin Done => Apart(Doc(k), name, Given)

DocInv == pc \in Updating => \A k \in Kinds : DocOK(k)

ResultsInv == RTypeOK /\ RestInv /\ FreshInv /\ WritingInv /\ NamesInv /\ DocInv

LEMMA UpdateCounts ==
  ASSUME RTypeOK, RestInv, UpdatePolicy
  PROVE  /\ Written \in Nat /\ Written' = Written + 1 /\ Written + 1 \in 1 .. Len(args)
         /\ Head(policys) = args[Written + 1]
         /\ Len(policys') <= Len(args')
         /\ \A i \in 1 .. Len(policys') : policys'[i] = args'[Written' + i]
<1>1. /\ policys \in Seq(Folders) /\ policys # <<>> /\ args \in Seq(Folders)
      /\ policys' = Tail(policys) /\ args' = args
  BY DEF RTypeOK, UpdatePolicy, hist
<1>2. PICK p \in Nat, q \in Nat : p = Len(policys) /\ q = Len(args)
  BY <1>1, LenProperties
<1>3. PICK t : t = Tail(policys)
  OBVIOUS
<1>4. /\ p # 0 /\ Len(t) = p - 1 /\ Head(policys) = policys[1]
      /\ \A i \in 1 .. p - 1 : t[i] = policys[i + 1]
  <2>1. p # 0 /\ Len(t) = p - 1
    BY <1>1, <1>2, <1>3, HeadTailIs
  <2>2. \A i \in 1 .. Len(Tail(policys)) : Tail(policys)[i] = policys[i + 1]
    BY <1>1, HeadTailProperties
  <2> QED
    BY <1>1, <1>3, <2>1, <2>2
<1>5. p <= q /\ \A i \in 1 .. p : policys[i] = args[(q - p) + i]
  BY <1>2 DEF RestInv, Written
<1>6. Written = q - p /\ Written' = q - (p - 1) /\ Len(policys') = p - 1 /\ Len(args') = q
  BY <1>1, <1>2, <1>3, <1>4 DEF Written
<1>7. q - p \in Nat /\ q - (p - 1) = (q - p) + 1 /\ (q - p) + 1 \in 1 .. q /\ p - 1 <= q
  BY <1>4, <1>5
<1>8. Head(policys) = args[(q - p) + 1]
  <2>1. 1 \in 1 .. p
    BY <1>4
  <2> QED
    BY <1>4, <1>5, <2>1
<1>9. ASSUME NEW i \in 1 .. p - 1 PROVE t[i] = args[(q - (p - 1)) + i]
  <2>1. i + 1 \in 1 .. p /\ (q - p) + (i + 1) = (q - (p - 1)) + i
    BY <1>4
  <2> QED
    BY <1>4, <1>5, <2>1
<1> QED
  BY <1>1, <1>2, <1>3, <1>6, <1>7, <1>8, <1>9

(* Between two runs nothing is left of the last.                              *)
LEMMA AtRest ==
  ASSUME RTypeOK, pc' = "idle", args' = <<>>, policys' = <<>>, todo' = <<>>, memory' = Nothing
  PROVE  RestInv'
<1>1. Len(policys') = 0 /\ Len(args') = 0
  OBVIOUS
<1>2. 0 <= 0 /\ 1 .. 0 = {}
  OBVIOUS
<1> QED
  BY <1>1, <1>2 DEF RestInv

LEMMA RestStep == ASSUME RTypeOK, RestInv, RNext PROVE RestInv'
<1>1. CASE User
  <2>1. /\ pc \in {"idle", "ended"} /\ pc' = "idle" /\ args' = <<>>
        /\ UNCHANGED <<policys, todo, memory>>
    BY <1>1 DEF User, Experiment, Clean, Rename, Delete, Concat, Save, UserTurn
  <2>2. policys = <<>> /\ todo = <<>> /\ memory = Nothing
    BY <2>1 DEF RestInv
  <2> QED
    BY <2>1, <2>2, AtRest
<1>2. CASE Start
  <2>1. PICK a \in ArgLists :
          args' = a /\ policys' = a /\ was' = Nothing /\ pc' = "test" /\ memory' = memory
          /\ pc \in {"idle", "ended"}
    BY <1>2 DEF Start
  <2>2. memory' = Nothing
    BY <2>1 DEF RestInv
  <2>3. Len(a) \in Nat
    BY ResultsAssumption, LenProperties
  <2>4. Len(policys') <= Len(args') /\ \A i \in 1 .. Len(policys') : policys'[i] = args'[Written' + i]
    <3>1. Written' = 0 /\ Len(policys') = Len(a) /\ Len(args') = Len(a)
      BY <2>1, <2>3 DEF Written
    <3>2. \A i \in 1 .. Len(a) : 0 + i = i
      BY <2>3
    <3>3. Len(a) <= Len(a)
      BY <2>3
    <3> QED
      BY <2>1, <3>1, <3>2, <3>3
  <2> QED
    BY <2>1, <2>2, <2>4 DEF RestInv
<1>3. CASE Die
  BY <1>3, AtRest DEF Die
<1>4. CASE ReadTest /\ ~Die
  <2>1. pc = "test" /\ pc' = "write" /\ UNCHANGED <<policys, todo, memory, args, was>>
    BY <1>4 DEF ReadTest
  <2> QED
    BY <2>1 DEF RestInv, Written
<1>5. CASE WriteResult
  <2>1. pc = "write" /\ pc' \in {"test", "write"} /\ UNCHANGED <<policys, memory, args, was>>
    BY <1>5 DEF WriteResult, hist
  <2> QED
    BY <2>1 DEF RestInv, Written
<1>6. CASE ReadMeta /\ ~Die
  <2>1. pc = "test" /\ todo = <<>> /\ pc' = "update" /\ UNCHANGED <<policys, todo, args>>
    BY <1>6 DEF ReadMeta
  <2> QED
    BY <2>1 DEF RestInv, Written
<1>7. CASE UpdatePolicy
  <2>1. pc = "update" /\ pc' = "update" /\ todo' = todo
    BY <1>7 DEF UpdatePolicy
  <2>2. Len(policys') <= Len(args') /\ \A i \in 1 .. Len(policys') : policys'[i] = args'[Written' + i]
    BY <1>7, UpdateCounts
  <2> QED
    BY <2>1, <2>2 DEF RestInv
<1>8. CASE WriteMeta
  <2>1. UNCHANGED <<policys, todo, args, was>>
    BY <1>8 DEF WriteMeta, OpenAs, Dump, hist
  <2>2. Len(policys') <= Len(args') /\ \A i \in 1 .. Len(policys') : policys'[i] = args'[Written' + i]
    BY <2>1 DEF RestInv, Written
  <2>3. pc \notin {"idle", "test", "write", "ended"} /\ policys = <<>> /\ todo = <<>>
        /\ pc' \in {"dump", "openSlow", "dumpSlow", "ended"}
    BY <1>8 DEF WriteMeta, OpenAs, Dump, RestInv
  <2>4. pc' \in {"openSlow", "dumpSlow"} => memory'["latency"] = <<>>
    <3>1. DOMAIN memory = Kinds /\ "latency" \in Kinds
      BY DEF RTypeOK, Kinds
    <3>2. CASE OpenAs("update", "dump", "latency") \/ Dump("dumpSlow", "ended", "slowdown")
      BY <3>2 DEF OpenAs, Dump
    <3>3. CASE Dump("dump", "openSlow", "latency")
      BY <3>1, <3>3 DEF Dump
    <3>4. CASE OpenAs("openSlow", "dumpSlow", "slowdown")
      BY <3>4 DEF OpenAs, RestInv
    <3> QED
      BY <1>8, <3>2, <3>3, <3>4 DEF WriteMeta
  <2>5. pc' = "ended" => memory' = Nothing
    <3>1. memory \in [Kinds -> Seq(Entries)]
      BY DEF RTypeOK
    <3>2. ASSUME Dump("dumpSlow", "ended", "slowdown") PROVE memory' = Nothing
      <4>1. memory["latency"] = <<>> /\ memory' = [memory EXCEPT !["slowdown"] = <<>>]
        BY <3>2 DEF Dump, RestInv
      <4>2. DOMAIN memory' = Kinds /\ memory'["slowdown"] = <<>> /\ memory'["latency"] = <<>>
        BY <3>1, <4>1 DEF Kinds
      <4>3. memory' = [k \in Kinds |-> memory'[k]]
        BY <3>1, <4>1
      <4> QED
        BY <4>2, <4>3 DEF Nothing, Kinds
    <3>3. ASSUME pc' = "ended" PROVE Dump("dumpSlow", "ended", "slowdown")
      BY <1>8, <3>3 DEF WriteMeta, OpenAs, Dump
    <3> QED
      BY <3>2, <3>3
  <2> QED
    BY <2>1, <2>2, <2>3, <2>4, <2>5 DEF RestInv
<1>9. CASE Crash
  BY <1>3, <1>9 DEF Crash
<1> QED
  BY <1>1, <1>2, <1>3, <1>4, <1>5, <1>6, <1>7, <1>8, <1>9 DEF RNext, Processing

-----------------------------------------------------------------------------
(* The result files.                                                          *)
LEMMA FreshFrame ==
  ASSUME FreshInv, UNCHANGED <<test, results, args, todo>>
  PROVE  FreshInv'
<1>1. ASSUME NEW l \in Loads, NEW c \in Columns, NEW k \in Kinds
      PROVE  (Answers(l, c)' <=> Answers(l, c)) /\ (Fresh(l, c, k)' <=> Fresh(l, c, k))
  BY DEF Answers, Fresh
<1> QED
  BY <1>1 DEF FreshInv

LEMMA FreshNone == ASSUME args' = <<>> PROVE FreshInv'
<1>1. ToSet(args') = {}
  BY DEF ToSet
<1> QED
  BY <1>1 DEF FreshInv

LEMMA WriteFresh ==
  ASSUME RTypeOK, FreshInv, WritingInv, WriteResult
  PROVE  FreshInv' /\ WritingInv'
<1>0. PICK l, w : l = Head(todo) /\ w = Head(writing)
  OBVIOUS
<1> DEFINE file == <<l[1], l[2], w[1], w[2]>>
<1>1. /\ l \in Loads /\ w \in Columns \X Kinds
      /\ DOMAIN results' = DOMAIN results \cup {file}
      /\ results'[file] = [rate |-> l[2], gen |-> test[l].gen]
      /\ \A x \in DOMAIN results : x # file => results'[x] = results[x]
      /\ UNCHANGED <<test, rated, meta, policys, memory, hist>>
      /\ writing' = Tail(writing)
  BY <1>0, WriteResultIs, Zenon
<1>2. \A m \in Loads : m = <<m[1], m[2]>>
  BY ResultsAssumption
<1>3. w = <<w[1], w[2]>>
  BY <1>1
<1>4. test' = test /\ args' = args
  BY <1>1 DEF hist
<1>5. ASSUME NEW m \in Loads, NEW c, NEW k, <<m[1], m[2], c, k>> = file
      PROVE  Fresh(m, c, k)'
  <2>1. m[1] = l[1] /\ m[2] = l[2]
    BY <1>5
  <2>2. m = l
    BY <1>1, <1>2, <2>1
  <2>3. <<m[1], m[2], c, k>> \in DOMAIN results' /\ results'[<<m[1], m[2], c, k>>] = [rate |-> m[2], gen |-> test[m].gen]
    BY <1>1, <1>5, <2>2
  <2> QED
    BY <1>4, <2>3 DEF Fresh
<1>6. ASSUME NEW m \in Loads, NEW c, NEW k, Fresh(m, c, k)
      PROVE  Fresh(m, c, k)'
  <2>1. CASE <<m[1], m[2], c, k>> = file
    BY <1>5, <2>1
  <2>2. CASE <<m[1], m[2], c, k>> # file
    <3> DEFINE g == <<m[1], m[2], c, k>>
    <3>1. g \in DOMAIN results /\ results[g] = [rate |-> m[2], gen |-> test[m].gen] /\ g # file
      BY <1>6, <2>2 DEF Fresh
    <3> HIDE DEF g, file
    <3>2. g \in DOMAIN results' /\ results'[g] = [rate |-> m[2], gen |-> test[m].gen]
      BY <1>1, <3>1
    <3> QED
      BY <1>4, <3>2 DEF Fresh, g
  <2> QED
    BY <2>1, <2>2
<1>7. /\ \A x : x \in ToSet(writing) <=> x = w \/ x \in ToSet(Tail(writing))
      /\ Len(writing) = 1 => ToSet(Tail(writing)) = {}
  <2>1. writing \in Seq(Columns \X Kinds) /\ writing # <<>>
    BY DEF RTypeOK, WriteResult
  <2> QED
    BY <1>0, <2>1, HeadTailIs
<1>8. \A x : x \in ToSet(todo) <=> x = l \/ x \in ToSet(Tail(todo))
  <2>1. todo \in Seq(Loads) /\ todo # <<>>
    BY DEF RTypeOK, WriteResult
  <2> QED
    BY <1>0, <2>1, HeadTailIs
<1>9. ASSUME NEW c \in Columns, NEW k \in Kinds, Answers(l, c)
      PROVE  <<c, k>> \in ToSet(Tail(writing)) \/ Fresh(l, c, k)'
  <2>1. <<c, k>> \in ToSet(writing) \/ Fresh(l, c, k)
    BY <1>0, <1>9 DEF WritingInv, WriteResult
  <2>2. CASE <<c, k>> \in ToSet(writing)
    <3>1. CASE <<c, k>> = w
      <4>1. <<l[1], l[2], c, k>> = file
        BY <1>3, <3>1
      <4> QED
        BY <1>1, <1>5, <4>1
    <3>2. CASE <<c, k>> # w
      BY <1>7, <2>2, <3>2
    <3> QED
      BY <3>1, <3>2
  <2>3. CASE Fresh(l, c, k)
    BY <1>1, <1>6, <2>3
  <2> QED
    BY <2>1, <2>2, <2>3
<1>10. ASSUME NEW m \in Loads, NEW c PROVE Answers(m, c)' <=> Answers(m, c)
  BY <1>4 DEF Answers
<1>11. FreshInv'
  <2>1. ASSUME NEW m \in Loads, m[1] \in ToSet(args'), m \notin ToSet(todo'),
               NEW c \in Columns, NEW k \in Kinds, Answers(m, c)'
        PROVE  Fresh(m, c, k)'
    <3>1. Answers(m, c)
      BY <1>10, <2>1
    <3>2. CASE m \notin ToSet(todo)
      <4>1. Fresh(m, c, k)
        BY <1>4, <2>1, <3>1, <3>2 DEF FreshInv
      <4> QED
        BY <1>6, <4>1
    <3>3. CASE m \in ToSet(todo)
      <4>1. Len(writing) = 1 /\ todo' = Tail(todo)
        BY <2>1, <3>3 DEF WriteResult
      <4>2. m = l
        BY <1>8, <2>1, <3>3, <4>1
      <4> QED
        BY <1>7, <1>9, <3>1, <4>1, <4>2
    <3> QED
      BY <3>2, <3>3
  <2> QED
    BY <2>1 DEF FreshInv
<1>12. WritingInv'
  <2>1. SUFFICES ASSUME pc' = "write", NEW c \in Columns, NEW k \in Kinds, Answers(Head(todo), c)'
                 PROVE  <<c, k>> \in ToSet(writing') \/ Fresh(Head(todo), c, k)'
    BY DEF WritingInv
  <2>2. Head(todo') = l
    BY <1>0, <2>1 DEF WriteResult
  <2>3. Answers(l, c)
    BY <1>4, <2>1, <2>2 DEF Answers
  <2>4. Fresh(l, c, k)' => Fresh(Head(todo), c, k)'
    BY <2>2 DEF Fresh
  <2> QED
    BY <1>1, <1>9, <2>3, <2>4
<1> QED
  BY <1>11, <1>12

LEMMA FreshStep ==
  ASSUME RTypeOK, FreshInv, WritingInv, RNext
  PROVE  FreshInv' /\ WritingInv'
<1>1. CASE User
  <2>1. pc' = "idle" /\ args' = <<>>
    BY <1>1 DEF User, Experiment, Clean, Rename, Delete, Concat, Save, UserTurn
  <2> QED
    BY <2>1, FreshNone DEF WritingInv
<1>2. CASE Start
  <2>1. pc' = "test" /\ test' = test /\ results' = results
    BY <1>2 DEF Start, files
  <2>2. \A l \in Tested : l[1] \in ToSet(args') => l \in ToSet(todo')
    BY <1>2, StartTyped
  <2>3. ASSUME NEW l \in Loads, l[1] \in ToSet(args'), l \notin ToSet(todo'), NEW c
        PROVE  ~Answers(l, c)'
    <3>1. l \notin Tested
      BY <2>2, <2>3
    <3> QED
      BY <2>1, <3>1 DEF Answers, Tested
  <2>4. FreshInv'
    BY <2>3 DEF FreshInv
  <2> QED
    BY <2>1, <2>4 DEF WritingInv
<1>3. CASE Die
  BY <1>3, FreshNone DEF Die, WritingInv
<1>4. CASE ReadTest /\ ~Die
  <2>1. test[Head(todo)].types # {}
    BY <1>4 DEF ReadTest
  <2>2. /\ pc' = "write" /\ UNCHANGED <<files, policys, todo, memory, hist>>
        /\ \A c \in Columns, k \in Kinds : Answers(Head(todo), c) => <<c, k>> \in ToSet(writing')
    BY <1>4, <2>1, ReadTestIs
  <2>3. FreshInv'
    BY <2>2, FreshFrame DEF files, hist
  <2>4. ASSUME NEW c \in Columns, Answers(Head(todo), c)' PROVE Answers(Head(todo), c)
    BY <2>2, <2>4 DEF Answers, files
  <2>5. WritingInv'
    BY <2>2, <2>4 DEF WritingInv
  <2> QED
    BY <2>3, <2>5
<1>5. CASE WriteResult
  BY <1>5, WriteFresh
<1>6. CASE ReadMeta /\ ~Die
  <2>1. pc' = "update" /\ UNCHANGED <<test, results, args, todo>>
    BY <1>6 DEF ReadMeta, files
  <2> QED
    BY <2>1, FreshFrame DEF WritingInv
<1>7. CASE UpdatePolicy
  <2>1. pc' = "update" /\ UNCHANGED <<test, results, args, todo>>
    BY <1>7 DEF UpdatePolicy, files, hist
  <2> QED
    BY <2>1, FreshFrame DEF WritingInv
<1>8. CASE WriteMeta
  <2>1. pc' # "write" /\ UNCHANGED <<test, results, args, todo>>
    BY <1>8 DEF WriteMeta, OpenAs, Dump, hist
  <2> QED
    BY <2>1, FreshFrame DEF WritingInv
<1>9. CASE Crash
  BY <1>3, <1>9 DEF Crash
<1> QED
  BY <1>1, <1>2, <1>3, <1>4, <1>5, <1>6, <1>7, <1>8, <1>9 DEF RNext, Processing

-----------------------------------------------------------------------------
(* The metadata. Writing it moves what it is to hold from memory to the file. *)
LEMMA DocKept ==
  ASSUME RTypeOK, WriteMeta
  PROVE  /\ pc \in Updating /\ pc' \in Updating \ {"update"}
         /\ Doc("latency")' = Doc("latency") /\ Doc("slowdown")' = Doc("slowdown")
         /\ UNCHANGED <<test, rated, results, policys, todo, writing, hist>>
<1>1. DOMAIN meta = Kinds /\ DOMAIN memory = Kinds /\ "latency" \in Kinds /\ "slowdown" \in Kinds
  BY DEF RTypeOK, Kinds
<1>2. CASE OpenAs("update", "dump", "latency")
  BY <1>1, <1>2 DEF OpenAs, Doc, Updating
<1>3. CASE Dump("dump", "openSlow", "latency")
  BY <1>1, <1>3 DEF Dump, Doc, Updating
<1>4. CASE OpenAs("openSlow", "dumpSlow", "slowdown")
  BY <1>1, <1>4 DEF OpenAs, Doc, Updating
<1>5. CASE Dump("dumpSlow", "ended", "slowdown")
  BY <1>1, <1>5 DEF Dump, Doc, Updating
<1> QED
  BY <1>2, <1>3, <1>4, <1>5 DEF WriteMeta

LEMMA NamesStep ==
  ASSUME RTypeOK, RestInv, NamesInv, DocInv, RNext
  PROVE  NamesInv'
<1> USE DEF Updating
<1>1. CASE User
  <2>1. CASE Experiment \/ Clean
    <3>1. pc \in {"idle", "ended"} /\ pc' = "idle" /\ meta' = meta /\ apart' = apart
      BY <2>1 DEF Experiment, Clean, UserTurn
    <3>2. ~apart => NamesOf(meta["latency"]) = NamesOf(meta["slowdown"])
      <4>1. CASE pc = "idle"
        BY <4>1 DEF NamesInv
      <4>2. CASE pc = "ended"
        <5>1. /\ meta["latency"] \in Seq(Entries) /\ meta["slowdown"] \in Seq(Entries)
              /\ ~apart => SameNames(meta["latency"], meta["slowdown"])
          BY <4>2 DEF NamesInv, DocInv, DocOK, Doc, Kinds
        <5> QED
          BY <5>1, SameIs
      <4> QED
        BY <3>1, <4>1, <4>2
    <3> QED
      BY <3>1, <3>2 DEF NamesInv
  <2>2. CASE Rename \/ Delete \/ Concat
    <3>1. apart' = TRUE
      BY <2>2 DEF Rename, Delete, Concat, Save
    <3> QED
      BY <3>1 DEF NamesInv
  <2> QED
    BY <1>1, <2>1, <2>2 DEF User
<1>2. CASE Start
  <2>1. /\ pc' = "test" /\ meta' = meta
        /\ apart' = (NamesOf(meta["latency"]) # NamesOf(meta["slowdown"]))
    BY <1>2 DEF Start, files
  <2> QED
    BY <2>1 DEF NamesInv
<1>3. CASE Die /\ pc \in {"test", "write", "update"} /\ meta' = meta /\ (~apart' => ~apart)
  <2>1. pc' = "idle"
    BY <1>3 DEF Die
  <2> QED
    BY <1>3, <2>1 DEF NamesInv
<1>4. CASE ReadTest
  <2>1. pc = "test" /\ meta' = meta /\ apart' = apart /\ pc' \in {"idle", "write"}
    BY <1>4 DEF ReadTest, Die, files
  <2> QED
    BY <2>1 DEF NamesInv
<1>5. CASE WriteResult
  <2>1. pc = "write" /\ meta' = meta /\ apart' = apart /\ pc' \in {"test", "write"}
    BY <1>5 DEF WriteResult, hist
  <2> QED
    BY <2>1 DEF NamesInv
<1>6. CASE ReadMeta
  <2>1. pc = "test" /\ meta' = meta /\ apart' = apart
    BY <1>6 DEF ReadMeta, files
  <2>2. CASE Die
    BY <1>3, <2>1, <2>2
  <2>3. CASE pc' = "update" /\ memory' = memory
    <3>1. memory' = Nothing
      BY <2>1, <2>3 DEF RestInv
    <3>2. Doc("latency")' = <<>> /\ Doc("slowdown")' = <<>>
      BY <2>3, <3>1 DEF Doc, Nothing, Kinds
    <3>3. SameNames(<<>>, <<>>)
      BY DEF SameNames
    <3> QED
      BY <2>1, <2>3, <3>2, <3>3 DEF NamesInv
  <2>4. CASE /\ ~ \E k \in Kinds : meta[k] = Absent
             /\ ~ \E k \in Kinds : meta[k] = Broken
             /\ memory' = meta /\ pc' = "update"
    <3>1. meta["latency"] \in Seq(Entries) /\ meta["slowdown"] \in Seq(Entries)
      BY <2>4 DEF RTypeOK, Kinds
    <3>2. Doc("latency")' = meta["latency"] /\ Doc("slowdown")' = meta["slowdown"]
      BY <2>4 DEF Doc
    <3>3. ~apart => NamesOf(meta["latency"]) = NamesOf(meta["slowdown"])
      BY <2>1 DEF NamesInv
    <3>4. ~apart => SameNames(meta["latency"], meta["slowdown"])
      BY <3>1, <3>3, SameIs
    <3> QED
      BY <2>1, <2>4, <3>2, <3>3, <3>4 DEF NamesInv
  <2> QED
    BY <1>6, <2>2, <2>3, <2>4 DEF ReadMeta
<1>7. CASE UpdatePolicy
  <2>1. /\ pc = "update" /\ pc' = "update" /\ meta' = meta /\ apart' = apart
        /\ Head(policys) \in Folders /\ FilesTyped
        /\ \A k \in Kinds : /\ memory[k] \in Seq(Entries)
                            /\ memory'[k] = Append(RemoveIfPresent(NameOf[Head(policys)], memory[k]),
                                                   Entry(Head(policys), k))
    BY <1>7, UpdateIs DEF files, hist
  <2> DEFINE e == Entry(Head(policys), "latency")
             g == Entry(Head(policys), "slowdown")
  <2>2. e \in Entries /\ g \in Entries /\ e.name = NameOf[Head(policys)] /\ g.name = NameOf[Head(policys)]
    BY <2>1, EntryIs
  <2>3. /\ memory'["latency"] = Append(RemoveIfPresent(e.name, memory["latency"]), e)
        /\ memory'["slowdown"] = Append(RemoveIfPresent(g.name, memory["slowdown"]), g)
        /\ memory["latency"] \in Seq(Entries) /\ memory["slowdown"] \in Seq(Entries)
    BY <2>1, <2>2 DEF Kinds
  <2> HIDE DEF e, g
  <2>4. ASSUME ~apart PROVE SameNames(memory'["latency"], memory'["slowdown"])
    <3>1. SameNames(memory["latency"], memory["slowdown"])
      BY <2>1, <2>4 DEF NamesInv, Doc
    <3>2. SameNames(Append(RemoveIfPresent(e.name, memory["latency"]), e),
                    Append(RemoveIfPresent(g.name, memory["slowdown"]), g))
      BY <2>2, <2>3, <3>1, SameUpdated
    <3> QED
      BY <2>3, <3>2
  <2>5. Doc("latency")' = memory'["latency"] /\ Doc("slowdown")' = memory'["slowdown"]
    BY <2>1 DEF Doc
  <2> QED
    BY <2>1, <2>4, <2>5 DEF NamesInv
<1>8. CASE WriteMeta
  <2>1. /\ pc \in Updating /\ pc' \in Updating \ {"update"} /\ apart' = apart
        /\ Doc("latency")' = Doc("latency") /\ Doc("slowdown")' = Doc("slowdown")
    BY <1>8, DocKept DEF hist
  <2> QED
    BY <2>1 DEF NamesInv
<1>9. CASE Crash
  <2>1. /\ Die /\ meta' = meta /\ pc \notin {"idle", "ended"}
        /\ apart' = (apart \/ pc \in {"dump", "openSlow", "dumpSlow"})
    BY <1>9 DEF Crash, files
  <2>2. CASE pc \in {"dump", "openSlow", "dumpSlow"}
    BY <2>1, <2>2 DEF NamesInv
  <2>3. CASE pc \notin {"dump", "openSlow", "dumpSlow"}
    <3>1. pc \in {"test", "write", "update"}
      BY <2>1, <2>3 DEF RTypeOK
    <3> QED
      BY <1>3, <2>1, <3>1
  <2> QED
    BY <2>2, <2>3
<1> QED
  BY <1>1, <1>2, <1>4, <1>5, <1>6, <1>7, <1>8, <1>9 DEF RNext, Processing

(* One turn of the loop over the policies, seen from what has been written.   *)
LEMMA UpdateDoc ==
  ASSUME RTypeOK, RestInv, UpdatePolicy, NEW k \in Kinds, DocOK(k)
  PROVE  DocOK(k)'
<1>1. PICK f, n, v : f = Head(policys) /\ n = Written /\ v = PolicyData(f, k)
  OBVIOUS
<1>2. /\ f \in Folders /\ FilesTyped /\ pc = "update" /\ pc' = "update"
      /\ memory[k] \in Seq(Entries) /\ memory'[k] \in Seq(Entries)
      /\ memory'[k] = Append(RemoveIfPresent(NameOf[f], memory[k]), Entry(f, k))
      /\ UNCHANGED <<files, hist>>
  BY <1>1, UpdateIs
<1>3. n \in Nat /\ Written' = n + 1 /\ n + 1 \in 1 .. Len(args) /\ f = args[n + 1]
  BY <1>1, UpdateCounts
<1>4. PICK e, d, data, names, gone :
        /\ e = Entry(f, k) /\ d = memory'[k] /\ data = memory[k] /\ names = Given /\ gone = Done
  OBVIOUS
<1>5. e \in Entries /\ e.name = NameOf[f] /\ e.data = v
  BY <1>1, <1>2, <1>4, EntryIs
<1>6. /\ data \in Seq(Entries) /\ d = Append(RemoveIfPresent(e.name, data), e)
      /\ Doc(k) = data /\ Doc(k)' = d
  BY <1>2, <1>4, <1>5 DEF Doc
<1>7. Len(args) \in Nat /\ DOMAIN args = 1 .. Len(args)
  BY LenProperties DEF RTypeOK
<1>8. e.name \in names /\ Given' = names
  BY <1>2, <1>3, <1>4, <1>5, <1>7 DEF Given, hist
<1>9. e.name \in STRING
  BY <1>5 DEF Entries
<1>10. /\ d \in Seq(Entries)
       /\ OthersIn(d, names) = OthersIn(data, names)
       /\ LastIs(d, e.name, e.data)
       /\ \A other, u : other # e.name /\ LastIs(data, other, u) => LastIs(d, other, u)
       /\ \A other : other # e.name /\ Apart(data, other, names) => Apart(d, other, names)
       /\ Apart(data, e.name, names) => Apart(d, e.name, STRING)
  <2> DEFINE b == Append(RemoveIfPresent(e.name, data), e)
  <2>1. /\ b \in Seq(Entries)
        /\ OthersIn(b, names) = OthersIn(data, names)
        /\ LastIs(b, e.name, e.data)
        /\ \A other, u : other # e.name /\ LastIs(data, other, u) => LastIs(b, other, u)
        /\ \A other : other # e.name /\ Apart(data, other, names) => Apart(b, other, names)
        /\ Apart(data, e.name, names) => Apart(b, e.name, STRING)
    BY <1>5, <1>6, <1>8, UpdatedIs, Zenon
  <2>2. d = b
    BY <1>6
  <2> HIDE DEF b
  <2> QED
    BY <2>1, <2>2, Zenon
<1>11. /\ \A other : other # e.name /\ Apart(data, other, STRING) => Apart(d, other, STRING)
       /\ Apart(data, e.name, STRING) => Apart(d, e.name, STRING)
  BY <1>5, <1>6, <1>9, UpdatedIs, Zenon
<1>12. args' = args /\ was' = was
  BY <1>2 DEF hist
<1>13. Done' = gone \cup {e.name}
  <2>1. Done = {NameOf[args[i]] : i \in 1 .. n} /\ Done' = {NameOf[args[i]] : i \in 1 .. n + 1}
    BY <1>1, <1>3, <1>12 DEF Done
  <2>2. 1 .. n + 1 = (1 .. n) \cup {n + 1}
    BY <1>3
  <2> QED
    BY <1>3, <1>4, <1>5, <2>1, <2>2
<1>14. OthersIn(data, names) = OthersIn(was[k], names)
  BY <1>4, <1>6 DEF DocOK
<1>15. ASSUME NEW i \in 1 .. n + 1, LastOfName(i, n + 1)
       PROVE  LastIs(d, NameOf[args[i]], PolicyData(args[i], k))
  <2>1. CASE i = n + 1
    BY <1>1, <1>3, <1>5, <1>10, <2>1
  <2>2. CASE i # n + 1
    <3>1. i \in 1 .. n /\ n + 1 \in i + 1 .. n + 1 /\ i + 1 .. n \subseteq i + 1 .. n + 1
      BY <1>3, <2>2
    <3>2. NameOf[args[i]] # e.name
      BY <1>3, <1>5, <1>15, <3>1 DEF LastOfName
    <3>3. LastOfName(i, n)
      BY <1>15, <3>1 DEF LastOfName
    <3>4. LastIs(data, NameOf[args[i]], PolicyData(args[i], k))
      BY <1>1, <1>6, <3>1, <3>3 DEF DocOK
    <3> QED
      BY <1>10, <3>2, <3>4
  <2> QED
    BY <2>1, <2>2
<1>16. ASSUME NEW name \in names, Apart(was[k], name, names)
       PROVE  /\ name \in gone \cup {e.name} => Apart(d, name, STRING)
              /\ name \notin gone \cup {e.name} => Apart(d, name, names)
  <2>1. /\ name \in gone => Apart(data, name, STRING)
        /\ name \notin gone => Apart(data, name, names)
    BY <1>4, <1>6, <1>16 DEF DocOK
  <2>2. CASE name = e.name
    BY <1>10, <1>11, <2>1, <2>2
  <2>3. CASE name # e.name
    BY <1>10, <1>11, <2>1, <2>3
  <2> QED
    BY <2>2, <2>3
<1>17. ASSUME NEW i \in 1 .. Written', LastOfName(i, Written)'
       PROVE  LastIs(d, NameOf[args'[i]], PolicyData(args[i], k)')
  <2>1. i \in 1 .. n + 1 /\ LastOfName(i, n + 1)
    BY <1>3, <1>12, <1>17 DEF LastOfName
  <2>2. PolicyData(args[i], k)' = PolicyData(args[i], k)
    BY <1>2 DEF PolicyData, RatedOf, Column, files, hist
  <2> QED
    BY <1>12, <1>15, <2>1, <2>2
<1> QED
  BY <1>6, <1>8, <1>10, <1>12, <1>13, <1>14, <1>16, <1>17 DEF DocOK

LEMMA DocFrame ==
  ASSUME NEW k \in Kinds, DocOK(k), Doc(k)' = Doc(k),
         UNCHANGED <<rated, results, policys, args, was>>
  PROVE  DocOK(k)'
<1>1. PICK d : d = Doc(k)
  OBVIOUS
<1>2. Written' = Written /\ Given' = Given /\ Done' = Done
  BY DEF Written, Given, Done
<1>3. ASSUME NEW i PROVE PolicyData(args[i], k)' = PolicyData(args[i], k)
  BY DEF PolicyData, RatedOf, Column
<1>4. ASSUME NEW i \in 1 .. Written', LastOfName(i, Written)'
      PROVE  LastIs(d, NameOf[args'[i]], PolicyData(args[i], k)')
  <2>1. LastOfName(i, Written)
    BY <1>2, <1>4 DEF LastOfName
  <2>2. LastIs(d, NameOf[args[i]], PolicyData(args[i], k))
    BY <1>1, <1>2, <2>1 DEF DocOK
  <2> QED
    BY <1>3, <2>2
<1>5. ASSUME NEW name \in Given, Apart(was[k], name, Given)
      PROVE  /\ name \in Done => Apart(d, name, STRING)
             /\ name \notin Done => Apart(d, name, Given)
  BY <1>1, <1>5 DEF DocOK
<1>6. d \in Seq(Entries) /\ OthersIn(d, Given) = OthersIn(was[k], Given)
  BY <1>1 DEF DocOK
<1>7. Doc(k)' = d
  BY <1>1
<1> QED
  BY <1>2, <1>4, <1>5, <1>6, <1>7 DEF DocOK

(* What has just been read is what was there.                                 *)
LEMMA DocBegun ==
  ASSUME RTypeOK, RestInv, ReadMeta, ~Die, NEW k \in Kinds
  PROVE  DocOK(k)'
<1>1. /\ pc = "test" /\ pc' = "update" /\ UNCHANGED <<policys, args>>
      /\ policys = args
  BY DEF ReadMeta, RestInv
<1>2. memory'[k] = was'[k] /\ was'[k] \in Seq(Entries)
  <2>1. CASE UNCHANGED <<memory, was>>
    <3>1. memory = Nothing /\ was = Nothing
      BY <1>1 DEF RestInv
    <3> QED
      BY <2>1, <3>1 DEF RTypeOK
  <2>2. CASE ~UNCHANGED <<memory, was>>
    <3>1. memory' = meta /\ was' = meta /\ meta[k] \notin {Absent, Broken}
      BY <2>2 DEF ReadMeta
    <3> QED
      BY <3>1 DEF RTypeOK
  <2> QED
    BY <2>1, <2>2
<1>3. Doc(k)' = was'[k]
  BY <1>1, <1>2 DEF Doc
<1>4. Written' = 0
  <2>1. Len(args) \in Nat
    BY LenProperties DEF RTypeOK
  <2>2. Written' = Len(args) - Len(args)
    BY <1>1 DEF Written
  <2> QED
    BY <2>1, <2>2
<1>5. 1 .. 0 = {}
  OBVIOUS
<1>6. Done' = {}
  BY <1>4, <1>5 DEF Done
<1> QED
  BY <1>2, <1>3, <1>4, <1>5, <1>6 DEF DocOK

LEMMA DocStep == ASSUME RTypeOK, RestInv, DocInv, RNext PROVE DocInv'
<1>1. CASE User
  <2>1. pc' = "idle"
    BY <1>1 DEF User, Experiment, Clean, Rename, Delete, Concat, Save, UserTurn
  <2> QED
    BY <2>1 DEF DocInv, Updating
<1>2. CASE Start
  BY <1>2 DEF Start, DocInv, Updating
<1>3. CASE Die
  BY <1>3 DEF Die, DocInv, Updating
<1>4. CASE ReadTest /\ ~Die
  BY <1>4 DEF ReadTest, DocInv, Updating
<1>5. CASE WriteResult
  BY <1>5 DEF WriteResult, DocInv, Updating
<1>6. CASE ReadMeta /\ ~Die
  BY <1>6, DocBegun DEF DocInv
<1>7. CASE UpdatePolicy
  <2>1. pc \in Updating
    BY <1>7 DEF UpdatePolicy, Updating
  <2> QED
    BY <1>7, <2>1, UpdateDoc DEF DocInv
<1>8. CASE WriteMeta
  <2>1. /\ pc \in Updating
        /\ Doc("latency")' = Doc("latency") /\ Doc("slowdown")' = Doc("slowdown")
        /\ UNCHANGED <<rated, results, policys, args, was>>
    BY <1>8, DocKept DEF hist
  <2>2. DocOK("latency") /\ DocOK("slowdown")
    BY <2>1 DEF DocInv, Kinds
  <2>3. DocOK("latency")' /\ DocOK("slowdown")'
    BY <2>1, <2>2, DocFrame DEF Kinds
  <2> QED
    BY <2>3 DEF DocInv, Kinds
<1>9. CASE Crash
  BY <1>3, <1>9 DEF Crash
<1> QED
  BY <1>1, <1>2, <1>3, <1>4, <1>5, <1>6, <1>7, <1>8, <1>9 DEF RNext, Processing

-----------------------------------------------------------------------------
LEMMA ResultsInit == RInit => ResultsInv
<1> SUFFICES ASSUME RInit PROVE ResultsInv
  OBVIOUS
<1>1. RTypeOK
  BY TypesInit
<1>2. pc = "idle" /\ policys = <<>> /\ todo = <<>> /\ memory = Nothing /\ args = <<>>
  BY DEF RInit
<1>3. RestInv
  <2>1. Len(policys) = 0 /\ Len(args) = 0
    BY <1>2
  <2>2. 0 <= 0 /\ 1 .. 0 = {}
    OBVIOUS
  <2> QED
    BY <1>2, <2>1, <2>2 DEF RestInv
<1>4. FreshInv
  <2>1. ToSet(args) = {}
    BY <1>2 DEF ToSet
  <2> QED
    BY <2>1 DEF FreshInv
<1>5. NamesInv
  <2>1. meta["latency"] = meta["slowdown"]
    BY DEF RInit, Kinds
  <2> QED
    BY <1>2, <2>1 DEF NamesInv, Updating
<1>6. WritingInv /\ DocInv
  BY <1>2 DEF WritingInv, DocInv, Updating
<1> QED
  BY <1>1, <1>3, <1>4, <1>5, <1>6 DEF ResultsInv

LEMMA ResultsStep == ResultsInv /\ [RNext]_rvars => ResultsInv'
<1> SUFFICES ASSUME ResultsInv, [RNext]_rvars PROVE ResultsInv'
  OBVIOUS
<1> USE DEF ResultsInv
<1>1. CASE RNext
  <2>1. pc \in {"idle", "ended"} => todo = <<>>
    BY DEF RestInv
  <2>2. RTypeOK'
    BY <1>1, <2>1, StepTyped
  <2>3. RestInv' /\ FreshInv' /\ WritingInv' /\ NamesInv' /\ DocInv'
    BY <1>1, RestStep, FreshStep, NamesStep, DocStep
  <2> QED
    BY <2>2, <2>3
<1>2. CASE UNCHANGED rvars
  <2>1. UNCHANGED <<test, rated, results, meta, pc, policys, todo, writing, memory, args, was, apart, turns>>
    BY <1>2 DEF rvars, files, run, hist
  <2>2. RTypeOK'
    BY <2>1 DEF RTypeOK, Tested
  <2>3. RestInv'
    BY <2>1 DEF RestInv, Written
  <2>4. FreshInv'
    BY <2>1, FreshFrame
  <2>5. WritingInv'
    BY <2>1 DEF WritingInv, Answers, Fresh
  <2>6. NamesInv'
    BY <2>1 DEF NamesInv, Doc
  <2>7. DocInv'
    <3>1. \A k \in Kinds : Doc(k)' = Doc(k)
      BY <2>1 DEF Doc
    <3>2. ASSUME pc \in Updating, NEW k \in Kinds PROVE DocOK(k)'
      <4>1. DocOK(k) /\ Doc(k)' = Doc(k)
        BY <3>1, <3>2 DEF DocInv
      <4> QED
        BY <2>1, <4>1, DocFrame
    <3> QED
      BY <2>1, <3>2 DEF DocInv
  <2> QED
    BY <2>2, <2>3, <2>4, <2>5, <2>6, <2>7
<1> QED
  BY <1>1, <1>2

THEOREM ResultsInvariant == RSpec => []ResultsInv
  BY ResultsInit, ResultsStep, PTL DEF RSpec

(* Types (RTypeOK): a run works only on loads that have a test, and a result  *)
(* file says what was measured at the rate of its folder.                     *)
THEOREM ResultsTyped == RSpec => []RTypeOK
<1>1. ResultsInv => RTypeOK
  BY DEF ResultsInv
<1> QED
  BY <1>1, ResultsInvariant, PTL

(* For all policies, edits and moments at which a run is killed, the two      *)
(* files list the same policies in the same order between two runs, unless a  *)
(* run was killed while it wrote them or one was edited by hand.              *)
THEOREM NamesInStep == RSpec => []FilesInStep
<1>1. ResultsInv => FilesInStep
  <2> SUFFICES ASSUME ResultsInv, pc \in {"idle", "test", "update", "ended"}, ~apart
               PROVE  NamesOf(meta["latency"]) = NamesOf(meta["slowdown"])
    BY DEF FilesInStep
  <2>1. CASE pc = "ended"
    <3>1. /\ meta["latency"] \in Seq(Entries) /\ meta["slowdown"] \in Seq(Entries)
          /\ SameNames(meta["latency"], meta["slowdown"])
      BY <2>1 DEF ResultsInv, NamesInv, DocInv, DocOK, Doc, Kinds, Updating
    <3> QED
      BY <3>1, SameIs
  <2>2. CASE pc # "ended"
    BY <2>2 DEF ResultsInv, NamesInv
  <2> QED
    BY <2>1, <2>2
<1> QED
  BY <1>1, ResultsInvariant, PTL

-----------------------------------------------------------------------------
(* The end of a run.                                                          *)
LEMMA Greatest ==
  ASSUME NEW n \in Nat, NEW S, S \subseteq 1 .. n, S # {}
  PROVE  \E i \in S : \A j \in S : j <= i
<1> DEFINE T == {n - i : i \in S}
<1>1. T \subseteq Nat /\ T # {}
  <2>1. \A i \in 1 .. n : n - i \in Nat
    OBVIOUS
  <2>2. T \subseteq Nat
    BY <2>1
  <2>3. PICK i \in S : TRUE
    OBVIOUS
  <2>4. n - i \in T
    BY <2>3
  <2> QED
    BY <2>2, <2>4
<1>2. PICK m \in T : \A l \in T : m <= l
  <2> HIDE DEF T
  <2> QED
    BY <1>1, Least
<1>3. PICK i \in S : m = n - i
  BY <1>2
<1>4. ASSUME NEW j \in S PROVE j <= i
  <2>1. n - j \in T
    OBVIOUS
  <2>2. n - i <= n - j
    BY <1>2, <1>3, <2>1
  <2>3. i \in 1 .. n /\ j \in 1 .. n
    OBVIOUS
  <2> HIDE DEF T
  <2> QED
    BY <2>2, <2>3
<1> QED
  BY <1>4

LEMMA LastFolderIs ==
  ASSUME args \in Seq(Folders), NEW name \in Given
  PROVE  \E i \in 1 .. Len(args) : /\ LastFolder(name) = args[i] /\ NameOf[args[i]] = name
                                   /\ LastOfName(i, Len(args)) /\ args[i] \in Folders
                                   /\ args[i] \in ToSet(args)
<1>1. /\ Len(args) \in Nat /\ DOMAIN args = 1 .. Len(args)
      /\ \A i \in 1 .. Len(args) : args[i] \in Folders /\ args[i] \in ToSet(args)
  BY ToSetIs
<1> DEFINE S == {i \in 1 .. Len(args) : NameOf[args[i]] = name}
           Is(j) == /\ NameOf[args[j]] = name
                    /\ \A m \in j + 1 .. Len(args) : NameOf[args[m]] # name
<1>2. S # {}
  BY <1>1 DEF Given
<1>3. PICK i \in S : \A j \in S : j <= i
  <2>1. S \subseteq 1 .. Len(args)
    OBVIOUS
  <2> HIDE DEF S
  <2> QED
    BY <1>1, <1>2, <2>1, Greatest
<1>4. Is(i) /\ i \in DOMAIN args
  <2>1. ASSUME NEW m \in i + 1 .. Len(args), NameOf[args[m]] = name PROVE FALSE
    <3>1. i \in 1 .. Len(args) /\ ~(m <= i) /\ m \in S
      BY <1>1, <2>1
    <3> HIDE DEF S
    <3> QED
      BY <1>3, <3>1
  <2> QED
    BY <1>1, <2>1
<1>5. PICK j \in DOMAIN args : Is(j) /\ LastFolder(name) = args[j]
  <2>1. LastFolder(name) = args[CHOOSE j \in DOMAIN args : Is(j)]
    BY DEF LastFolder
  <2> HIDE DEF Is
  <2>2. PICK j : j = CHOOSE m \in DOMAIN args : Is(m)
    OBVIOUS
  <2>3. j \in DOMAIN args /\ Is(j)
    BY <1>4, <2>2
  <2> QED
    BY <2>1, <2>2, <2>3
<1>6. LastOfName(j, Len(args))
  BY <1>5 DEF LastOfName
<1> QED
  BY <1>1, <1>5, <1>6

LEMMA EntryOfIs ==
  ASSUME NEW k, meta[k] \in Seq(Entries), NEW name, NEW v, LastIs(meta[k], name, v)
  PROVE  EntryOf(name, k) = v
<1> DEFINE S == {i \in DOMAIN meta[k] : meta[k][i].name = name}
           Is(i) == \A j \in S : j <= i
<1>1. DOMAIN meta[k] = 1 .. Len(meta[k]) /\ Len(meta[k]) \in Nat
  BY LenProperties
<1>2. PICK i \in 1 .. Len(meta[k]) : /\ meta[k][i].name = name /\ meta[k][i].data = v
                                     /\ \A j \in i + 1 .. Len(meta[k]) : meta[k][j].name # name
  BY DEF LastIs
<1>3. i \in S /\ S \subseteq 1 .. Len(meta[k])
  BY <1>1, <1>2
<1>4. Is(i)
  <2>1. ASSUME NEW j \in S, ~(j <= i) PROVE FALSE
    <3>1. j \in i + 1 .. Len(meta[k])
      BY <1>1, <1>3, <2>1
    <3> QED
      BY <1>2, <3>1
  <2> QED
    BY <2>1
<1>5. EntryOf(name, k) = meta[k][CHOOSE m \in S : Is(m)].data
  BY DEF EntryOf
<1> HIDE DEF Is
<1>6. PICK m \in S : m = (CHOOSE l \in S : Is(l)) /\ Is(m)
  BY <1>3, <1>4
<1>7. m <= i /\ i <= m
  BY <1>3, <1>4, <1>6 DEF Is
<1>8. m = i
  BY <1>1, <1>3, <1>7
<1> QED
  BY <1>2, <1>5, <1>6, <1>8

LEMMA AtEnd ==
  ASSUME ResultsInv, pc = "ended", NEW name \in Given, NEW k \in Kinds
  PROVE  LET f == LastFolder(name)
         IN  /\ meta[k] \in Seq(Entries) /\ LastIs(meta[k], name, PolicyData(f, k))
             /\ EntryOf(name, k) = PolicyData(f, k) /\ FilesTyped
             /\ \A l \in rated, c \in Columns :
                  l[1] = f /\ Answers(l, c) => Fresh(l, c, k)
<1>1. args \in Seq(Folders) /\ rated \subseteq Loads /\ FilesTyped
  BY DEF ResultsInv, RTypeOK, FilesTyped
<1>2. PICK i \in 1 .. Len(args) : /\ LastFolder(name) = args[i] /\ NameOf[args[i]] = name
                                  /\ LastOfName(i, Len(args)) /\ args[i] \in ToSet(args)
  BY <1>1, LastFolderIs
<1>3. policys = <<>> /\ todo = <<>>
  BY DEF ResultsInv, RestInv
<1>4. Written = Len(args)
  <2>1. Len(args) \in Nat /\ Len(policys) = 0
    BY <1>1, <1>3, LenProperties
  <2> QED
    BY <2>1 DEF Written
<1>5. DocOK(k) /\ Doc(k) = meta[k]
  BY DEF ResultsInv, DocInv, Updating, Doc
<1>6. meta[k] \in Seq(Entries) /\ LastIs(meta[k], name, PolicyData(args[i], k))
  BY <1>2, <1>4, <1>5 DEF DocOK
<1>7. EntryOf(name, k) = PolicyData(args[i], k)
  BY <1>6, EntryOfIs
<1>8. ASSUME NEW l \in rated, NEW c \in Columns, l[1] = args[i], Answers(l, c)
      PROVE  Fresh(l, c, k)
  <2>1. l \in Loads /\ l[1] \in ToSet(args) /\ l \notin ToSet(todo)
    BY <1>1, <1>2, <1>3, <1>8 DEF ToSet
  <2> QED
    BY <1>8, <2>1 DEF ResultsInv, FreshInv
<1> QED
  BY <1>1, <1>2, <1>6, <1>7, <1>8

(* For any files, also those with several entries of a name: a run leaves the *)
(* entries of the policies it was not given as it found them, in their order, *)
(* and has one entry of each it was given, if those it found were apart       *)
(* (remove_if_present, process_policys.py:11).                                *)
THEOREM OthersUntouched == RSpec => []UpdatedInPlace
<1>1. ResultsInv => UpdatedInPlace
  <2> SUFFICES ASSUME ResultsInv, pc = "ended", NEW k \in Kinds
               PROVE  /\ OthersIn(meta[k], Given) = OthersIn(was[k], Given)
                      /\ \A name \in Given : Apart(was[k], name, Given) =>
                                               Cardinality(At(meta[k], name)) = 1
    BY DEF UpdatedInPlace
  <2>1. DocOK(k) /\ Doc(k) = meta[k]
    BY DEF ResultsInv, DocInv, Updating, Doc
  <2>2. ASSUME NEW name \in Given, Apart(was[k], name, Given)
        PROVE  Cardinality(At(meta[k], name)) = 1
    <3>1. args \in Seq(Folders) /\ policys = <<>>
      BY DEF ResultsInv, RTypeOK, RestInv
    <3>2. Written = Len(args) /\ DOMAIN args = 1 .. Len(args)
      <4>1. Len(args) \in Nat /\ Len(policys) = 0 /\ DOMAIN args = 1 .. Len(args)
        BY <3>1, LenProperties
      <4> QED
        BY <4>1 DEF Written
    <3>3. name \in Done
      BY <3>2 DEF Done, Given
    <3>4. Apart(meta[k], name, STRING)
      BY <2>1, <2>2, <3>3 DEF DocOK
    <3>5. /\ meta[k] \in Seq(Entries) /\ LastIs(meta[k], name, PolicyData(LastFolder(name), k))
      BY AtEnd
    <3>6. /\ Len(meta[k]) \in Nat /\ DOMAIN meta[k] = 1 .. Len(meta[k])
          /\ \A m \in 1 .. Len(meta[k]) : meta[k][m].name \in STRING
      <4>1. Len(meta[k]) \in Nat /\ DOMAIN meta[k] = 1 .. Len(meta[k])
        BY <3>5, LenProperties
      <4>2. ASSUME NEW m \in 1 .. Len(meta[k]) PROVE meta[k][m].name \in STRING
        <5>1. meta[k][m] \in Entries
          BY <3>5, ElementOfSeq
        <5> QED
          BY <5>1 DEF Entries
      <4> QED
        BY <4>1, <4>2
    <3>7. PICK i \in 1 .. Len(meta[k]) : meta[k][i].name = name
      BY <3>5 DEF LastIs
    <3>8. ASSUME NEW j \in At(meta[k], name) PROVE j = i
      <4>1. i \in At(meta[k], name) /\ i \in 1 .. Len(meta[k]) /\ j \in 1 .. Len(meta[k])
        BY <3>6, <3>7 DEF At
      <4>2. \A a, b \in At(meta[k], name) : ~(a < b)
        <5>1. SUFFICES ASSUME NEW a \in At(meta[k], name), NEW b \in At(meta[k], name), a < b
                       PROVE  FALSE
          OBVIOUS
        <5>2. PICK m \in a + 1 .. b - 1 : meta[k][m].name \notin STRING
          BY <3>4, <5>1 DEF Apart
        <5>3. a \in 1 .. Len(meta[k]) /\ b \in 1 .. Len(meta[k])
          BY <3>6 DEF At
        <5>4. m \in 1 .. Len(meta[k])
          BY <3>6, <5>3
        <5> QED
          BY <3>6, <5>2, <5>4
      <4>3. ~(i < j) /\ ~(j < i)
        BY <4>1, <4>2
      <4> QED
        BY <3>6, <4>1, <4>3
    <3>9. At(meta[k], name) = {i}
      BY <3>6, <3>7, <3>8 DEF At
    <3> QED
      BY <3>9, FS_Singleton
  <2> QED
    BY <2>1, <2>2 DEF DocOK
<1> QED
  BY <1>1, ResultsInvariant, PTL

(* For all policies and rates, whatever was killed, measured again or edited  *)
(* before: when a run has ended the last entry of each policy it was given    *)
(* says what the tests say that are in the folder now.                        *)
THEOREM EntriesAreCurrent == RSpec => []MetadataIsCurrent
<1>1. ResultsInv => MetadataIsCurrent
  <2> SUFFICES ASSUME ResultsInv, pc = "ended", NEW name \in Given, NEW k \in Kinds, NEW c \in Columns,
                      NEW l \in rated, l[1] = LastFolder(name), Answers(l, c)
               PROVE  LET vs == EntryOf(name, k).col[c]
                      IN  /\ [rate |-> l[2], gen |-> test[l].gen] \in ToSet(vs)
                          /\ \A i \in DOMAIN vs : vs[i].rate = l[2] => vs[i].gen = test[l].gen
    BY DEF MetadataIsCurrent
  <2> DEFINE f == LastFolder(name)
             vs == Column(f, c, k)
             rs == RatesOf(f, {m \in rated : <<m[1], m[2], c, k>> \in DOMAIN results})
             file == <<l[1], l[2], c, k>>
  <2>1. FilesTyped /\ EntryOf(name, k) = PolicyData(f, k) /\ Fresh(l, c, k)
    BY AtEnd
  <2>2. EntryOf(name, k).col[c] = vs
    BY <2>1 DEF PolicyData
  <2>3. file \in DOMAIN results /\ results[file] = [rate |-> l[2], gen |-> test[l].gen]
    BY <2>1 DEF Fresh
  <2>4. /\ vs \in Seq(Latency) /\ Len(vs) = Len(rs)
        /\ \A i \in 1 .. Len(rs) : /\ <<f, rs[i], c, k>> \in DOMAIN results
                                   /\ vs[i] = results[<<f, rs[i], c, k>>]
        /\ \A m \in rated : m[1] = f /\ <<m[1], m[2], c, k>> \in DOMAIN results =>
                              \E i \in 1 .. Len(rs) : rs[i] = m[2]
    <3>1. ColumnRead(f, c, k)
      BY <2>1, ColumnIs
    <3> QED
      BY <3>1, Zenon DEF ColumnRead
  <2> HIDE DEF vs, rs
  <2>5. DOMAIN vs = 1 .. Len(rs)
    BY <2>4, LenProperties
  <2>6. PICK i \in 1 .. Len(rs) : rs[i] = l[2]
    BY <2>3, <2>4
  <2>7. vs[i] = [rate |-> l[2], gen |-> test[l].gen]
    BY <2>3, <2>4, <2>6
  <2>8. [rate |-> l[2], gen |-> test[l].gen] \in ToSet(vs)
    BY <2>5, <2>6, <2>7 DEF ToSet
  <2>9. ASSUME NEW j \in DOMAIN vs, vs[j].rate = l[2] PROVE vs[j].gen = test[l].gen
    <3>1. <<f, rs[j], c, k>> \in DOMAIN results /\ vs[j] = results[<<f, rs[j], c, k>>]
      BY <2>4, <2>5
    <3>2. vs[j].rate = rs[j]
      BY <2>1, <3>1 DEF FilesTyped
    <3>3. vs[j] = results[file]
      BY <2>9, <3>1, <3>2
    <3> QED
      BY <2>3, <3>3
  <2> QED
    BY <2>2, <2>8, <2>9
<1> QED
  BY <1>1, ResultsInvariant, PTL

(* For all policies, rates and types: a column whose type was answered at     *)
(* every load says in its i-th place what was measured at the i-th load of x. *)
THEOREM ColumnsStayAligned == RSpec => []ColumnsAligned
<1>1. ResultsInv => ColumnsAligned
  <2> SUFFICES ASSUME ResultsInv, pc = "ended", NEW name \in Given, NEW k \in Kinds, NEW c \in Columns,
                      \A l \in rated : l[1] = LastFolder(name) => Answers(l, c)
               PROVE  LET d == EntryOf(name, k)
                      IN  /\ Len(d.col[c]) = Len(d.x)
                          /\ \A i \in DOMAIN d.x : d.col[c][i].rate = d.x[i]
    BY DEF ColumnsAligned
  <2> DEFINE f == LastFolder(name)
             vs == Column(f, c, k)
             loads == {m \in rated : <<m[1], m[2], c, k>> \in DOMAIN results}
             rs == RatesOf(f, loads)
  <2>1. /\ FilesTyped /\ EntryOf(name, k) = PolicyData(f, k)
        /\ \A l \in rated : l[1] = f => Fresh(l, c, k)
    BY AtEnd
  <2>2. EntryOf(name, k).col[c] = vs /\ EntryOf(name, k).x = RatedOf(f)
    BY <2>1 DEF PolicyData
  <2>3. RatedOf(f) = rs
    <3>1. {l \in rated : l[1] = f} = {l \in loads : l[1] = f}
      BY <2>1 DEF Fresh
    <3> HIDE DEF loads
    <3> QED
      BY <3>1 DEF RatedOf, RatesOf
  <2>4. /\ vs \in Seq(Latency) /\ rs \in Seq(Nat) /\ Len(vs) = Len(rs)
        /\ \A i \in 1 .. Len(rs) : /\ <<f, rs[i], c, k>> \in DOMAIN results
                                   /\ vs[i] = results[<<f, rs[i], c, k>>]
    <3>1. ColumnRead(f, c, k)
      BY <2>1, ColumnIs
    <3> QED
      BY <3>1, Zenon DEF ColumnRead
  <2> HIDE DEF vs, rs
  <2>5. DOMAIN rs = 1 .. Len(rs)
    BY <2>4, LenProperties
  <2>6. ASSUME NEW i \in DOMAIN rs PROVE vs[i].rate = rs[i]
    <3>1. <<f, rs[i], c, k>> \in DOMAIN results /\ vs[i] = results[<<f, rs[i], c, k>>]
      BY <2>4, <2>5
    <3> QED
      BY <2>1, <3>1 DEF FilesTyped
  <2> QED
    BY <2>2, <2>3, <2>4, <2>6
<1> QED
  BY <1>1, ResultsInvariant, PTL

=============================================================================
