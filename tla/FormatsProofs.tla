----------------------------- MODULE FormatsProofs -----------------------------
(***************************************************************************)
(* Proofs about Formats: HashCovers, WholeIsRead, NeverMisread and OneHost *)
(* for every base, length of a count and set of originals.                 *)
(*                                                                         *)
(* Each function of the models that calls itself is shown to be a Loop, a  *)
(* sequence that ends, and what a Loop keeps is shown by induction over    *)
(* its steps.  From there: what every kind of field, every list and every  *)
(* class writes is read back, whatever follows; the beginning of a code is *)
(* not read; what is hashed can be taken apart; what is read of a block    *)
(* that was too long names another minter.  FormatsInv puts these together *)
(* over any sequence of writes and reads.                                  *)
(***************************************************************************)
EXTENDS FormatsTerms, SequenceTheorems, WellFoundedInduction, TLAPS

-------------------------------------------------------------------------------
(***************************************************************************)
(* Induction, over sets, since it can speak of no operator.                *)
(***************************************************************************)

LEMMA SmallerWellFounded == IsWellFoundedOn(Smaller, Nat)
  BY NatLessThanWellFounded, Zenon DEF OpToRel, Smaller

LEMMA LeastOf ==
    ASSUME NEW S \in SUBSET Nat, S # {}
    PROVE  \E n \in S : \A m \in S : n <= m
  <1>1. \E n \in S : \A m \in S : ~(<<m, n>> \in Smaller) BY WFMin, SmallerWellFounded
  <1>2. PICK n \in S : \A m \in S : ~(<<m, n>> \in Smaller) BY <1>1
  <1>3. ASSUME NEW m \in S PROVE n <= m
    <2>1. <<m, n>> \notin Smaller /\ m \in Nat /\ n \in Nat BY <1>2
    <2> QED BY <2>1 DEF Smaller
  <1> QED BY <1>3

LEMMA SetInduction ==
    ASSUME NEW S, 0 \in S, \A n \in Nat : n \in S => n + 1 \in S
    PROVE  \A n \in Nat : n \in S
  <1> SUFFICES ASSUME NEW m \in Nat, m \notin S PROVE FALSE OBVIOUS
  <1> DEFINE T == Nat \ S
  <1>1. T \in SUBSET Nat /\ T # {} OBVIOUS
  <1>2. PICK x \in T : \A y \in T : x <= y
    <2> HIDE DEF T
    <2> QED BY <1>1, LeastOf
  <1>3. x # 0 /\ x - 1 \in Nat /\ x \in Nat /\ ~(x <= x - 1) OBVIOUS
  <1>4. (x - 1) + 1 \in S BY <1>2, <1>3
  <1> QED BY <1>3, <1>4

-------------------------------------------------------------------------------
(***************************************************************************)
(* Every recursion of the models is a loop: what comes after so many steps *)
(* from a start.                                                           *)
(***************************************************************************)

LEMMA LoopExists == \A x, start : \A n \in Nat : \E f : DOMAIN f = 0..n /\ Goes(f, x, start, n)
  <1> SUFFICES ASSUME NEW x, NEW start PROVE \A n \in Nat : \E f : DOMAIN f = 0..n /\ Goes(f, x, start, n)
    OBVIOUS
  <1> DEFINE S == {n \in Nat : \E f : DOMAIN f = 0..n /\ Goes(f, x, start, n)}
  <1>1. 0 \in S
    <2> DEFINE f == [i \in 0..0 |-> start]
    <2>1. DOMAIN f = 0..0 /\ Goes(f, x, start, 0) BY DEF Goes
    <2> QED BY <2>1
  <1>2. ASSUME NEW n \in Nat, n \in S PROVE n + 1 \in S
    <2>1. PICK f : DOMAIN f = 0..n /\ Goes(f, x, start, n) BY <1>2
    <2> DEFINE g == [i \in 0..(n + 1) |-> IF i = n + 1 THEN Step(x, n + 1, f[n]) ELSE f[i]]
    <2>2. DOMAIN g = 0..(n + 1) /\ g[n + 1] = Step(x, n + 1, f[n]) /\ \A i \in 0..n : g[i] = f[i]
      OBVIOUS
    <2> HIDE DEF g
    <2>3. ASSUME NEW i \in 0..(n + 1) PROVE g[i] = IF i = 0 THEN start ELSE Step(x, i, g[i - 1])
      <3>1. CASE i = n + 1
        BY <2>2, <3>1
      <3>2. CASE i \in 0..n
        <4>1. f[i] = IF i = 0 THEN start ELSE Step(x, i, f[i - 1])
          BY <2>1, <3>2 DEF Goes
        <4>2. i # 0 => i - 1 \in 0..n BY <3>2
        <4> QED BY <2>2, <3>2, <4>1, <4>2
      <3> QED BY <3>1, <3>2
    <2> QED BY <2>2, <2>3 DEF Goes
  <1> HIDE DEF S
  <1>3. \A n \in Nat : n \in S BY <1>1, <1>2, SetInduction
  <1> QED BY <1>3 DEF S

\* Whoever goes the same steps gets there.
LEMMA LoopIs ==
    ASSUME NEW x, NEW start, NEW n \in Nat, NEW f, Goes(f, x, start, n)
    PROVE  f[n] = Loop(x, start, n)
  <1> DEFINE g == CHOOSE g : DOMAIN g = 0..n /\ Goes(g, x, start, n)
             S == {i \in Nat : i <= n => f[i] = g[i]}
  <1>1. Goes(g, x, start, n) BY LoopExists
  <1>2. Loop(x, start, n) = g[n] BY Zenon DEF Loop
  <1> HIDE DEF g
  <1>3. 0 \in S BY <1>1 DEF Goes
  <1>4. ASSUME NEW i \in Nat, i \in S PROVE i + 1 \in S
    <2> SUFFICES ASSUME i + 1 <= n PROVE f[i + 1] = g[i + 1] OBVIOUS
    <2>1. i + 1 \in 0..n /\ i + 1 # 0 /\ (i + 1) - 1 = i /\ f[i] = g[i] BY <1>4
    <2>2. f[i + 1] = Step(x, i + 1, f[(i + 1) - 1]) /\ g[i + 1] = Step(x, i + 1, g[(i + 1) - 1])
      BY <1>1, <2>1 DEF Goes
    <2> QED BY <2>1, <2>2
  <1> HIDE DEF S
  <1>5. \A i \in Nat : i \in S BY <1>3, <1>4, SetInduction
  <1> QED BY <1>2, <1>5 DEF S

LEMMA LoopSteps ==
    /\ \A x, start : Loop(x, start, 0) = start
    /\ \A x, start : \A n \in Nat : Loop(x, start, n + 1) = Step(x, n + 1, Loop(x, start, n))
  <1>1. ASSUME NEW x, NEW start PROVE Loop(x, start, 0) = start
    <2> DEFINE f == [i \in 0..0 |-> start]
    <2>1. Goes(f, x, start, 0) /\ f[0] = start BY DEF Goes
    <2> HIDE DEF f
    <2> QED BY <2>1, LoopIs
  <1>2. ASSUME NEW x, NEW start, NEW n \in Nat PROVE Loop(x, start, n + 1) = Step(x, n + 1, Loop(x, start, n))
    <2>1. PICK f : DOMAIN f = 0..(n + 1) /\ Goes(f, x, start, n + 1)
      <3>1. n + 1 \in Nat OBVIOUS
      <3> QED BY <3>1, LoopExists
    <2>2. Goes(f, x, start, n) BY <2>1 DEF Goes
    <2>3. f[n] = Loop(x, start, n) /\ f[n + 1] = Loop(x, start, n + 1)
      BY <2>1, <2>2, LoopIs
    <2>4. n + 1 \in 0..(n + 1) /\ n + 1 # 0 /\ (n + 1) - 1 = n OBVIOUS
    <2>5. f[n + 1] = Step(x, n + 1, f[(n + 1) - 1]) BY <2>1, <2>4 DEF Goes
    <2> QED BY <2>3, <2>4, <2>5
  <1> QED BY <1>1, <1>2

LEMMA CutLoop ==
    ASSUME NEW n, NEW base, NEW k \in Nat
    PROVE  Cut(n, base, k) = Loop(CutBy(base), n, k)
  <1> DEFINE Is(f) == f = [i \in 0..k |-> IF i = 0 THEN n ELSE f[i - 1] \div base]
             cut   == CHOOSE f : Is(f)
  <1>1. \A i, p : Step(CutBy(base), i, p) = p \div base BY DEF Step, CutBy
  <1>2. \E f : Is(f)
    <2>1. PICK g : DOMAIN g = 0..k /\ Goes(g, CutBy(base), n, k) BY LoopExists
    <2> DEFINE f == [i \in 0..k |-> g[i]]
    <2>2. \A i \in 0..k : f[i] = IF i = 0 THEN n ELSE f[i - 1] \div base
      BY <1>1, <2>1 DEF Goes
    <2>3. f = [i \in 0..k |-> f[i]] OBVIOUS
    <2> HIDE DEF f
    <2>4. Is(f) BY <2>2, <2>3
    <2> HIDE DEF Is
    <2> QED BY <2>4
  <1>3. Cut(n, base, k) = cut[k] BY Zenon DEF Cut
  <1>4. Is(cut)
    <2> HIDE DEF Is
    <2> QED BY <1>2, Zenon
  <1> HIDE DEF cut
  <1>5. Goes(cut, CutBy(base), n, k) BY <1>1, <1>4 DEF Goes
  <1> QED BY <1>3, <1>5, LoopIs

LEMMA NumberLoop ==
    ASSUME NEW start, NEW figures, Len(figures) \in Nat, NEW base
    PROVE  Number(start, figures, base) = Loop(NumberOf(figures, base), start, Len(figures))
  <1> DEFINE Is(f)  == f = [i \in 0..Len(figures) |-> IF i = 0 THEN start ELSE f[i - 1] * base + figures[i]]
             number == CHOOSE f : Is(f)
  <1>1. \A i, p : Step(NumberOf(figures, base), i, p) = p * base + figures[i]
    BY DEF Step, NumberOf
  <1>2. \E f : Is(f)
    <2>1. PICK g : DOMAIN g = 0..Len(figures) /\ Goes(g, NumberOf(figures, base), start, Len(figures))
      BY LoopExists
    <2> DEFINE f == [i \in 0..Len(figures) |-> g[i]]
    <2>2. \A i \in 0..Len(figures) : f[i] = IF i = 0 THEN start ELSE f[i - 1] * base + figures[i]
      BY <1>1, <2>1 DEF Goes
    <2>3. f = [i \in 0..Len(figures) |-> f[i]] OBVIOUS
    <2> HIDE DEF f
    <2>4. Is(f) BY <2>2, <2>3
    <2> HIDE DEF Is
    <2> QED BY <2>4
  <1>3. Number(start, figures, base) = number[Len(figures)] BY Zenon DEF Number
  <1>4. Is(number)
    <2> HIDE DEF Is
    <2> QED BY <1>2, Zenon
  <1> HIDE DEF number
  <1>5. Goes(number, NumberOf(figures, base), start, Len(figures))
    BY <1>1, <1>4 DEF Goes
  <1> QED BY <1>3, <1>5, LoopIs

LEMMA JoinLoop ==
    ASSUME NEW S, NEW seqs \in Seq(Seq(S))
    PROVE  FlattenSeq(seqs) = Loop(Joining(seqs), << >>, Len(seqs))
  <1> DEFINE Is(f) == f = [i \in 1..Len(seqs) |-> IF i = 1 THEN seqs[i] ELSE f[i - 1] \o seqs[i]]
             flatten == CHOOSE f : Is(f)
  <1>1. \A i, p : Step(Joining(seqs), i, p) = p \o seqs[i] BY DEF Step, Joining
  <1>2. CASE Len(seqs) = 0
    <2>1. seqs = << >> BY <1>2
    <2>2. FlattenSeq(seqs) = seqs BY <1>2 DEF FlattenSeq
    <2> QED BY <1>2, <2>1, <2>2, LoopSteps
  <1>3. CASE Len(seqs) # 0
    <2> DEFINE m == Len(seqs)
    <2>1. m \in Nat /\ m # 0 /\ 1 \in 1..m /\ m \in 1..m BY <1>3
    <2>2. PICK g : DOMAIN g = 0..m /\ Goes(g, Joining(seqs), << >>, m)
      BY <2>1, LoopExists
    <2>3. g[0] = << >> /\ \A i \in 1..m : g[i] = g[i - 1] \o seqs[i]
      <3>1. ASSUME NEW i \in 1..m PROVE g[i] = g[i - 1] \o seqs[i]
        <4>1. i \in 0..m /\ i # 0 BY <2>1
        <4>2. g[i] = Step(Joining(seqs), i, g[i - 1]) BY <2>2, <4>1 DEF Goes
        <4> QED BY <1>1, <4>2
      <3>2. 0 \in 0..m BY <2>1
      <3>3. g[0] = << >> BY <2>2, <3>2 DEF Goes
      <3> QED BY <3>1, <3>3
    <2>4. g[1] = seqs[1]
      <3>1. 1 - 1 = 0 /\ seqs[1] \in Seq(S) BY <2>1
      <3>2. g[1] = << >> \o seqs[1] BY <2>1, <2>3, <3>1
      <3> QED BY <3>1, <3>2
    <2>5. \E f : Is(f)
      <3> DEFINE f == [i \in 1..m |-> g[i]]
      <3>1. \A i \in 1..m : f[i] = IF i = 1 THEN seqs[i] ELSE f[i - 1] \o seqs[i]
        <4> SUFFICES ASSUME NEW i \in 1..m PROVE f[i] = IF i = 1 THEN seqs[i] ELSE f[i - 1] \o seqs[i]
          OBVIOUS
        <4>1. CASE i = 1
          BY <2>1, <2>4, <4>1
        <4>2. CASE i # 1
          <5>1. i - 1 \in 1..m BY <2>1, <4>2
          <5> QED BY <2>3, <4>2, <5>1
        <4> QED BY <4>1, <4>2
      <3>2. f = [i \in 1..m |-> f[i]] OBVIOUS
      <3> HIDE DEF f
      <3>3. Is(f) BY <3>1, <3>2
      <3> HIDE DEF Is
      <3> QED BY <3>3
    <2>6. FlattenSeq(seqs) = flatten[Len(seqs)] BY <1>3, Zenon DEF FlattenSeq
    <2>7. Is(flatten)
      <3> HIDE DEF Is
      <3> QED BY <2>5, Zenon
    <2> HIDE DEF flatten
    <2> DEFINE h == [i \in 0..m |-> IF i = 0 THEN << >> ELSE flatten[i]]
    <2>8. \A i \in 1..m : flatten[i] = IF i = 1 THEN seqs[i] ELSE flatten[i - 1] \o seqs[i]
      BY <2>7
    <2> HIDE DEF Is
    <2>9. Goes(h, Joining(seqs), << >>, m) /\ h[m] = flatten[m]
      <3>1. ASSUME NEW i \in 0..m PROVE h[i] = IF i = 0 THEN << >> ELSE Step(Joining(seqs), i, h[i - 1])
        <4>1. CASE i = 0
          BY <4>1
        <4>2. CASE i = 1
          <5>1. h[1] = seqs[1] /\ h[0] = << >> /\ seqs[1] \in Seq(S) BY <2>1, <2>8
          <5>2. << >> \o seqs[1] = seqs[1] BY <5>1
          <5>3. i - 1 = 0 /\ i # 0 BY <4>2
          <5> QED BY <1>1, <4>2, <5>1, <5>2, <5>3
        <4>3. CASE i \in 2..m
          <5>1. i \in 1..m /\ i # 1 /\ i - 1 \in 1..m /\ i - 1 \in 0..m /\ i # 0 /\ i - 1 # 0
            BY <2>1, <4>3
          <5>2. h[i] = flatten[i] /\ h[i - 1] = flatten[i - 1] /\ flatten[i] = flatten[i - 1] \o seqs[i]
            BY <2>8, <5>1
          <5> QED BY <1>1, <4>3, <5>2
        <4> QED BY <4>1, <4>2, <4>3
      <3> QED BY <2>1, <3>1 DEF Goes
    <2> HIDE DEF h
    <2>10. h[m] = Loop(Joining(seqs), << >>, m) BY <2>1, <2>9, LoopIs
    <2> QED BY <2>6, <2>9, <2>10
  <1> QED BY <1>2, <1>3

LEMMA ItemsLoop ==
    ASSUME NEW inner, NEW class, NEW read, NEW len, ToInt(Upto(read, len)) \in Nat
    PROVE  DecodeArray(inner, read, len, class)
               = Loop(ItemsOf(inner, class, read), Decoded(<< >>, len), ToInt(Upto(read, len)))
  <1> DEFINE n     == ToInt(Upto(read, len))
             x     == ItemsOf(inner, class, read)
             Is(f) == f = [i \in 0..n |->
                             IF i = 0 THEN Decoded(<< >>, len) ELSE NextItem(inner, class, read, f[i - 1])]
             items == CHOOSE f : Is(f)
  <1>1. \A i, p : Step(x, i, p) = NextItem(inner, class, read, p) BY DEF Step, ItemsOf
  <1>2. DecodeArray(inner, read, len, class) = items[n] BY Zenon DEF DecodeArray
  <1> HIDE DEF x, n
  <1>3. n \in Nat BY DEF n
  <1>4. \E f : Is(f)
    <2>1. PICK g : DOMAIN g = 0..n /\ Goes(g, x, Decoded(<< >>, len), n)
      BY <1>3, LoopExists
    <2> DEFINE f == [i \in 0..n |-> g[i]]
    <2>2. \A i \in 0..n : f[i] = IF i = 0 THEN Decoded(<< >>, len) ELSE NextItem(inner, class, read, f[i - 1])
      BY <1>1, <1>3, <2>1 DEF Goes
    <2>3. f = [i \in 0..n |-> f[i]] OBVIOUS
    <2> HIDE DEF f
    <2>4. Is(f) BY <2>2, <2>3
    <2> HIDE DEF Is
    <2> QED BY <2>4
  <1>5. Is(items)
    <2> HIDE DEF Is
    <2> QED BY <1>4, Zenon
  <1> HIDE DEF items
  <1>6. Goes(items, x, Decoded(<< >>, len), n) BY <1>1, <1>5 DEF Goes
  <1>7. items[n] = Loop(x, Decoded(<< >>, len), n) BY <1>3, <1>6, LoopIs
  <1> QED BY <1>2, <1>7 DEF n, x

LEMMA FieldsLoop ==
    ASSUME NEW inner, NEW class, NEW read, Len(Settings(class)) \in Nat
    PROVE  DecodeFields(inner, class, read)
               = Loop(FieldsOf(inner, class, read), Decoded(Blank(class), 0), Len(Settings(class)))
  <1> DEFINE n      == Len(Settings(class))
             x      == FieldsOf(inner, class, read)
             Is(f)  == f = [i \in 0..n |->
                              IF i = 0 THEN Decoded(Blank(class), 0)
                              ELSE NextField(inner, Settings(class)[i], read, f[i - 1])]
             object == CHOOSE f : Is(f)
  <1>1. \A i, p : Step(x, i, p) = NextField(inner, Settings(class)[i], read, p)
    BY DEF Step, FieldsOf
  <1>2. DecodeFields(inner, class, read) = object[n] BY Zenon DEF DecodeFields
  <1> HIDE DEF x, n
  <1>3. n \in Nat BY DEF n
  <1>4. \E f : Is(f)
    <2>1. PICK g : DOMAIN g = 0..n /\ Goes(g, x, Decoded(Blank(class), 0), n)
      BY <1>3, LoopExists
    <2> DEFINE f == [i \in 0..n |-> g[i]]
    <2>2. \A i \in 0..n : f[i] = IF i = 0 THEN Decoded(Blank(class), 0)
                                 ELSE NextField(inner, Settings(class)[i], read, f[i - 1])
      BY <1>1, <1>3, <2>1 DEF Goes
    <2>3. f = [i \in 0..n |-> f[i]] OBVIOUS
    <2> HIDE DEF f
    <2>4. Is(f) BY <2>2, <2>3
    <2> HIDE DEF Is
    <2> QED BY <2>4
  <1>5. Is(object)
    <2> HIDE DEF Is
    <2> QED BY <1>4, Zenon
  <1> HIDE DEF object
  <1>6. Goes(object, x, Decoded(Blank(class), 0), n) BY <1>1, <1>5 DEF Goes
  <1>7. object[n] = Loop(x, Decoded(Blank(class), 0), n) BY <1>3, <1>6, LoopIs
  <1> QED BY <1>2, <1>7 DEF n, x

-------------------------------------------------------------------------------
(***************************************************************************)
(* Numbers and their figures.                                              *)
(***************************************************************************)

LEMMA Division ==
    ASSUME NEW q \in Nat, NEW base \in Nat \ {0}, NEW r \in 0..(base - 1)
    PROVE  (q * base + r) \div base = q /\ (q * base + r) % base = r /\ q * base + r \in Nat
  OBVIOUS

LEMMA Quotient ==
    ASSUME NEW n \in Nat, NEW base \in Nat \ {0}
    PROVE  /\ n \div base \in Nat /\ (n % base) \in 0..(base - 1)
           /\ n = (n \div base) * base + (n % base)
           /\ base > 1 /\ n > 0 => n \div base < n
  <1> DEFINE q == n \div base
             r == n % base
  <1>1. n = base * q + r /\ q \in Nat /\ r \in 0..(base - 1) OBVIOUS
  <1> HIDE DEF q, r
  <1>2. base * q = q * base BY <1>1
  <1>3. ASSUME base > 1, n > 0 PROVE q < n
    <2>1. q = 0 \/ q * base >= q + q
      <3>1. q * base = q * (base - 2) + (q + q) /\ q * (base - 2) >= 0
        <4>1. base - 2 \in Nat BY <1>3
        <4> QED BY <1>1, <4>1
      <3> QED BY <1>1, <3>1
    <2>2. q * base \in Nat BY <1>1
    <2> QED BY <1>1, <1>2, <1>3, <2>1, <2>2
  <1> QED BY <1>1, <1>2, <1>3 DEF q, r

LEMMA CutSteps ==
    ASSUME NEW n \in Nat, NEW base \in Nat \ {0}
    PROVE  /\ Cut(n, base, 0) = n
           /\ \A k \in Nat : Cut(n, base, k) \in Nat /\ Cut(n, base, k + 1) = Cut(n, base, k) \div base
  <1> DEFINE x == CutBy(base)
  <1>1. \A i, p : Step(x, i, p) = p \div base BY DEF Step, CutBy
  <1>2. \A k \in Nat : Cut(n, base, k) = Loop(x, n, k) BY CutLoop
  <1> HIDE DEF x
  <1>3. Cut(n, base, 0) = n /\ \A k \in Nat : Cut(n, base, k + 1) = Cut(n, base, k) \div base
    <2>1. ASSUME NEW k \in Nat PROVE Cut(n, base, k + 1) = Cut(n, base, k) \div base
      <3>1. k + 1 \in Nat OBVIOUS
      <3> QED BY <1>1, <1>2, <3>1, LoopSteps
    <2> QED BY <1>2, <2>1, LoopSteps
  <1> DEFINE S == {k \in Nat : Cut(n, base, k) \in Nat}
  <1>4. 0 \in S BY <1>3
  <1>5. ASSUME NEW k \in Nat, k \in S PROVE k + 1 \in S
    <2>1. Cut(n, base, k) \div base \in Nat BY <1>5, Quotient
    <2> QED BY <1>3, <2>1
  <1> HIDE DEF S
  <1>6. \A k \in Nat : k \in S BY <1>4, <1>5, SetInduction
  <1> QED BY <1>3, <1>6 DEF S

\* What is left gets smaller until nothing is left.
LEMMA CutDown ==
    ASSUME NEW n \in Nat, NEW base \in Nat \ {0, 1}, NEW k \in Nat
    PROVE  /\ Cut(n, base, k) = 0 \/ Cut(n, base, k) + k <= n
           /\ Cut(n, base, k) = 0 => \A j \in Nat : j >= k => Cut(n, base, j) = 0
  <1>1. /\ Cut(n, base, 0) = n
        /\ \A j \in Nat : Cut(n, base, j) \in Nat /\ Cut(n, base, j + 1) = Cut(n, base, j) \div base
    BY CutSteps
  <1>2. 0 \div base = 0 OBVIOUS
  <1> DEFINE S == {j \in Nat : Cut(n, base, j) = 0 \/ Cut(n, base, j) + j <= n}
             T == {i \in Nat : Cut(n, base, k) = 0 => Cut(n, base, k + i) = 0}
  <1>3. 0 \in S /\ 0 \in T BY <1>1
  <1>4. ASSUME NEW j \in Nat, j \in S PROVE j + 1 \in S
    <2>1. Cut(n, base, j) > 0 => Cut(n, base, j) \div base < Cut(n, base, j)
      <3>1. base \in Nat \ {0} /\ base > 1 /\ Cut(n, base, j) \in Nat BY <1>1
      <3> QED BY <3>1, Quotient
    <2>2. Cut(n, base, j + 1) \in Nat BY <1>1
    <2> QED BY <1>1, <1>2, <1>4, <2>1, <2>2
  <1>5. ASSUME NEW i \in Nat, i \in T PROVE i + 1 \in T
    <2>1. Cut(n, base, (k + i) + 1) = Cut(n, base, k + i) \div base BY <1>1
    <2> QED BY <1>2, <1>5, <2>1
  <1> HIDE DEF S, T
  <1>6. (\A j \in Nat : j \in S) /\ (\A i \in Nat : i \in T)
    BY <1>3, <1>4, <1>5, SetInduction
  <1>7. ASSUME Cut(n, base, k) = 0, NEW j \in Nat, j >= k PROVE Cut(n, base, j) = 0
    <2>1. j - k \in T /\ k + (j - k) = j BY <1>6, <1>7
    <2> QED BY <1>7, <2>1 DEF T
  <1> QED BY <1>6, <1>7 DEF S

LEMMA WidthIs ==
    ASSUME NEW n \in Nat, NEW base \in Nat \ {0, 1}
    PROVE  /\ Width(n, base) \in Nat
           /\ Cut(n, base, Width(n, base)) = 0
           /\ \A k \in Nat : k < Width(n, base) <=> Cut(n, base, k) # 0
  <1> DEFINE Fits0(len) == Cut(n, base, len) = 0 /\ \A k \in 0..(len - 1) : Cut(n, base, k) # 0
             S == {k \in Nat : Cut(n, base, k) = 0}
  <1>1. n \in S
    <2>1. Cut(n, base, n) \in Nat BY CutSteps
    <2> QED BY <2>1, CutDown
  <1>2. PICK len \in S : \A m \in S : len <= m
    <2>1. S # {} /\ S \in SUBSET Nat BY <1>1
    <2> HIDE DEF S
    <2> QED BY <2>1, LeastOf
  <1>3. len \in 0..n /\ Fits0(len)
    <2>1. \A k \in 0..(len - 1) : k \notin S BY <1>2
    <2> QED BY <1>1, <1>2, <2>1
  <1>4. Width(n, base) \in 0..n /\ Fits0(Width(n, base))
    <2>1. Width(n, base) = CHOOSE l \in 0..n : Fits0(l) BY DEF Width
    <2> HIDE DEF Fits0
    <2> QED BY <1>3, <2>1
  <1>5. ASSUME NEW k \in Nat PROVE k < Width(n, base) <=> Cut(n, base, k) # 0
    <2>1. k < Width(n, base) => k \in 0..(Width(n, base) - 1) BY <1>4
    <2>2. k >= Width(n, base) => Cut(n, base, k) = 0 BY <1>4, CutDown
    <2> QED BY <1>4, <2>1, <2>2
  <1> QED BY <1>4, <1>5

LEMMA NumberSteps ==
    ASSUME NEW start \in Nat, NEW figures \in Seq(Nat), NEW base \in Nat
    PROVE  /\ NumberUpto(start, figures, base, 0) = start
           /\ \A i \in 0..Len(figures) : NumberUpto(start, figures, base, i) \in Nat
           /\ \A i \in 1..Len(figures) :
                 NumberUpto(start, figures, base, i) = NumberUpto(start, figures, base, i - 1) * base + figures[i]
           /\ Number(start, figures, base) = NumberUpto(start, figures, base, Len(figures))
  <1> DEFINE x == NumberOf(figures, base)
             upto(i) == Loop(x, start, i)
  <1>1. \A i, p : Step(x, i, p) = p * base + figures[i] BY DEF Step, NumberOf
  <1>2. Len(figures) \in Nat /\ Number(start, figures, base) = upto(Len(figures))
    BY NumberLoop
  <1> HIDE DEF x
  <1>3. upto(0) = start BY LoopSteps
  <1>4. ASSUME NEW i \in 1..Len(figures) PROVE upto(i) = upto(i - 1) * base + figures[i]
    <2>1. i - 1 \in Nat /\ (i - 1) + 1 = i BY <1>2
    <2>2. Loop(x, start, (i - 1) + 1) = Step(x, (i - 1) + 1, Loop(x, start, i - 1))
      BY <2>1, LoopSteps, Zenon
    <2> QED BY <1>1, <2>1, <2>2
  <1> DEFINE S == {i \in Nat : i <= Len(figures) => upto(i) \in Nat}
  <1>5. 0 \in S BY <1>3
  <1>6. ASSUME NEW i \in Nat, i \in S PROVE i + 1 \in S
    <2> SUFFICES ASSUME i + 1 <= Len(figures) PROVE upto(i + 1) \in Nat OBVIOUS
    <2>1. i + 1 \in 1..Len(figures) /\ (i + 1) - 1 = i /\ upto(i) \in Nat BY <1>2, <1>6
    <2>2. upto(i + 1) = upto(i) * base + figures[i + 1] /\ figures[i + 1] \in Nat
      <3>1. figures[i + 1] \in Nat BY <2>1
      <3> HIDE DEF upto
      <3> QED BY <1>4, <2>1, <3>1
    <2> QED BY <2>1, <2>2
  <1> HIDE DEF S
  <1>7. \A i \in Nat : i \in S BY <1>5, <1>6, SetInduction
  <1>8. \A i \in 0..Len(figures) : upto(i) \in Nat BY <1>2, <1>7 DEF S
  <1> HIDE DEF upto
  <1>9. /\ upto(0) = start
        /\ \A i \in 0..Len(figures) : upto(i) \in Nat
        /\ \A i \in 1..Len(figures) : upto(i) = upto(i - 1) * base + figures[i]
        /\ Number(start, figures, base) = upto(Len(figures))
    BY <1>2, <1>3, <1>4, <1>8
  <1> QED BY <1>9 DEF upto, x, NumberUpto

\* The last figures of n, and what is left without them, are n.
LEMMA NumberOfFigures ==
    ASSUME NEW n \in Nat, NEW base \in Nat \ {0}, NEW len \in Nat
    PROVE  /\ Figures(n, base, len) \in Seq(0..(base - 1)) /\ Len(Figures(n, base, len)) = len
           /\ Number(Cut(n, base, len), Figures(n, base, len), base) = n
  <1> DEFINE figures == Figures(n, base, len)
             start   == Cut(n, base, len)
             upto(i) == NumberUpto(start, figures, base, i)
  <1>1. /\ Cut(n, base, 0) = n
        /\ \A k \in Nat : Cut(n, base, k) \in Nat /\ Cut(n, base, k + 1) = Cut(n, base, k) \div base
    BY CutSteps
  <1>2. \A i \in 1..len : figures[i] = Cut(n, base, len - i) % base BY DEF Figures
  <1>3. \A i \in 1..len : figures[i] \in 0..(base - 1)
    <2> SUFFICES ASSUME NEW i \in 1..len PROVE figures[i] \in 0..(base - 1) OBVIOUS
    <2>1. len - i \in Nat OBVIOUS
    <2>2. Cut(n, base, len - i) \in Nat BY <1>1, <2>1
    <2>3. (Cut(n, base, len - i) % base) \in 0..(base - 1) BY <2>2, Quotient
    <2> QED BY <1>2, <2>3
  <1>4. figures = [i \in 1..len |-> figures[i]] BY DEF Figures
  <1> HIDE DEF figures
  <1>5. figures \in Seq(0..(base - 1)) /\ Len(figures) = len /\ figures \in Seq(Nat)
    BY <1>3, <1>4
  <1>6. /\ upto(0) = start
        /\ \A i \in 1..len : upto(i) = upto(i - 1) * base + figures[i]
        /\ Number(start, figures, base) = upto(len)
    <2>1. start \in Nat /\ base \in Nat BY <1>1
    <2>2. /\ upto(0) = start
          /\ \A i \in 1..Len(figures) : upto(i) = upto(i - 1) * base + figures[i]
          /\ Number(start, figures, base) = upto(Len(figures))
      <3>1. start \in Nat /\ base \in Nat /\ figures \in Seq(Nat) BY <1>5, <2>1
      <3> HIDE DEF start
      <3> QED BY ONLY <3>1, NumberSteps
    <2> QED BY <1>5, <2>2
  <1> DEFINE S == {i \in Nat : i <= len => upto(i) = Cut(n, base, len - i)}
  <1>7. 0 \in S BY <1>6
  <1>8. ASSUME NEW i \in Nat, i \in S PROVE i + 1 \in S
    <2> SUFFICES ASSUME i + 1 <= len PROVE upto(i + 1) = Cut(n, base, len - (i + 1))
      OBVIOUS
    <2> DEFINE c == Cut(n, base, len - (i + 1))
    <2>1. len - (i + 1) \in Nat /\ (len - (i + 1)) + 1 = len - i /\ i + 1 \in 1..len /\ (i + 1) - 1 = i
      OBVIOUS
    <2>2. c \in Nat /\ Cut(n, base, len - i) = c \div base BY <1>1, <2>1
    <2>3. upto(i) = c \div base BY <1>8, <2>2
    <2>4. upto(i + 1) = upto(i) * base + figures[i + 1]
      <3> HIDE DEF upto
      <3> QED BY <1>6, <2>1
    <2>5. figures[i + 1] = c % base BY <1>2, <2>1
    <2>6. c = (c \div base) * base + (c % base) BY <2>2, Quotient
    <2> HIDE DEF c, upto
    <2>7. upto(i + 1) = c BY <2>3, <2>4, <2>5, <2>6
    <2> QED BY <2>7 DEF c
  <1> HIDE DEF S
  <1>9. len \in S BY <1>7, <1>8, SetInduction
  <1>10. upto(len) = n BY <1>1, <1>9 DEF S
  <1> QED BY <1>5, <1>6, <1>10 DEF figures

\* The figures of the number that was made of them.
LEMMA FiguresOfNumber ==
    ASSUME NEW start \in Nat, NEW base \in Nat \ {0}, NEW figures \in Seq(0..(base - 1))
    PROVE  LET n == Number(start, figures, base)
           IN  n \in Nat /\ Cut(n, base, Len(figures)) = start /\ Figures(n, base, Len(figures)) = figures
  <1> DEFINE len     == Len(figures)
             n       == Number(start, figures, base)
             upto(i) == NumberUpto(start, figures, base, i)
  <1>1. len \in Nat /\ figures \in Seq(Nat) /\ base \in Nat OBVIOUS
  <1>2. /\ upto(0) = start
        /\ \A i \in 0..len : upto(i) \in Nat
        /\ \A i \in 1..len : upto(i) = upto(i - 1) * base + figures[i]
        /\ n = upto(len)
    BY <1>1, NumberSteps
  <1> HIDE DEF upto, n
  <1>3. n \in Nat BY <1>1, <1>2
  <1>4. /\ Cut(n, base, 0) = n
        /\ \A k \in Nat : Cut(n, base, k) \in Nat /\ Cut(n, base, k + 1) = Cut(n, base, k) \div base
    BY <1>3, CutSteps
  <1>5. ASSUME NEW i \in 1..len
        PROVE  upto(i) \div base = upto(i - 1) /\ upto(i) % base = figures[i]
    <2>1. i - 1 \in 0..len /\ figures[i] \in 0..(base - 1) BY <1>1
    <2>2. upto(i - 1) \in Nat BY <1>2, <2>1
    <2>3. upto(i) = upto(i - 1) * base + figures[i] BY <1>2
    <2> DEFINE q == upto(i - 1)
               r == figures[i]
    <2>4. q \in Nat /\ r \in 0..(base - 1) /\ upto(i) = q * base + r BY <2>1, <2>2, <2>3
    <2> HIDE DEF q, r
    <2>5. (q * base + r) \div base = q /\ (q * base + r) % base = r BY <2>4, Division
    <2> QED BY <2>4, <2>5 DEF q, r
  <1> DEFINE S == {k \in Nat : k <= len => Cut(n, base, k) = upto(len - k)}
  <1>6. 0 \in S BY <1>1, <1>2, <1>4
  <1>7. ASSUME NEW k \in Nat, k \in S PROVE k + 1 \in S
    <2> SUFFICES ASSUME k + 1 <= len PROVE Cut(n, base, k + 1) = upto(len - (k + 1))
      OBVIOUS
    <2>1. len - k \in 1..len /\ (len - k) - 1 = len - (k + 1) BY <1>1
    <2>2. Cut(n, base, k) = upto(len - k) BY <1>1, <1>7
    <2>3. upto(len - k) \div base = upto((len - k) - 1) BY <1>5, <2>1
    <2> QED BY <1>4, <2>1, <2>2, <2>3
  <1> HIDE DEF S
  <1>8. \A k \in Nat : k \in S BY <1>6, <1>7, SetInduction
  <1>9. Cut(n, base, len) = start BY <1>1, <1>2, <1>8 DEF S
  <1>10. ASSUME NEW i \in 1..len PROVE Cut(n, base, len - i) % base = figures[i]
    <2>1. len - i \in Nat /\ len - i <= len /\ len - (len - i) = i BY <1>1
    <2>2. Cut(n, base, len - i) = upto(i) BY <1>8, <2>1 DEF S
    <2> QED BY <1>5, <2>2
  <1>11. Figures(n, base, len) = figures
    <2>1. Figures(n, base, len) = [i \in 1..len |-> Cut(n, base, len - i) % base]
      BY DEF Figures
    <2>2. [i \in 1..len |-> Cut(n, base, len - i) % base] = [i \in 1..len |-> figures[i]]
      BY <1>10
    <2>3. figures = [i \in 1..len |-> figures[i]] OBVIOUS
    <2> QED BY <2>1, <2>2, <2>3
  <1> QED BY <1>3, <1>9, <1>11 DEF n

-------------------------------------------------------------------------------
(***************************************************************************)
(* Parts of sequences.                                                     *)
(***************************************************************************)

LEMMA PartsOf ==
    ASSUME NEW S, NEW p \in Seq(S), NEW l \in Nat
    PROVE  /\ Upto(p, l) \in Seq(S)
           /\ Len(Upto(p, l)) = IF l < Len(p) THEN l ELSE Len(p)
           /\ \A i \in 1..Len(Upto(p, l)) : Upto(p, l)[i] = p[i]
           /\ From(p, l) \in Seq(S)
           /\ Len(From(p, l)) = IF l < Len(p) THEN Len(p) - l ELSE 0
           /\ \A i \in 1..Len(From(p, l)) : From(p, l)[i] = p[l + i]
  <1>1. Len(p) \in Nat /\ \A i \in 1..Len(p) : p[i] \in S OBVIOUS
  <1> DEFINE m == IF l < Len(p) THEN l ELSE Len(p)
  <1>2. m \in Nat /\ m \in 0..Len(p) BY <1>1
  <1>3. /\ SubSeq(p, 1, m) \in Seq(S)
        /\ Len(SubSeq(p, 1, m)) = IF 1 <= m THEN m - 1 + 1 ELSE 0
        /\ \A i \in 1..(m - 1 + 1) : SubSeq(p, 1, m)[i] = p[1 + i - 1]
    <2> HIDE DEF m
    <2>1. \A i \in 1..m : p[i] \in S BY <1>1, <1>2
    <2>2. 1 \in Int /\ m \in Int BY <1>2
    <2> QED BY <2>1, <2>2, SubSeqProperties
  <1>4. /\ SubSeq(p, l + 1, Len(p)) \in Seq(S)
        /\ Len(SubSeq(p, l + 1, Len(p))) = IF l + 1 <= Len(p) THEN Len(p) - (l + 1) + 1 ELSE 0
        /\ \A i \in 1..(Len(p) - (l + 1) + 1) : SubSeq(p, l + 1, Len(p))[i] = p[(l + 1) + i - 1]
    <2>1. l + 1 \in Int /\ Len(p) \in Int /\ \A i \in (l + 1)..Len(p) : p[i] \in S
      BY <1>1
    <2> QED BY <2>1, SubSeqProperties
  <1>5. Upto(p, l) = SubSeq(p, 1, m) /\ From(p, l) = SubSeq(p, l + 1, Len(p))
    BY DEF Upto, From
  <1> HIDE DEF m
  <1>6. Len(Upto(p, l)) = m /\ \A i \in 1..m : Upto(p, l)[i] = p[i] BY <1>2, <1>3, <1>5
  <1> DEFINE k == IF l < Len(p) THEN Len(p) - l ELSE 0
  <1>7. Len(From(p, l)) = k /\ \A i \in 1..k : From(p, l)[i] = p[l + i]
    BY <1>1, <1>4, <1>5
  <1> QED BY <1>3, <1>4, <1>5, <1>6, <1>7 DEF m

LEMMA PartsWithin ==
    ASSUME NEW S, NEW p \in Seq(S), NEW l \in 0..Len(p)
    PROVE  /\ Upto(p, l) \in Seq(S) /\ Len(Upto(p, l)) = l
           /\ \A i \in 1..l : Upto(p, l)[i] = p[i]
           /\ From(p, l) \in Seq(S) /\ Len(From(p, l)) = Len(p) - l
           /\ \A i \in 1..(Len(p) - l) : From(p, l)[i] = p[l + i]
  <1>1. l \in Nat /\ Len(p) \in Nat /\ l <= Len(p) OBVIOUS
  <1>2. /\ Upto(p, l) \in Seq(S)
        /\ Len(Upto(p, l)) = IF l < Len(p) THEN l ELSE Len(p)
        /\ \A i \in 1..Len(Upto(p, l)) : Upto(p, l)[i] = p[i]
        /\ From(p, l) \in Seq(S)
        /\ Len(From(p, l)) = IF l < Len(p) THEN Len(p) - l ELSE 0
        /\ \A i \in 1..Len(From(p, l)) : From(p, l)[i] = p[l + i]
    BY <1>1, PartsOf
  <1>3. Len(Upto(p, l)) = l /\ Len(From(p, l)) = Len(p) - l BY <1>1, <1>2
  <1> QED BY <1>2, <1>3

\* What is behind does not matter to a beginning.
LEMMA PartsOfMore ==
    ASSUME NEW S, NEW p \in Seq(S), NEW t \in Seq(S), NEW l \in Nat, l <= Len(p)
    PROVE  Upto(p \o t, l) = Upto(p, l) /\ From(p \o t, l) = From(p, l) \o t
  <1> DEFINE q == p \o t
  <1>1. /\ q \in Seq(S) /\ Len(q) = Len(p) + Len(t) /\ Len(p) \in Nat /\ Len(t) \in Nat
        /\ \A i \in 1..(Len(p) + Len(t)) : q[i] = IF i <= Len(p) THEN p[i] ELSE t[i - Len(p)]
    BY ConcatProperties
  <1> HIDE DEF q
  <1>2. /\ Upto(p, l) \in Seq(S) /\ Len(Upto(p, l)) = l
        /\ \A i \in 1..l : Upto(p, l)[i] = p[i]
        /\ From(p, l) \in Seq(S) /\ Len(From(p, l)) = Len(p) - l
        /\ \A i \in 1..(Len(p) - l) : From(p, l)[i] = p[l + i]
    <2>1. l \in 0..Len(p) BY <1>1
    <2> QED BY <2>1, PartsWithin
  <1>3. /\ Upto(q, l) \in Seq(S) /\ Len(Upto(q, l)) = l
        /\ \A i \in 1..l : Upto(q, l)[i] = q[i]
        /\ From(q, l) \in Seq(S) /\ Len(From(q, l)) = Len(q) - l
        /\ \A i \in 1..(Len(q) - l) : From(q, l)[i] = q[l + i]
    <2>1. q \in Seq(S) /\ l \in 0..Len(q) BY <1>1
    <2> QED BY <2>1, PartsWithin
  <1>4. Upto(q, l) = Upto(p, l)
    <2>1. \A i \in 1..l : Upto(q, l)[i] = Upto(p, l)[i] BY <1>1, <1>2, <1>3
    <2> QED BY <1>2, <1>3, <2>1, SeqEqual
  <1> DEFINE u == From(p, l) \o t
             d == Len(p) - l
  <1>5. /\ u \in Seq(S) /\ Len(u) = d + Len(t)
        /\ \A i \in 1..(d + Len(t)) : u[i] = IF i <= d THEN From(p, l)[i] ELSE t[i - d]
    <2> DEFINE v == From(p, l)
    <2>1. v \in Seq(S) /\ Len(v) = d BY <1>2
    <2> HIDE DEF v, d
    <2>2. /\ v \o t \in Seq(S) /\ Len(v \o t) = Len(v) + Len(t)
          /\ \A i \in 1..(Len(v) + Len(t)) : (v \o t)[i] = IF i <= Len(v) THEN v[i] ELSE t[i - Len(v)]
      BY ONLY <2>1, t \in Seq(S), ConcatProperties
    <2> QED BY <2>1, <2>2 DEF v
  <1> HIDE DEF u
  <1>6. d \in Nat /\ Len(q) - l = d + Len(t) BY <1>1
  <1>7. ASSUME NEW i \in 1..(d + Len(t)) PROVE From(q, l)[i] = u[i]
    <2>1. i \in 1..(Len(q) - l) /\ l + i \in 1..(Len(p) + Len(t)) BY <1>1, <1>6
    <2>2. From(q, l)[i] = IF l + i <= Len(p) THEN p[l + i] ELSE t[(l + i) - Len(p)]
      BY <1>1, <1>3, <2>1
    <2>3. u[i] = IF i <= d THEN p[l + i] ELSE t[i - d] BY <1>2, <1>5, <1>6
    <2>4. (l + i <= Len(p) <=> i <= d) /\ (l + i) - Len(p) = i - d BY <1>1, <2>1
    <2> QED BY <2>2, <2>3, <2>4
  <1>8. From(q, l) = u BY <1>3, <1>5, <1>6, <1>7, SeqEqual
  <1> QED BY <1>4, <1>8 DEF q, u

LEMMA PartsOfBoth ==
    ASSUME NEW S, NEW p \in Seq(S), NEW t \in Seq(S)
    PROVE  Upto(p \o t, Len(p)) = p /\ From(p \o t, Len(p)) = t
  <1>1. Len(p) \in Nat /\ Len(p) <= Len(p) OBVIOUS
  <1>2. Upto(p \o t, Len(p)) = Upto(p, Len(p)) /\ From(p \o t, Len(p)) = From(p, Len(p)) \o t
    BY <1>1, PartsOfMore
  <1>3. Upto(p, Len(p)) = p
    <2>1. /\ Upto(p, Len(p)) \in Seq(S) /\ Len(Upto(p, Len(p))) = Len(p)
          /\ \A i \in 1..Len(p) : Upto(p, Len(p))[i] = p[i]
      BY <1>1, PartsOf
    <2> QED BY <2>1, SeqEqual
  <1>4. From(p, Len(p)) = << >>
    <2>1. From(p, Len(p)) \in Seq(S) /\ Len(From(p, Len(p))) = 0 BY <1>1, PartsOf
    <2> QED BY <2>1
  <1>5. << >> \o t = t BY ConcatEmptySeq
  <1> QED BY <1>2, <1>3, <1>4, <1>5

-------------------------------------------------------------------------------
(***************************************************************************)
(* Bytes.                                                                  *)
(***************************************************************************)

LEMMA BaseFacts ==
    /\ Radix \in Nat /\ Radix > 2
    /\ Base \in Nat \ {0, 1} /\ Base > 2 * Radix /\ Base = Radix * Radix
  <1>1. Radix \in Nat /\ Radix > 2 /\ Base = Radix * Radix
    BY EncodingAssumption DEF Base
  <1>2. Radix - 3 \in Nat /\ Radix * Radix = (Radix - 3) * Radix + 3 * Radix BY <1>1
  <1>3. (Radix - 3) * Radix \in Nat BY <1>1, <1>2
  <1> QED BY <1>1, <1>2, <1>3

LEMMA ElementFacts ==
    /\ Digit \subseteq Elements
    /\ \A e \in Elements : Len(e) = 1 <=> e \in Digit
    /\ \A e \in Digit : e[1] \in 0..(Base - 1) /\ e = <<e[1]>>
    /\ \A d \in 0..(Base - 1) : <<d>> \in Digit
  <1>1. \A e \in Digit : e[1] \in 0..(Base - 1) /\ e = <<e[1]>> /\ Len(e) = 1
    BY DEF Digit
  <1>2. \A d \in 0..(Base - 1) : <<d>> \in Digit BY DEF Digit
  <1>3. \A e \in Atoms : Len(e) # 1 BY EncodingAssumption
  <1> QED BY <1>1, <1>2, <1>3 DEF Elements

LEMMA ToIntOf ==
    ASSUME NEW read \in Seq(Elements)
    PROVE  ToInt(read) \in Nat /\ Cut(ToInt(read), Base, Len(read)) = 0
  <1> DEFINE f == Figured(read)
  <1>1. Len(read) \in Nat /\ DOMAIN read = 1..Len(read) /\ \A i \in 1..Len(read) : read[i] \in Elements
    OBVIOUS
  <1>2. f = [i \in 1..Len(read) |-> IF Len(read[i]) = 1 THEN read[i][1] ELSE 0]
    BY <1>1 DEF Figured
  <1>3. \A i \in 1..Len(read) : f[i] \in 0..(Base - 1)
    BY <1>1, <1>2, ElementFacts, BaseFacts
  <1>4. f = [i \in 1..Len(read) |-> f[i]] BY <1>2
  <1>5. ToInt(read) = Number(0, f, Base) BY DEF ToInt, Figured
  <1> HIDE DEF f
  <1>6. f \in Seq(0..(Base - 1)) /\ Len(f) = Len(read) BY <1>1, <1>3, <1>4
  <1>7. Number(0, f, Base) \in Nat /\ Cut(Number(0, f, Base), Base, Len(f)) = 0
    <2>1. 0 \in Nat /\ Base \in Nat \ {0} BY BaseFacts
    <2> QED BY <1>6, <2>1, FiguresOfNumber
  <1> QED BY <1>5, <1>6, <1>7

LEMMA DigitsOf ==
    ASSUME NEW n \in Nat, NEW len \in Nat
    PROVE  /\ Digits(n, len) \in Seq(Digit) /\ Len(Digits(n, len)) = len
           /\ Cut(n, Base, len) = 0 => ToInt(Digits(n, len)) = n
  <1> DEFINE f == Figures(n, Base, len)
             d == Digits(n, len)
  <1>1. Base \in Nat \ {0} BY BaseFacts
  <1>2. f \in Seq(0..(Base - 1)) /\ Len(f) = len /\ Number(Cut(n, Base, len), f, Base) = n
    BY <1>1, NumberOfFigures
  <1>3. d = [i \in 1..len |-> <<f[i]>>] BY DEF Digits
  <1> HIDE DEF f
  <1>4. \A i \in 1..len : f[i] \in 0..(Base - 1) /\ <<f[i]>> \in Digit
    <2> SUFFICES ASSUME NEW i \in 1..len PROVE f[i] \in 0..(Base - 1) /\ <<f[i]>> \in Digit
      OBVIOUS
    <2>1. f[i] \in 0..(Base - 1)
      <3> DEFINE D == 0..(Base - 1)
      <3>1. f \in Seq(D) /\ i \in 1..Len(f) BY <1>2
      <3> HIDE DEF D
      <3>2. f[i] \in D BY <3>1, ElementOfSeq
      <3> QED BY <3>2 DEF D
    <2> QED BY <2>1, ElementFacts
  <1>5. d \in Seq(Digit) /\ Len(d) = len /\ DOMAIN d = 1..len BY <1>3, <1>4
  <1>6. Figured(d) = f
    <2>1. \A i \in 1..len : Len(d[i]) = 1 /\ d[i][1] = f[i] BY <1>3
    <2>2. Figured(d) = [i \in 1..len |-> f[i]] BY <1>5, <2>1 DEF Figured
    <2>3. f = [i \in 1..len |-> f[i]] BY <1>2
    <2> QED BY <2>2, <2>3
  <1>7. ToInt(d) = Number(0, f, Base) BY <1>6 DEF ToInt, Figured
  <1> QED BY <1>2, <1>5, <1>7

LEMMA SeqOfElements ==
    ASSUME NEW S \in SUBSET Elements
    PROVE  Seq(S) \subseteq Seq(Elements)
  BY SeqMonotonic

-------------------------------------------------------------------------------
(***************************************************************************)
(* What is read: nothing, or something and its length.                     *)
(***************************************************************************)

LEMMA Outcomes ==
    /\ Failed.ok = FALSE
    /\ \A d, n : Decoded(d, n).ok = TRUE /\ Decoded(d, n).data = d /\ Decoded(d, n).length = n
    /\ \A d, n : Decoded(d, n) # Failed
    /\ \A c, d, n, m : Decoded(c, m) = Decoded(d, n) => c = d /\ m = n
  <1>1. Failed.ok = FALSE BY DEF Failed
  <1>2. \A d, n : Decoded(d, n).ok = TRUE /\ Decoded(d, n).data = d /\ Decoded(d, n).length = n
    BY DEF Decoded
  <1> QED BY <1>1, <1>2

LEMMA TakenIs ==
    ASSUME NEW S, NEW read \in Seq(S), NEW k \in Nat, NEW l \in Nat
    PROVE  /\ k + l <= Len(read) =>
                 \E v \in Seq(S) : /\ Len(v) = l /\ v = Upto(From(read, k), l)
                                   /\ Taken(read, k, l) = Decoded(v, k + l)
           /\ k + l > Len(read) => Taken(read, k, l) = IF l = 0 THEN Decoded(<< >>, k) ELSE Failed
  <1> DEFINE r == From(read, k)
             v == Upto(r, l)
  <1>1. Len(read) \in Nat OBVIOUS
  <1>2. r \in Seq(S) /\ Len(r) = IF k < Len(read) THEN Len(read) - k ELSE 0 BY PartsOf
  <1>3. Taken(read, k, l) = IF Len(v) < l THEN Failed ELSE Decoded(v, k + l)
    BY DEF Taken
  <1> HIDE DEF r
  <1>4. v \in Seq(S) /\ Len(v) = IF l < Len(r) THEN l ELSE Len(r) BY <1>2, PartsOf
  <1> HIDE DEF v
  <1>5. ASSUME k + l <= Len(read) PROVE Len(v) = l BY <1>1, <1>2, <1>4, <1>5
  <1>6. ASSUME k + l > Len(read) PROVE (l = 0 => v = << >>) /\ (l # 0 => Len(v) < l)
    <2>1. Len(v) \in Nat /\ Len(v) <= l /\ (l # 0 => Len(v) < l)
      BY <1>1, <1>2, <1>4, <1>6
    <2> QED BY <1>4, <2>1
  <1>7. ASSUME k + l <= Len(read)
        PROVE  /\ v \in Seq(S) /\ Len(v) = l /\ v = Upto(From(read, k), l)
               /\ Taken(read, k, l) = Decoded(v, k + l)
    BY <1>3, <1>4, <1>5, <1>7 DEF v, r
  <1>8. ASSUME k + l > Len(read)
        PROVE  Taken(read, k, l) = IF l = 0 THEN Decoded(<< >>, k) ELSE Failed
    <2>1. CASE l = 0
      <3>1. v = << >> /\ Len(v) = 0 /\ k + l = k BY <1>6, <1>8, <2>1
      <3> QED BY <1>3, <2>1, <3>1
    <2>2. CASE l # 0
      BY <1>3, <1>6, <1>8, <2>2
    <2> QED BY <2>1, <2>2
  <1> QED BY <1>7, <1>8

LEMMA TakenBack ==
    ASSUME NEW S, NEW a \in Seq(S), NEW b \in Seq(S), NEW t \in Seq(S)
    PROVE  Taken((a \o b) \o t, Len(a), Len(b)) = Decoded(b, Len(a) + Len(b))
  <1> DEFINE p == (a \o b) \o t
  <1>1. a \o b \in Seq(S) /\ b \o t \in Seq(S) /\ p = a \o (b \o t) /\ p \in Seq(S)
        /\ Len(a \o b) = Len(a) + Len(b) /\ Len(p) = (Len(a) + Len(b)) + Len(t)
    BY ConcatProperties, ConcatAssociative
  <1>2. From(p, Len(a)) = b \o t BY <1>1, PartsOfBoth
  <1>3. Upto(b \o t, Len(b)) = b BY PartsOfBoth
  <1>4. Len(a) \in Nat /\ Len(b) \in Nat /\ Len(t) \in Nat /\ Len(a) + Len(b) <= Len(p)
    BY <1>1
  <1> HIDE DEF p
  <1>5. Taken(p, Len(a), Len(b)) = Decoded(Upto(From(p, Len(a)), Len(b)), Len(a) + Len(b))
    <2> DEFINE k == Len(a)
               l == Len(b)
    <2>1. p \in Seq(S) /\ k \in Nat /\ l \in Nat /\ k + l <= Len(p) BY <1>1, <1>4
    <2> HIDE DEF k, l
    <2>2. Taken(p, k, l) = Decoded(Upto(From(p, k), l), k + l) BY ONLY <2>1, TakenIs
    <2> QED BY <2>2 DEF k, l
  <1> QED BY <1>2, <1>3, <1>5 DEF p

LEMMA TakenOfMore ==
    ASSUME NEW S, NEW p \in Seq(S), NEW t \in Seq(S), NEW k \in Nat, NEW l \in Nat, k + l <= Len(p)
    PROVE  Taken(p \o t, k, l) = Taken(p, k, l)
  <1>1. Len(p) \in Nat /\ Len(t) \in Nat /\ k <= Len(p) OBVIOUS
  <1>2. p \o t \in Seq(S) /\ Len(p \o t) = Len(p) + Len(t) BY ConcatProperties
  <1>3. From(p \o t, k) = From(p, k) \o t /\ From(p, k) \in Seq(S) /\ Len(From(p, k)) = Len(p) - k
    <2>1. k \in 0..Len(p) BY <1>1
    <2> QED BY <1>1, <2>1, PartsOfMore, PartsWithin
  <1>4. l <= Len(From(p, k)) BY <1>1, <1>3
  <1>5. Upto(From(p, k) \o t, l) = Upto(From(p, k), l) BY <1>3, <1>4, PartsOfMore
  <1>6. k + l <= Len(p \o t) BY <1>1, <1>2
  <1>7. Taken(p, k, l) = Decoded(Upto(From(p, k), l), k + l) BY TakenIs
  <1> DEFINE q == p \o t
  <1>8. Taken(q, k, l) = Decoded(Upto(From(q, k), l), k + l)
    <2>1. q \in Seq(S) /\ k + l <= Len(q) /\ k \in Nat /\ l \in Nat BY <1>2, <1>6
    <2> HIDE DEF q
    <2> QED BY ONLY <2>1, TakenIs
  <1> QED BY <1>3, <1>5, <1>7, <1>8

-------------------------------------------------------------------------------
(***************************************************************************)
(* Of every kind of field: what is written is read back, whatever follows; *)
(* what was read of a part is read of the whole; and what is read is made  *)
(* of the elements there are.                                              *)
(***************************************************************************)

LEMMA TakenStays ==
    ASSUME NEW S, NEW p \in Seq(S), NEW t \in Seq(S), NEW k \in Nat, NEW l \in Nat
    PROVE  /\ Stays(Taken(p, k, l), Taken(p \o t, k, l), Len(p))
           /\ Taken(p, k, l).ok /\ Taken(p, k, l).length <= Len(p) => k + l <= Len(p)
           /\ Taken(p, k, l) = Failed \/ \E v \in Seq(S) : Len(v) = l /\ Taken(p, k, l) = Decoded(v, k + l)
  <1>1. Len(p) \in Nat OBVIOUS
  <1>2. CASE k + l <= Len(p)
    <2>1. Taken(p \o t, k, l) = Taken(p, k, l) BY <1>2, TakenOfMore
    <2>2. PICK v \in Seq(S) : /\ Len(v) = l /\ v = Upto(From(p, k), l)
                              /\ Taken(p, k, l) = Decoded(v, k + l)
      BY <1>2, TakenIs
    <2> QED BY <1>2, <2>1, <2>2 DEF Stays
  <1>3. CASE k + l > Len(p)
    <2>1. Taken(p, k, l) = IF l = 0 THEN Decoded(<< >>, k) ELSE Failed BY <1>3, TakenIs
    <2>2. CASE l = 0
      <3>1. Taken(p, k, l) = Decoded(<< >>, k) /\ k > Len(p) /\ k + l = k
        BY <1>3, <2>1, <2>2
      <3>2. Taken(p, k, l).length = k /\ ~(k <= Len(p)) BY <1>1, <3>1, Outcomes
      <3>3. << >> \in Seq(S) /\ Len(<< >>) = l BY <2>2
      <3> QED BY <3>1, <3>2, <3>3 DEF Stays
    <2>3. CASE l # 0
      <3>1. Taken(p, k, l) = Failed /\ ~Failed.ok BY <2>1, <2>3, Outcomes
      <3> QED BY <3>1 DEF Stays
    <2> QED BY <2>2, <2>3
  <1> QED BY <1>1, <1>2, <1>3

LEMMA FixedBack ==
    ASSUME NEW b \in Seq(Elements), NEW t \in Seq(Elements)
    PROVE  DecodeFixed(b \o t, Len(b)) = Decoded(b, Len(b))
  <1>1. << >> \in Seq(Elements) /\ Len(<< >>) = 0 /\ << >> \o b = b /\ Len(b) \in Nat
    BY ConcatEmptySeq
  <1>2. Taken((<< >> \o b) \o t, Len(<< >>), Len(b)) = Decoded(b, Len(<< >>) + Len(b))
    BY <1>1, TakenBack
  <1> QED BY <1>1, <1>2 DEF DecodeFixed

\* A length in one byte.
LEMMA OneByte ==
    /\ \A n \in Nat : Cut(n, Base, 1) = 0 <=> n <= Base - 1
    /\ \A read \in Seq(Elements) : ToInt(Upto(read, 1)) \in 0..(Base - 1)
  <1>1. ASSUME NEW n \in Nat PROVE Cut(n, Base, 1) = 0 <=> n <= Base - 1
    <2>1. Base \in Nat \ {0} BY BaseFacts
    <2>2. Cut(n, Base, 0) = n /\ Cut(n, Base, 0 + 1) = Cut(n, Base, 0) \div Base
      BY <2>1, CutSteps
    <2> DEFINE b == Base
    <2>3. Cut(n, Base, 1) = n \div b BY <2>2
    <2>4. b \in Nat \ {0} BY <2>1
    <2> HIDE DEF b
    <2>5. n \div b = 0 <=> n <= b - 1 BY <2>4
    <2> QED BY <2>3, <2>5 DEF b
  <1>2. ASSUME NEW read \in Seq(Elements) PROVE ToInt(Upto(read, 1)) \in 0..(Base - 1)
    <2> DEFINE u == Upto(read, 1)
    <2>1. u \in Seq(Elements) /\ Len(u) = IF 1 < Len(read) THEN 1 ELSE Len(read)
      BY PartsOf
    <2>2. Len(read) \in Nat /\ Base \in Nat \ {0, 1} BY BaseFacts
    <2> HIDE DEF u
    <2>3. ToInt(u) \in Nat /\ Cut(ToInt(u), Base, Len(u)) = 0 /\ Len(u) \in Nat /\ Len(u) <= 1
      <3>1. Len(u) \in Nat /\ Len(u) <= 1 BY <2>1, <2>2
      <3> QED BY <2>1, <3>1, ToIntOf
    <2>4. Cut(ToInt(u), Base, 1) = 0 BY <2>2, <2>3, CutDown
    <2> QED BY <1>1, <2>2, <2>3, <2>4 DEF u
  <1> QED BY <1>1, <1>2

LEMMA BigIntBack ==
    ASSUME NEW n \in Numbers, NEW t \in Seq(Elements)
    PROVE  /\ EncodeBigInt(n) \in Seq(Digit)
           /\ DecodeBigInt(EncodeBigInt(n) \o t) = Decoded(n, Len(EncodeBigInt(n)))
  <1> DEFINE w == Width(n, Base)
             a == Digits(w, 1)
             b == Digits(n, w)
  <1>1. n \in Nat /\ Base \in Nat \ {0, 1} /\ Cut(n, Base, Base - 1) = 0 /\ Base - 1 \in Nat
    BY BaseFacts DEF Numbers
  <1>2. w \in Nat /\ Cut(n, Base, w) = 0 /\ ~(Base - 1 < w) BY <1>1, WidthIs
  <1>3. w <= Base - 1 BY <1>1, <1>2
  <1>4. Cut(w, Base, 1) = 0 BY <1>2, <1>3, OneByte
  <1>5. a \in Seq(Digit) /\ Len(a) = 1 /\ ToInt(a) = w BY <1>2, <1>4, DigitsOf
  <1>6. b \in Seq(Digit) /\ Len(b) = w /\ ToInt(b) = n BY <1>1, <1>2, DigitsOf
  <1>7. EncodeBigInt(n) = a \o b BY <1>6 DEF EncodeBigInt, ShortUint
  <1> HIDE DEF a, b, w
  <1>8. a \o b \in Seq(Digit) /\ Len(a \o b) = 1 + w /\ a \in Seq(Elements) /\ b \in Seq(Elements)
    <2>1. Seq(Digit) \subseteq Seq(Elements) BY ElementFacts, SeqOfElements
    <2>2. a \o b \in Seq(Digit) /\ Len(a \o b) = Len(a) + Len(b)
      BY <1>5, <1>6, ConcatProperties
    <2>3. a \in Seq(Elements) /\ b \in Seq(Elements) BY <1>5, <1>6, <2>1
    <2> QED BY <1>5, <1>6, <2>2, <2>3
  <1>9. Taken((a \o b) \o t, 1, w) = Decoded(b, 1 + w) BY <1>5, <1>6, <1>8, TakenBack
  <1>10. Upto((a \o b) \o t, 1) = a
    <2>1. (a \o b) \o t = a \o (b \o t) /\ b \o t \in Seq(Elements)
      <3>1. a \in Seq(Elements) /\ b \in Seq(Elements) /\ t \in Seq(Elements)
        BY ONLY <1>8, t \in Seq(Elements)
      <3> QED BY ONLY <3>1, ConcatAssociative, ConcatProperties
    <2> QED BY <1>5, <1>8, <2>1, PartsOfBoth
  <1>11. DecodeBigInt((a \o b) \o t) = Decoded(n, 1 + w)
    BY <1>5, <1>6, <1>9, <1>10, Outcomes DEF DecodeBigInt
  <1> QED BY <1>7, <1>8, <1>11

LEMMA BigIntStays ==
    ASSUME NEW p \in Seq(Elements), NEW t \in Seq(Elements)
    PROVE  /\ Stays(DecodeBigInt(p), DecodeBigInt(p \o t), Len(p))
           /\ DecodeBigInt(p) = Failed \/ \E n \in Numbers, len \in Nat : DecodeBigInt(p) = Decoded(n, len)
  <1> DEFINE l == ToInt(Upto(p, 1))
             r == Taken(p, 1, l)
  <1>1. l \in 0..(Base - 1) /\ l \in Nat /\ Base \in Nat \ {0, 1} /\ Len(p) \in Nat
    BY OneByte, BaseFacts
  <1>2. DecodeBigInt(p) = IF r.ok THEN Decoded(ToInt(r.data), r.length) ELSE Failed
    BY DEF DecodeBigInt
  <1> HIDE DEF l
  <1>3. /\ Stays(r, Taken(p \o t, 1, l), Len(p))
        /\ r.ok /\ r.length <= Len(p) => 1 + l <= Len(p)
        /\ r = Failed \/ \E v \in Seq(Elements) : Len(v) = l /\ r = Decoded(v, 1 + l)
    BY <1>1, TakenStays
  <1> HIDE DEF r
  <1>4. DecodeBigInt(p) = Failed \/ \E n \in Numbers, len \in Nat : DecodeBigInt(p) = Decoded(n, len)
    <2>1. CASE r = Failed
      BY <1>2, <2>1, Outcomes
    <2>2. ASSUME NEW v \in Seq(Elements), Len(v) = l, r = Decoded(v, 1 + l)
          PROVE  \E n \in Numbers, len \in Nat : DecodeBigInt(p) = Decoded(n, len)
      <3>1. DecodeBigInt(p) = Decoded(ToInt(v), 1 + l) BY <1>2, <2>2, Outcomes
      <3>2. ToInt(v) \in Nat /\ Cut(ToInt(v), Base, l) = 0 BY <2>2, ToIntOf
      <3>3. Base - 1 \in Nat /\ Base - 1 >= l BY <1>1
      <3>4. Cut(ToInt(v), Base, Base - 1) = 0 BY <1>1, <3>2, <3>3, CutDown
      <3>5. ToInt(v) \in Numbers /\ 1 + l \in Nat BY <1>1, <3>2, <3>4 DEF Numbers
      <3> QED BY <3>1, <3>5
    <2> QED BY <1>3, <2>1, <2>2
  <1>5. ASSUME DecodeBigInt(p).ok, DecodeBigInt(p).length <= Len(p)
        PROVE  DecodeBigInt(p \o t) = DecodeBigInt(p)
    <2>1. r.ok BY <1>2, <1>5, Outcomes
    <2>2. r.length <= Len(p) BY <1>2, <1>5, <2>1, Outcomes
    <2>3. 1 + l <= Len(p) /\ Taken(p \o t, 1, l) = r BY <1>3, <2>1, <2>2 DEF Stays
    <2>4. Upto(p \o t, 1) = Upto(p, 1)
      <3>1. 1 <= Len(p) BY <1>1, <2>3
      <3> QED BY <3>1, PartsOfMore
    <2> QED BY <2>3, <2>4 DEF DecodeBigInt, l, r
  <1> QED BY <1>4, <1>5 DEF Stays

-------------------------------------------------------------------------------
(***************************************************************************)
(* Lengths without a limit.                                                *)
(***************************************************************************)

LEMMA HalfBytesIs ==
    ASSUME NEW read \in Seq(Elements)
    PROVE  \E n \in 0..Len(read) : FirstDigits(read, n) /\ HalfBytes(read) = HalvesOf(read, n)
  <1> DEFINE Is(k) == /\ \A i \in 1..k : Len(read[i]) = 1
                      /\ k < Len(read) => Len(read[k + 1]) # 1
             n     == CHOOSE k \in 0..Len(read) : Is(k)
             S     == {k \in Nat : k = Len(read) \/ (k < Len(read) /\ read[k + 1] \notin Digit)}
  <1>1. Len(read) \in Nat /\ \A i \in 1..Len(read) : read[i] \in Elements OBVIOUS
  <1>2. PICK k \in S : \A m \in S : k <= m
    <2>1. S # {} /\ S \in SUBSET Nat BY <1>1
    <2> HIDE DEF S
    <2> QED BY <2>1, LeastOf
  <1>3. k \in 0..Len(read) /\ \A i \in 1..k : read[i] \in Digit
    <2>1. ASSUME NEW i \in 1..k PROVE read[i] \in Digit
      <3>1. i - 1 \in Nat /\ i - 1 < k /\ (i - 1) + 1 = i /\ i - 1 < Len(read)
        BY <1>1, <1>2
      <3>2. i - 1 \notin S BY <1>2, <3>1
      <3> QED BY <3>1, <3>2
    <2> QED BY <1>1, <1>2, <2>1
  <1>4. Is(k)
    <2>1. \A i \in 1..k : Len(read[i]) = 1 BY <1>1, <1>3, ElementFacts
    <2>2. k < Len(read) => Len(read[k + 1]) # 1 BY <1>1, <1>2, <1>3, ElementFacts
    <2> QED BY <2>1, <2>2
  <1>5. n \in 0..Len(read) /\ Is(n)
    <2> HIDE DEF Is
    <2> QED BY <1>3, <1>4
  <1>6. HalfBytes(read) = HalvesOf(read, n) BY Zenon DEF HalfBytes, HalvesOf
  <1> HIDE DEF n
  <1>7. FirstDigits(read, n)
    <2>1. \A i \in 1..n : read[i] \in Digit BY <1>1, <1>5, ElementFacts
    <2>2. n < Len(read) => read[n + 1] \notin Digit BY <1>1, <1>5, ElementFacts
    <2> QED BY <1>5, <2>1, <2>2 DEF FirstDigits
  <1> QED BY <1>5, <1>6, <1>7

LEMMA HalvesFacts ==
    ASSUME NEW read \in Seq(Elements), NEW n \in Nat, FirstDigits(read, n)
    PROVE  /\ HalvesOf(read, n) \in Seq(HalfByteSet) /\ Len(HalvesOf(read, n)) = 2 * n
           /\ \A i \in 1..n : /\ HalvesOf(read, n)[2 * i - 1] = read[i][1] \div Radix
                              /\ HalvesOf(read, n)[2 * i] = read[i][1] % Radix
  <1> DEFINE h == HalvesOf(read, n)
             r == Radix
             at(i) == read[i][1]
  <1>1. r \in Nat /\ r > 2 /\ Base = r * r BY BaseFacts
  <1>2. \A i \in 1..n : at(i) \in Nat /\ at(i) < r * r
    <2> SUFFICES ASSUME NEW i \in 1..n PROVE at(i) \in Nat /\ at(i) < r * r OBVIOUS
    <2>1. read[i] \in Digit BY DEF FirstDigits
    <2>2. at(i) \in 0..(Base - 1) /\ Base \in Nat BY <2>1, ElementFacts, BaseFacts
    <2> QED BY <1>1, <2>2
  <1>3. h = [i \in 1..(2 * n) |-> IF i % 2 = 1 THEN at((i + 1) \div 2) \div r ELSE at((i + 1) \div 2) % r]
    BY DEF HalvesOf
  <1> HIDE DEF r, at, h
  <1>4. ASSUME NEW v \in Nat, v < r * r PROVE v \div r \in 0..(r - 1) /\ (v % r) \in 0..(r - 1)
    <2> DEFINE q == v \div r
               m == v % r
    <2>1. r \in Nat \ {0} BY <1>1
    <2>2. q \in Nat /\ m \in 0..(r - 1) /\ v = q * r + m BY <2>1, Quotient
    <2> HIDE DEF q, m
    <2>3. q < r
      <3> SUFFICES ASSUME q >= r PROVE FALSE BY <1>1, <2>2
      <3>1. q - r \in Nat /\ q * r = (q - r) * r + r * r BY <1>1, <2>2
      <3>2. (q - r) * r \in Nat BY <1>1, <3>1
      <3> QED BY <1>1, <1>4, <2>2, <3>1, <3>2
    <2> QED BY <1>1, <2>2, <2>3 DEF q, m
  <1>5. ASSUME NEW i \in 1..(2 * n) PROVE h[i] \in 0..(r - 1)
    <2>1. (i + 1) \div 2 \in 1..n OBVIOUS
    <2>2. at((i + 1) \div 2) \div r \in 0..(r - 1) /\ (at((i + 1) \div 2) % r) \in 0..(r - 1)
      BY <1>2, <1>4, <2>1
    <2> QED BY <1>3, <2>2
  <1>6. h = [i \in 1..(2 * n) |-> h[i]] /\ 2 * n \in Nat BY <1>3
  <1>7. h \in Seq(0..(r - 1)) /\ Len(h) = 2 * n
    <2> DEFINE m == 2 * n
               R == 0..(r - 1)
    <2>1. m \in Nat /\ h = [i \in 1..m |-> h[i]] /\ \A i \in 1..m : h[i] \in R
      BY <1>5, <1>6
    <2> HIDE DEF m, R
    <2>2. h \in Seq(R) /\ Len(h) = m BY <2>1
    <2> QED BY <2>2 DEF m, R
  <1>8. ASSUME NEW i \in 1..n PROVE h[2 * i - 1] = at(i) \div r /\ h[2 * i] = at(i) % r
    <2>1. 2 * i - 1 \in 1..(2 * n) /\ (2 * i - 1) % 2 = 1 /\ ((2 * i - 1) + 1) \div 2 = i
      OBVIOUS
    <2>2. 2 * i \in 1..(2 * n) /\ (2 * i) % 2 # 1 /\ ((2 * i) + 1) \div 2 = i OBVIOUS
    <2> QED BY <1>3, <2>1, <2>2
  <1> QED BY <1>7, <1>8 DEF HalfByteSet, r, h, at

LEMMA DecodeLengthIs ==
    ASSUME NEW read \in Seq(Elements), NEW text \in Seq(HalfByteSet), HalfBytes(read) = text
    PROVE  /\ \A j \in Nat : FirstMark(text, j) =>
                 DecodeLength(read) = << IF j = 1 THEN Len(read) + 1 ELSE Number(0, Upto(text, j - 1), Radix - 1),
                                         (j + 1) \div 2 >>
           /\ (\A i \in 1..Len(text) : text[i] # Radix - 1) =>
                 DecodeLength(read) = << IF text = << >> THEN Len(read) + 1 ELSE Number(0, text, Radix - 1),
                                         (Len(text) + 2) \div 2 >>
  <1> DEFINE firstOf(h)   == CHOOSE i \in DOMAIN h : h[i] = Radix - 1 /\ \A j \in 1..(i - 1) : h[j] # Radix - 1
             figuresOf(h) == Upto(h, IF Contains(h, Radix - 1) THEN firstOf(h) - 1 ELSE Len(h))
             first        == firstOf(text)
             figures      == figuresOf(text)
  <1>1. Len(text) \in Nat /\ DOMAIN text = 1..Len(text) OBVIOUS
  <1>2. DecodeLength(read) = << IF figures = << >> THEN Len(read) + 1 ELSE Number(0, figures, Radix - 1),
                                (Len(figures) + 2) \div 2 >>
    <2>1. LET h == HalfBytes(read)
          IN  DecodeLength(read) = << IF figuresOf(h) = << >> THEN Len(read) + 1
                                      ELSE Number(0, figuresOf(h), Radix - 1),
                                      (Len(figuresOf(h)) + 2) \div 2 >>
      BY Zenon DEF DecodeLength
    <2> HIDE DEF figuresOf
    <2> QED BY <2>1, Zenon
  <1>3. ASSUME NEW j \in Nat, FirstMark(text, j)
        PROVE  figures = Upto(text, j - 1)
    <2>1. Contains(text, Radix - 1) BY <1>3 DEF Contains, FirstMark
    <2>2. first = j
      <3>1. j \in DOMAIN text /\ text[j] = Radix - 1 /\ \A i \in 1..(j - 1) : text[i] # Radix - 1
        BY <1>1, <1>3 DEF FirstMark
      <3>2. first \in DOMAIN text /\ text[first] = Radix - 1 /\ \A i \in 1..(first - 1) : text[i] # Radix - 1
        BY <3>1
      <3>3. first \in Nat /\ first >= 1 /\ ~(first \in 1..(j - 1)) /\ ~(j \in 1..(first - 1))
        <4> HIDE DEF firstOf
        <4> QED BY <1>1, <3>1, <3>2
      <3> HIDE DEF firstOf
      <3> QED BY <3>1, <3>3, <1>1
    <2> HIDE DEF firstOf
    <2> QED BY <2>1, <2>2
  <1>4. ASSUME \A i \in 1..Len(text) : text[i] # Radix - 1 PROVE figures = text
    <2>1. ~Contains(text, Radix - 1) BY <1>4 DEF Contains
    <2>2. text \o << >> = text /\ << >> \in Seq(HalfByteSet) BY ConcatEmptySeq
    <2>3. Upto(text \o << >>, Len(text)) = text BY <2>2, PartsOfBoth
    <2> QED BY <2>1, <2>2, <2>3
  <1> HIDE DEF figures
  <1>5. ASSUME NEW j \in Nat, FirstMark(text, j)
        PROVE  DecodeLength(read) = << IF j = 1 THEN Len(read) + 1 ELSE Number(0, Upto(text, j - 1), Radix - 1),
                                       (j + 1) \div 2 >>
    <2>1. j - 1 \in 0..Len(text) BY <1>1, <1>5 DEF FirstMark
    <2>2. Upto(text, j - 1) \in Seq(HalfByteSet) /\ Len(Upto(text, j - 1)) = j - 1
      BY <2>1, PartsWithin
    <2>3. figures = << >> <=> j = 1 BY <1>3, <1>5, <2>2
    <2>4. Len(figures) + 2 = j + 1 BY <1>3, <1>5, <2>1, <2>2
    <2> QED BY <1>2, <1>3, <1>5, <2>3, <2>4
  <1> QED BY <1>2, <1>4, <1>5

LEMMA LengthBaseFacts == LengthBase \in Nat \ {0, 1} /\ LengthBase = Radix - 1 /\ LengthBase + 1 = Radix
  BY BaseFacts DEF LengthBase

LEMMA MarkedFacts ==
    ASSUME NEW n \in Nat, NEW len \in Nat
    PROVE  /\ MarkedFigures(n, len) \in Seq(HalfByteSet) /\ Len(MarkedFigures(n, len)) = len + 1
           /\ \A i \in 1..len : /\ MarkedFigures(n, len)[i] = Cut(n, LengthBase, len - i) % LengthBase
                                /\ MarkedFigures(n, len)[i] # Radix - 1
           /\ MarkedFigures(n, len)[len + 1] = Radix - 1
  <1> DEFINE f == Figures(n, LengthBase, len)
             H == HalfByteSet
             D == 0..(LengthBase - 1)
             r == Radix - 1
  <1>1. LengthBase \in Nat \ {0, 1} /\ Radix \in Nat /\ Radix > 2
    BY LengthBaseFacts, BaseFacts
  <1>2. f \in Seq(D) /\ Len(f) = len BY <1>1, NumberOfFigures
  <1>3. \A i \in 1..len : f[i] = Cut(n, LengthBase, len - i) % LengthBase BY DEF Figures
  <1>4. D \subseteq H /\ r \in H /\ r \notin D BY <1>1, LengthBaseFacts DEF HalfByteSet
  <1> HIDE DEF f, H, D, r
  <1>5. \A i \in 1..len : f[i] \in D BY <1>2, ElementOfSeq
  <1>6. f \in Seq(H) BY <1>2, <1>4, SeqMonotonic
  <1>7. /\ Append(f, r) \in Seq(H) /\ Len(Append(f, r)) = len + 1
        /\ \A i \in 1..len : Append(f, r)[i] = f[i]
        /\ Append(f, r)[len + 1] = r
    BY <1>2, <1>4, <1>6, AppendProperties
  <1>8. MarkedFigures(n, len) = Append(f, r) BY DEF MarkedFigures, f, r
  <1>9. \A i \in 1..len : Append(f, r)[i] # r BY <1>4, <1>5, <1>7
  <1> QED BY <1>3, <1>7, <1>8, <1>9 DEF H, r

\* A figure more, which is 0.
LEMMA MoreFigures ==
    ASSUME NEW n \in Nat, NEW len \in Nat, Cut(n, LengthBase, len) = 0
    PROVE  <<0>> \o MarkedFigures(n, len) = MarkedFigures(n, len + 1)
  <1> DEFINE u == MarkedFigures(n, len)
             v == MarkedFigures(n, len + 1)
             H == HalfByteSet
  <1>1. LengthBase \in Nat \ {0, 1} /\ len + 1 \in Nat BY LengthBaseFacts
  <1>2. /\ u \in Seq(H) /\ Len(u) = len + 1
        /\ \A i \in 1..len : u[i] = Cut(n, LengthBase, len - i) % LengthBase
        /\ u[len + 1] = Radix - 1
    BY MarkedFacts
  <1>3. /\ v \in Seq(H) /\ Len(v) = (len + 1) + 1
        /\ \A i \in 1..(len + 1) : v[i] = Cut(n, LengthBase, (len + 1) - i) % LengthBase
        /\ v[(len + 1) + 1] = Radix - 1
    BY <1>1, MarkedFacts
  <1>4. 0 \in H BY BaseFacts DEF HalfByteSet
  <1> HIDE DEF u, v, H
  <1> DEFINE z == <<0>>
             w == z \o u
  <1>5. z \in Seq(H) /\ Len(z) = 1 /\ z[1] = 0 BY <1>4
  <1> HIDE DEF z
  <1>6. /\ w \in Seq(H) /\ Len(w) = Len(z) + Len(u)
        /\ \A i \in 1..(Len(z) + Len(u)) : w[i] = IF i <= Len(z) THEN z[i] ELSE u[i - Len(z)]
    BY <1>2, <1>5, ConcatProperties
  <1> HIDE DEF w
  <1>7. Len(w) = Len(v) /\ \A i \in 1..((len + 1) + 1) : w[i] = IF i = 1 THEN 0 ELSE u[i - 1]
    BY <1>2, <1>3, <1>5, <1>6
  <1>8. ASSUME NEW i \in 1..((len + 1) + 1) PROVE w[i] = v[i]
    <2>1. CASE i = 1
      <3>1. v[1] = Cut(n, LengthBase, (len + 1) - 1) % LengthBase /\ (len + 1) - 1 = len
        BY <1>1, <1>3
      <3>2. v[1] = 0 % LengthBase BY <3>1
      <3>3. 0 % LengthBase = 0 BY <1>1
      <3> QED BY <1>7, <2>1, <3>2, <3>3
    <2>2. CASE i \in 2..(len + 1)
      <3>1. i - 1 \in 1..len /\ len - (i - 1) = (len + 1) - i /\ i # 1 /\ i \in 1..(len + 1)
        BY <2>2
      <3> QED BY <1>2, <1>3, <1>7, <3>1
    <2>3. CASE i = (len + 1) + 1
      <3>1. i - 1 = len + 1 /\ i # 1 BY <2>3
      <3> QED BY <1>2, <1>3, <1>7, <2>3, <3>1
    <2> QED BY <2>1, <2>2, <2>3
  <1>9. w = v BY <1>3, <1>6, <1>7, <1>8, SeqEqual
  <1> QED BY <1>9 DEF u, v, w, z

LEMMA LengthFiguresAre ==
    ASSUME NEW n \in Nat
    PROVE  \E len \in Nat \ {0} : Cut(n, LengthBase, len) = 0 /\ LengthFigures(n) = Figures(n, LengthBase, len)
  <1>1. LengthBase \in Nat \ {0, 1} BY LengthBaseFacts
  <1>2. Cut(n, LengthBase, 0) = n /\ Cut(n, LengthBase, 0 + 1) = Cut(n, LengthBase, 0) \div LengthBase
    BY <1>1, CutSteps
  <1>3. CASE n = 0
    <2>1. 0 \div LengthBase = 0 /\ 0 % LengthBase = 0 BY <1>1
    <2>2. Cut(n, LengthBase, 1) = 0 BY <1>2, <1>3, <2>1
    <2>3. Figures(n, LengthBase, 1) = <<0>>
      <3>1. \A i \in 1..1 : Cut(n, LengthBase, 1 - i) % LengthBase = 0
        BY <1>2, <1>3, <2>1
      <3> QED BY <3>1 DEF Figures
    <2>4. LengthFigures(n) = <<0>> BY <1>3 DEF LengthFigures
    <2> QED BY <2>2, <2>3, <2>4
  <1>4. CASE n # 0
    <2> DEFINE w == Width(n, LengthBase)
    <2>1. w \in Nat /\ Cut(n, LengthBase, w) = 0 BY <1>1, WidthIs
    <2>2. w # 0 BY <1>2, <1>4, <2>1
    <2>3. LengthFigures(n) = Figures(n, LengthBase, w)
      BY <1>4 DEF LengthFigures, InBase, LengthBase
    <2> QED BY <2>1, <2>2, <2>3
  <1> QED BY <1>3, <1>4

LEMMA EncodeLengthIs ==
    ASSUME NEW n \in Nat
    PROVE  \E len \in Nat \ {0} : /\ Cut(n, LengthBase, len) = 0 /\ (len + 1) % 2 = 0
                                  /\ EncodeLength(n) = InBytes(MarkedFigures(n, len))
  <1>1. PICK w \in Nat \ {0} : Cut(n, LengthBase, w) = 0 /\ LengthFigures(n) = Figures(n, LengthBase, w)
    BY LengthFiguresAre
  <1> DEFINE text == MarkedFigures(n, w)
             even == IF Len(text) % 2 = 0 THEN text ELSE <<0>> \o text
  <1>2. text = Append(LengthFigures(n), Radix - 1) BY <1>1 DEF MarkedFigures
  <1>3. EncodeLength(n) = InBytes(even) BY <1>2 DEF EncodeLength, InBytes
  <1>4. Len(text) = w + 1 BY MarkedFacts
  <1>5. CASE (w + 1) % 2 = 0
    BY <1>1, <1>3, <1>4, <1>5
  <1>6. CASE (w + 1) % 2 # 0
    <2>1. w + 1 \in Nat \ {0} /\ ((w + 1) + 1) % 2 = 0 BY <1>6
    <2>2. even = MarkedFigures(n, w + 1) BY <1>1, <1>4, <1>6, MoreFigures
    <2>3. Cut(n, LengthBase, w + 1) = 0
      <3>1. LengthBase \in Nat \ {0, 1} /\ w + 1 >= w /\ w + 1 \in Nat
        BY LengthBaseFacts
      <3> QED BY <1>1, <3>1, CutDown
    <2> HIDE DEF even
    <2> QED BY <1>3, <2>1, <2>2, <2>3
  <1> QED BY <1>5, <1>6

LEMMA LengthBack ==
    ASSUME NEW n \in Nat, NEW t \in Seq(Elements)
    PROVE  /\ EncodeLength(n) \in Seq(Digit)
           /\ DecodeLength(EncodeLength(n) \o t) = <<n, Len(EncodeLength(n))>>
  <1>1. PICK len \in Nat \ {0} : /\ Cut(n, LengthBase, len) = 0 /\ (len + 1) % 2 = 0
                                 /\ EncodeLength(n) = InBytes(MarkedFigures(n, len))
    BY EncodeLengthIs
  <1> DEFINE m    == MarkedFigures(n, len)
             half == (len + 1) \div 2
             e    == EncodeLength(n)
             read == e \o t
             r    == Radix
  <1>2. half \in Nat \ {0} /\ len + 1 = 2 * half BY <1>1
  <1>3. /\ m \in Seq(HalfByteSet) /\ Len(m) = len + 1
        /\ \A i \in 1..len : m[i] = Cut(n, LengthBase, len - i) % LengthBase /\ m[i] # r - 1
        /\ m[len + 1] = r - 1
    BY MarkedFacts
  <1>4. e = [i \in 1..half |-> <<m[2 * i - 1] * r + m[2 * i]>>]
    BY <1>1, <1>3 DEF InBytes
  <1>5. r \in Nat /\ r > 2 /\ Base = r * r /\ HalfByteSet = 0..(r - 1)
    BY BaseFacts DEF HalfByteSet
  <1> HIDE DEF m, half, e, r
  <1>6. ASSUME NEW i \in 1..half
        PROVE  /\ m[2 * i - 1] \in 0..(r - 1) /\ m[2 * i] \in 0..(r - 1)
               /\ e[i] \in Digit /\ e[i][1] = m[2 * i - 1] * r + m[2 * i]
    <2> DEFINE p == m[2 * i - 1]
               q == m[2 * i]
               H == HalfByteSet
    <2>1. 2 * i - 1 \in 1..Len(m) /\ 2 * i \in 1..Len(m) BY <1>2, <1>3
    <2>2. p \in H /\ q \in H
      <3> HIDE DEF H
      <3> QED BY <1>3, <2>1, ElementOfSeq DEF H
    <2>3. p \in 0..(r - 1) /\ q \in 0..(r - 1) /\ e[i] = <<p * r + q>>
      BY <1>4, <1>5, <2>2
    <2> HIDE DEF p, q
    <2>4. p * r + q \in 0..(Base - 1)
      <3>1. (r - 1 - p) \in Nat /\ (r - 1 - p) * r + p * r = (r - 1) * r /\ (r - 1) * r = r * r - r
        BY <1>5, <2>3
      <3>2. (r - 1 - p) * r \in Nat /\ p * r \in Nat BY <1>5, <2>3, <3>1
      <3> QED BY <1>5, <2>3, <3>1, <3>2
    <2> QED BY <2>3, <2>4, ElementFacts DEF p, q
  <1>7. e \in Seq(Digit) /\ Len(e) = half /\ e \in Seq(Elements)
    <2>1. e = [i \in 1..half |-> e[i]] /\ half \in Nat BY <1>2, <1>4
    <2>2. e \in Seq(Digit) /\ Len(e) = half
      <3>1. \A i \in 1..half : e[i] \in Digit BY <1>6
      <3> QED BY <2>1, <3>1
    <2> QED BY <2>2, ElementFacts, SeqOfElements
  <1>8. /\ read \in Seq(Elements) /\ Len(read) = half + Len(t)
        /\ \A i \in 1..half : read[i] = e[i]
    <2>1. /\ read \in Seq(Elements) /\ Len(read) = Len(e) + Len(t)
          /\ \A i \in 1..(Len(e) + Len(t)) : read[i] = IF i <= Len(e) THEN e[i] ELSE t[i - Len(e)]
      BY <1>7, ConcatProperties
    <2>2. Len(t) \in Nat OBVIOUS
    <2> QED BY <1>2, <1>7, <2>1, <2>2
  <1>9. PICK d \in 0..Len(read) : FirstDigits(read, d) /\ HalfBytes(read) = HalvesOf(read, d)
    BY <1>8, HalfBytesIs
  <1> DEFINE text == HalvesOf(read, d)
  <1> HIDE DEF read
  <1>10. d \in Nat /\ d >= half
    <2> SUFFICES ASSUME d < half PROVE FALSE BY <1>2, <1>9
    <2>1. d + 1 \in 1..half /\ d < Len(read) BY <1>2, <1>8, <1>9
    <2> QED BY <1>6, <1>8, <1>9, <2>1 DEF FirstDigits
  <1>11. /\ text \in Seq(HalfByteSet) /\ Len(text) = 2 * d
         /\ \A i \in 1..d : text[2 * i - 1] = read[i][1] \div r /\ text[2 * i] = read[i][1] % r
    BY <1>8, <1>9, <1>10, HalvesFacts DEF r
  <1> HIDE DEF text
  <1>12. ASSUME NEW i \in 1..half PROVE text[2 * i - 1] = m[2 * i - 1] /\ text[2 * i] = m[2 * i]
    <2> DEFINE p == m[2 * i - 1]
               q == m[2 * i]
    <2>1. p \in Nat /\ q \in 0..(r - 1) /\ r \in Nat \ {0} /\ read[i][1] = p * r + q
      <3>1. p \in 0..(r - 1) /\ q \in 0..(r - 1) /\ e[i][1] = p * r + q BY <1>6
      <3>2. read[i] = e[i] BY <1>8
      <3> HIDE DEF p, q
      <3> QED BY <1>5, <3>1, <3>2
    <2>2. i \in 1..d BY <1>2, <1>10
    <2>3. text[2 * i - 1] = read[i][1] \div r /\ text[2 * i] = read[i][1] % r
      BY <1>11, <2>2
    <2> HIDE DEF p, q
    <2>4. (p * r + q) \div r = p /\ (p * r + q) % r = q BY <2>1, Division
    <2> QED BY <2>1, <2>3, <2>4 DEF p, q
  <1>13. ASSUME NEW j \in 1..(len + 1) PROVE text[j] = m[j]
    <2>1. PICK i \in 1..half : j = 2 * i - 1 \/ j = 2 * i
      <3>1. (j + 1) \div 2 \in 1..half /\ (j = 2 * ((j + 1) \div 2) - 1 \/ j = 2 * ((j + 1) \div 2))
        BY <1>2
      <3> QED BY <3>1
    <2> QED BY <1>12, <2>1
  <1>14. FirstMark(text, len + 1)
    <2>1. len + 1 \in 1..Len(text) BY <1>2, <1>10, <1>11
    <2>2. text[len + 1] = r - 1 BY <1>3, <1>13
    <2>3. \A i \in 1..len : text[i] # r - 1 BY <1>3, <1>13
    <2>4. (len + 1) - 1 = len OBVIOUS
    <2> QED BY <2>1, <2>2, <2>3, <2>4 DEF FirstMark, r
  <1>15. DecodeLength(read) = <<Number(0, Upto(text, len), Radix - 1), half>>
    <2>1. len + 1 \in Nat /\ len + 1 # 1 /\ (len + 1) - 1 = len /\ ((len + 1) + 1) \div 2 = half
      BY <1>2
    <2>2. HalfBytes(read) = text BY <1>9 DEF text
    <2> QED BY <1>8, <1>11, <1>14, <2>1, <2>2, DecodeLengthIs
  <1>16. Upto(text, len) = Figures(n, LengthBase, len)
    <2> DEFINE H == HalfByteSet
               f == Figures(n, LengthBase, len)
               u == Upto(text, len)
    <2>1. len \in 0..Len(text) BY <1>14 DEF FirstMark
    <2>2. u \in Seq(H) /\ Len(u) = len /\ \A i \in 1..len : u[i] = text[i]
      BY <1>11, <2>1, PartsWithin
    <2>3. f = [i \in 1..len |-> Cut(n, LengthBase, len - i) % LengthBase] BY DEF Figures
    <2>4. ASSUME NEW i \in 1..len PROVE u[i] = Cut(n, LengthBase, len - i) % LengthBase
      <3>1. i \in 1..(len + 1) OBVIOUS
      <3> QED BY <1>3, <1>13, <2>2, <3>1
    <2>5. u = [i \in 1..len |-> u[i]]
      <3> HIDE DEF u, H
      <3> QED BY <2>2
    <2> HIDE DEF u, f
    <2>6. [i \in 1..len |-> u[i]] = [i \in 1..len |-> Cut(n, LengthBase, len - i) % LengthBase]
      BY <2>4
    <2>7. u = f BY <2>3, <2>5, <2>6
    <2> QED BY <2>7 DEF u, f
  <1>17. Number(0, Figures(n, LengthBase, len), LengthBase) = n
    <2>1. LengthBase \in Nat \ {0} BY LengthBaseFacts
    <2> QED BY <1>1, <2>1, NumberOfFigures
  <1> QED BY <1>7, <1>15, <1>16, <1>17, LengthBaseFacts DEF read, e

LEMMA CustomBack ==
    ASSUME NEW v \in Seq(Elements), NEW t \in Seq(Elements)
    PROVE  /\ EncodeLength(Len(v)) \in Seq(Digit)
           /\ EncodeCustom(v) \in Seq(Elements)
           /\ DecodeCustom(EncodeCustom(v) \o t) = Decoded(v, Len(EncodeCustom(v)))
  <1> DEFINE e == EncodeLength(Len(v))
  <1>1. Len(v) \in Nat /\ v \o t \in Seq(Elements) BY ConcatProperties
  <1>2. e \in Seq(Digit) /\ DecodeLength(e \o (v \o t)) = <<Len(v), Len(e)>>
    BY <1>1, LengthBack
  <1> HIDE DEF e
  <1>3. e \in Seq(Elements) BY <1>2, ElementFacts, SeqOfElements
  <1>4. e \o (v \o t) = (e \o v) \o t /\ e \o v \in Seq(Elements) /\ Len(e \o v) = Len(e) + Len(v)
    BY <1>3, ConcatAssociative, ConcatProperties
  <1>5. Taken((e \o v) \o t, Len(e), Len(v)) = Decoded(v, Len(e) + Len(v))
    BY <1>3, TakenBack
  <1>6. DecodeCustom((e \o v) \o t) = Taken((e \o v) \o t, Len(e), Len(v))
    BY <1>2, <1>4 DEF DecodeCustom
  <1> QED BY <1>2, <1>4, <1>5, <1>6 DEF EncodeCustom, e

LEMMA NumberIsNatural ==
    ASSUME NEW start \in Nat, NEW figures \in Seq(Nat), NEW base \in Nat
    PROVE  Number(start, figures, base) \in Nat
  <1>1. Len(figures) \in 0..Len(figures) OBVIOUS
  <1> QED BY <1>1, NumberSteps

LEMMA LengthIsFound ==
    ASSUME NEW read \in Seq(Elements), NEW text \in Seq(HalfByteSet), HalfBytes(read) = text
    PROVE  LengthFound(read, text) /\ DecodeLength(read) \in Nat \X Nat
  <1> DEFINE S == {i \in Nat : i \in 1..Len(text) /\ text[i] = Radix - 1}
             H == HalfByteSet
  <1>1. Len(text) \in Nat /\ Len(read) \in Nat OBVIOUS
  <1>2. Radix - 1 \in Nat /\ H \subseteq Nat BY BaseFacts DEF HalfByteSet
  <1>3. CASE S # {}
    <2>1. PICK j \in S : \A i \in S : j <= i
      <3>1. S \in SUBSET Nat OBVIOUS
      <3> HIDE DEF S
      <3> QED BY <1>3, <3>1, LeastOf
    <2>2. FirstMark(text, j) /\ j \in Nat /\ j \in 1..Len(text)
      <3>1. \A i \in 1..(j - 1) : i \notin S BY <2>1
      <3>2. \A i \in 1..(j - 1) : i \in 1..Len(text) /\ i \in Nat BY <2>1
      <3> QED BY <2>1, <3>1, <3>2 DEF FirstMark
    <2>3. DecodeLength(read) = << IF j = 1 THEN Len(read) + 1 ELSE Number(0, Upto(text, j - 1), Radix - 1),
                                  (j + 1) \div 2 >>
      BY <2>2, DecodeLengthIs
    <2>4. Number(0, Upto(text, j - 1), Radix - 1) \in Nat
      <3>1. j - 1 \in 0..Len(text) BY <1>1, <2>2
      <3>2. Upto(text, j - 1) \in Seq(H) BY <3>1, PartsWithin
      <3> HIDE DEF H
      <3>3. Upto(text, j - 1) \in Seq(Nat) BY <1>2, <3>2, SeqMonotonic
      <3> QED BY <1>2, <3>3, NumberIsNatural
    <2>5. (j + 1) \div 2 \in Nat BY <2>2
    <2> QED BY <1>1, <2>2, <2>3, <2>4, <2>5 DEF LengthFound
  <1>4. CASE S = {}
    <2>1. \A i \in 1..Len(text) : text[i] # Radix - 1
      <3>1. \A i \in 1..Len(text) : i \in Nat /\ i \notin S BY <1>1, <1>4
      <3> QED BY <3>1
    <2>2. DecodeLength(read) = << IF text = << >> THEN Len(read) + 1 ELSE Number(0, text, Radix - 1),
                                  (Len(text) + 2) \div 2 >>
      BY <2>1, DecodeLengthIs
    <2>3. Number(0, text, Radix - 1) \in Nat
      <3> HIDE DEF H
      <3>1. text \in Seq(Nat) BY <1>2, SeqMonotonic DEF H
      <3> QED BY <1>2, <3>1, NumberIsNatural
    <2>4. (Len(text) + 2) \div 2 \in Nat BY <1>1
    <2> QED BY <1>1, <2>1, <2>2, <2>3, <2>4 DEF LengthFound
  <1> QED BY <1>3, <1>4

LEMMA LengthStays ==
    ASSUME NEW p \in Seq(Elements), NEW t \in Seq(Elements),
           DecodeLength(p)[2] + DecodeLength(p)[1] <= Len(p)
    PROVE  DecodeLength(p \o t) = DecodeLength(p)
  <1> DEFINE q == p \o t
             H == HalfByteSet
  <1>1. /\ q \in Seq(Elements) /\ Len(q) = Len(p) + Len(t) /\ Len(p) \in Nat /\ Len(t) \in Nat
        /\ \A i \in 1..Len(p) : q[i] = p[i]
    <2>1. /\ q \in Seq(Elements) /\ Len(q) = Len(p) + Len(t)
          /\ \A i \in 1..(Len(p) + Len(t)) : q[i] = IF i <= Len(p) THEN p[i] ELSE t[i - Len(p)]
      BY ConcatProperties
    <2>2. Len(p) \in Nat /\ Len(t) \in Nat OBVIOUS
    <2> QED BY <2>1, <2>2
  <1> HIDE DEF q
  <1>2. PICK d \in 0..Len(p) : FirstDigits(p, d) /\ HalfBytes(p) = HalvesOf(p, d)
    BY HalfBytesIs
  <1>3. PICK c \in 0..Len(q) : FirstDigits(q, c) /\ HalfBytes(q) = HalvesOf(q, c)
    BY <1>1, HalfBytesIs
  <1>4. d \in Nat /\ c \in Nat BY <1>1, <1>2, <1>3
  <1>5. c >= d /\ (d < Len(p) => c = d)
    <2>1. ASSUME c < d PROVE FALSE
      <3>1. c + 1 \in 1..d /\ c + 1 \in 1..Len(p) /\ c < Len(q)
        BY <1>1, <1>2, <1>4, <2>1
      <3> QED BY <1>1, <1>2, <1>3, <3>1 DEF FirstDigits
    <2>2. ASSUME d < Len(p), c > d PROVE FALSE
      <3>1. d + 1 \in 1..c /\ d + 1 \in 1..Len(p) BY <1>1, <1>4, <2>2
      <3> QED BY <1>1, <1>2, <1>3, <2>2, <3>1 DEF FirstDigits
    <2> QED BY <1>4, <2>1, <2>2
  <1> DEFINE text == HalvesOf(p, d)
             more == HalvesOf(q, c)
  <1>6. text \in Seq(H) /\ Len(text) = 2 * d /\ more \in Seq(H) /\ Len(more) = 2 * c
    BY <1>1, <1>2, <1>3, <1>4, HalvesFacts
  <1>7. \A i \in 1..(2 * d) : more[i] = text[i]
    <2> SUFFICES ASSUME NEW i \in 1..(2 * d) PROVE more[i] = text[i] OBVIOUS
    <2>1. (i + 1) \div 2 \in 1..d BY <1>4
    <2>2. (i + 1) \div 2 \in 1..Len(p) /\ i \in 1..(2 * c)
      BY <1>1, <1>2, <1>4, <1>5, <2>1
    <2>3. q[(i + 1) \div 2] = p[(i + 1) \div 2] BY <1>1, <2>2
    <2> QED BY <2>2, <2>3 DEF HalvesOf
  <1>8. LengthFound(p, text) /\ LengthFound(q, more) /\ DecodeLength(p) \in Nat \X Nat
    BY <1>1, <1>2, <1>3, <1>6, LengthIsFound
  <1> DEFINE r == Radix - 1
             b == DecodeLength(p)
  <1>9. ASSUME d < Len(p) PROVE more = text BY <1>5, <1>6, <1>7, <1>9, <1>4, SeqEqual
  <1> HIDE DEF text, more
  <1>10. b[1] \in Nat /\ b[2] \in Nat /\ b[2] + b[1] <= Len(p) BY <1>8
  <1>11. ASSUME NEW j \in Nat, FirstMark(text, j),
                b = << IF j = 1 THEN Len(p) + 1 ELSE Number(0, Upto(text, j - 1), Radix - 1), (j + 1) \div 2 >>
         PROVE  DecodeLength(q) = b
    <2>1. j # 1
      <3> SUFFICES ASSUME j = 1 PROVE FALSE OBVIOUS
      <3>1. b[1] = Len(p) + 1 BY <1>11
      <3> QED BY <1>1, <1>10, <3>1
    <2>2. j \in 1..(2 * d) /\ j - 1 \in 0..(2 * d) /\ j - 1 \in Nat
      BY <1>4, <1>6, <1>11 DEF FirstMark
    <2>3. FirstMark(more, j)
      <3>1. j \in 1..Len(more) BY <1>4, <1>5, <1>6, <2>2
      <3>2. \A i \in 1..(j - 1) : more[i] = text[i] BY <1>7, <2>2
      <3> QED BY <1>7, <1>11, <2>2, <3>1, <3>2 DEF FirstMark
    <2>4. Upto(more, j - 1) = Upto(text, j - 1)
      <3>1. j - 1 \in 0..Len(text) /\ j - 1 \in 0..Len(more) BY <1>4, <1>5, <1>6, <2>2
      <3>2. /\ Upto(text, j - 1) \in Seq(H) /\ Len(Upto(text, j - 1)) = j - 1
            /\ \A i \in 1..(j - 1) : Upto(text, j - 1)[i] = text[i]
        BY ONLY <1>6, <3>1, PartsWithin, SMTT(20)
      <3>3. /\ Upto(more, j - 1) \in Seq(H) /\ Len(Upto(more, j - 1)) = j - 1
            /\ \A i \in 1..(j - 1) : Upto(more, j - 1)[i] = more[i]
        BY ONLY <1>6, <3>1, PartsWithin, SMTT(20)
      <3>4. \A i \in 1..(j - 1) : more[i] = text[i] BY <1>7, <2>2
      <3> HIDE DEF H
      <3> QED BY <3>2, <3>3, <3>4, SeqEqual
    <2>5. DecodeLength(q) = << IF j = 1 THEN Len(q) + 1 ELSE Number(0, Upto(more, j - 1), Radix - 1), (j + 1) \div 2 >>
      <3>1. HalfBytes(q) = more BY <1>3 DEF more
      <3> QED BY <1>1, <1>6, <2>3, <3>1, DecodeLengthIs
    <2> QED BY <1>11, <2>1, <2>4, <2>5
  <1>12. ASSUME \A i \in 1..Len(text) : text[i] # Radix - 1,
                b = << IF text = << >> THEN Len(p) + 1 ELSE Number(0, text, Radix - 1), (Len(text) + 2) \div 2 >>
         PROVE  DecodeLength(q) = b
    <2>1. b[2] = (2 * d + 2) \div 2 /\ (2 * d + 2) \div 2 = d + 1 BY <1>4, <1>6, <1>12
    <2>2. d < Len(p) BY <1>1, <1>4, <1>10, <2>1
    <2>3. text # << >>
      <3> SUFFICES ASSUME text = << >> PROVE FALSE OBVIOUS
      <3>1. b[1] = Len(p) + 1 BY <1>12
      <3> QED BY <1>1, <1>10, <3>1
    <2>4. DecodeLength(q) = << IF text = << >> THEN Len(q) + 1 ELSE Number(0, text, Radix - 1),
                               (Len(text) + 2) \div 2 >>
      <3>1. HalfBytes(q) = text BY <1>3, <1>9, <2>2 DEF more
      <3> QED BY <1>1, <1>6, <1>12, <3>1, DecodeLengthIs
    <2> QED BY <1>12, <2>3, <2>4
  <1>13. DecodeLength(q) = b
    <2> HIDE DEF b
    <2> QED BY <1>8, <1>11, <1>12 DEF LengthFound, b
  <1> QED BY <1>13 DEF q

LEMMA CustomStays ==
    ASSUME NEW S \in SUBSET Elements, NEW p \in Seq(S), NEW t \in Seq(Elements)
    PROVE  /\ Stays(DecodeCustom(p), DecodeCustom(p \o t), Len(p))
           /\ DecodeCustom(p) = Failed \/ \E v \in Seq(S), len \in Nat : DecodeCustom(p) = Decoded(v, len)
  <1> DEFINE l == DecodeLength(p)[1]
             k == DecodeLength(p)[2]
  <1>1. p \in Seq(Elements) BY SeqOfElements
  <1>2. PICK d \in 0..Len(p) : FirstDigits(p, d) /\ HalfBytes(p) = HalvesOf(p, d)
    BY <1>1, HalfBytesIs
  <1>3. d \in Nat /\ HalvesOf(p, d) \in Seq(HalfByteSet)
    <2>1. d \in Nat BY <1>1, <1>2
    <2> QED BY <1>1, <1>2, <2>1, HalvesFacts
  <1>4. DecodeLength(p) \in Nat \X Nat BY <1>1, <1>2, <1>3, LengthIsFound
  <1>5. l \in Nat /\ k \in Nat BY <1>4
  <1>6. DecodeCustom(p) = Taken(p, k, l) BY DEF DecodeCustom
  <1> HIDE DEF l, k
  <1>7. /\ Stays(Taken(p, k, l), Taken(p \o t, k, l), Len(p))
        /\ Taken(p, k, l).ok /\ Taken(p, k, l).length <= Len(p) => k + l <= Len(p)
    BY <1>1, <1>5, TakenStays
  <1>8. Taken(p, k, l) = Failed \/ \E v \in Seq(S) : Len(v) = l /\ Taken(p, k, l) = Decoded(v, k + l)
    BY <1>5, TakenStays
  <1>9. ASSUME Taken(p, k, l).ok, Taken(p, k, l).length <= Len(p)
        PROVE  DecodeCustom(p \o t) = Taken(p, k, l)
    <2>1. k + l <= Len(p) /\ Taken(p \o t, k, l) = Taken(p, k, l)
      BY <1>7, <1>9 DEF Stays
    <2>2. DecodeLength(p \o t) = DecodeLength(p) BY <1>1, <2>1, LengthStays DEF k, l
    <2> QED BY <2>1, <2>2 DEF DecodeCustom, k, l
  <1>10. k + l \in Nat BY <1>5
  <1> QED BY <1>6, <1>8, <1>9, <1>10 DEF Stays

-------------------------------------------------------------------------------
(***************************************************************************)
(* Sequences one behind the other.                                         *)
(***************************************************************************)

LEMMA Concats ==
    ASSUME NEW S
    PROVE  /\ << >> \in Seq(S)
           /\ \A a, b \in Seq(S) : a \o b \in Seq(S) /\ Len(a \o b) = Len(a) + Len(b)
           /\ \A a \in Seq(S) : Len(a) \in Nat /\ a \o << >> = a /\ << >> \o a = a
           /\ \A a, b, c \in Seq(S) : (a \o b) \o c = a \o (b \o c)
  <1>1. \A a, b \in Seq(S) : a \o b \in Seq(S) /\ Len(a \o b) = Len(a) + Len(b)
    BY ConcatProperties
  <1>2. \A a \in Seq(S) : Len(a) \in Nat /\ a \o << >> = a /\ << >> \o a = a
    BY ConcatEmptySeq
  <1>3. \A a, b, c \in Seq(S) : (a \o b) \o c = a \o (b \o c) BY ConcatAssociative
  <1>4. << >> \in Seq(S) OBVIOUS
  <1> QED BY ONLY <1>1, <1>2, <1>3, <1>4

LEMMA JoinSteps ==
    ASSUME NEW S, NEW seqs \in Seq(Seq(S))
    PROVE  /\ Len(seqs) \in Nat
           /\ JoinedUpto(seqs, 0) = << >>
           /\ \A i \in 0..Len(seqs) : JoinedUpto(seqs, i) \in Seq(S)
           /\ \A i \in 1..Len(seqs) : seqs[i] \in Seq(S) /\ JoinedUpto(seqs, i) = JoinedUpto(seqs, i - 1) \o seqs[i]
           /\ FlattenSeq(seqs) = JoinedUpto(seqs, Len(seqs))
  <1> DEFINE upto(i) == JoinedUpto(seqs, i)
             Q       == Seq(S)
             n       == Len(seqs)
  <1>1. \A i, p : Step(Joining(seqs), i, p) = p \o seqs[i] BY DEF Step, Joining
  <1>2. n \in Nat /\ FlattenSeq(seqs) = upto(n) BY JoinLoop DEF JoinedUpto
  <1>3. \A i \in 1..n : seqs[i] \in Q
    <2> HIDE DEF Q
    <2>1. seqs \in Seq(Q) BY DEF Q
    <2> QED BY ONLY <2>1, ElementOfSeq
  <1>4. upto(0) = << >> BY LoopSteps DEF JoinedUpto
  <1>5. << >> \in Q /\ \A a, b \in Q : a \o b \in Q BY Concats
  <1> HIDE DEF Q, n
  <1>6. ASSUME NEW i \in 1..n PROVE upto(i) = upto(i - 1) \o seqs[i]
    <2>1. i - 1 \in Nat /\ (i - 1) + 1 = i BY <1>2
    <2>2. Loop(Joining(seqs), << >>, (i - 1) + 1) = Step(Joining(seqs), (i - 1) + 1, Loop(Joining(seqs), << >>, i - 1))
      BY <2>1, LoopSteps, Zenon
    <2> QED BY <1>1, <2>1, <2>2 DEF JoinedUpto
  <1> HIDE DEF upto
  <1> DEFINE I == {i \in Nat : i <= n => upto(i) \in Q}
  <1>7. 0 \in I BY <1>4, <1>5
  <1>8. ASSUME NEW i \in Nat, i \in I PROVE i + 1 \in I
    <2> SUFFICES ASSUME i + 1 <= n PROVE upto(i + 1) \in Q OBVIOUS
    <2>1. i + 1 \in 1..n /\ (i + 1) - 1 = i /\ upto(i) \in Q /\ seqs[i + 1] \in Q
      BY <1>2, <1>3, <1>8
    <2>2. upto(i + 1) = upto(i) \o seqs[i + 1] BY <1>6, <2>1
    <2> QED BY <1>5, <2>1, <2>2
  <1> HIDE DEF I
  <1>9. \A i \in Nat : i \in I BY <1>7, <1>8, SetInduction
  <1>10. \A i \in 0..n : upto(i) \in Q BY <1>2, <1>9 DEF I
  <1> QED BY <1>2, <1>3, <1>4, <1>6, <1>10 DEF upto, Q, n

\* What is behind the first of them.
LEMMA JoinRest ==
    ASSUME NEW S, NEW seqs \in Seq(Seq(S)), NEW i \in 0..Len(seqs)
    PROVE  \E rest \in Seq(S) : FlattenSeq(seqs) = JoinedUpto(seqs, i) \o rest
  <1> DEFINE n == Len(seqs)
             upto(j) == JoinedUpto(seqs, j)
             Q == Seq(S)
             all == FlattenSeq(seqs)
             I == {k \in Nat : k <= n => \E rest \in Q : all = upto(n - k) \o rest}
  <1>1. /\ n \in Nat /\ all = upto(n)
        /\ \A j \in 0..n : upto(j) \in Q
        /\ \A j \in 1..n : upto(j) = upto(j - 1) \o seqs[j] /\ seqs[j] \in Q
    BY JoinSteps
  <1>2. << >> \in Q /\ (\A a, b \in Q : a \o b \in Q) /\ \A a \in Q : a \o << >> = a
    BY ONLY Concats DEF Q
  <1>20. \A u, v, w \in Q : (u \o v) \o w = u \o (v \o w) BY ONLY Concats DEF Q
  <1>3. i \in 0..n OBVIOUS
  <1> HIDE DEF upto, Q, n, all
  <1>4. 0 \in I
    <2>1. n - 0 = n /\ n \in 0..n /\ upto(n) \in Q BY ONLY <1>1
    <2>2. upto(n) \o << >> = upto(n) BY ONLY <1>2, <2>1
    <2> QED BY <1>1, <1>2, <2>1, <2>2
  <1>5. ASSUME NEW k \in Nat, k \in I PROVE k + 1 \in I
    <2> SUFFICES ASSUME k + 1 <= n PROVE \E rest \in Q : all = upto(n - (k + 1)) \o rest
      OBVIOUS
    <2>1. n - k \in 1..n /\ (n - k) - 1 = n - (k + 1) /\ n - (k + 1) \in 0..n BY <1>1
    <2>2. k <= n BY ONLY <1>1, <1>5, k + 1 <= n
    <2>21. \E rest \in Q : all = upto(n - k) \o rest BY ONLY <1>5, <2>2
    <2>22. PICK rest \in Q : all = upto(n - k) \o rest BY ONLY <2>21
    <2> DEFINE a == upto(n - (k + 1))
               b == seqs[n - k]
    <2>3. upto(n - k) = a \o b /\ a \in Q /\ b \in Q BY <1>1, <2>1
    <2> HIDE DEF a, b
    <2>41. a \in Q /\ b \in Q /\ rest \in Q BY ONLY <2>22, <2>3
    <2>42. b \o rest \in Q BY ONLY <1>2, <2>41
    <2>43. (a \o b) \o rest = a \o (b \o rest) BY ONLY <1>20, <2>41, Zenon
    <2>4. (a \o b) \o rest = a \o (b \o rest) /\ b \o rest \in Q BY ONLY <2>42, <2>43
    <2>5. all = a \o (b \o rest) BY ONLY <2>22, <2>3, <2>4
    <2> QED BY ONLY <2>4, <2>5 DEF a
  <1> HIDE DEF I
  <1>6. \A k \in Nat : k \in I BY ONLY <1>4, <1>5, SetInduction
  <1>7. n - i \in I /\ n - i \in Nat /\ n - i <= n /\ n - (n - i) = i
    BY <1>1, <1>3, <1>6
  <1> QED BY <1>7 DEF I, upto, Q, all

\* A cursor that has passed the first of them stands before the next.
LEMMA JoinCursor ==
    ASSUME NEW S, NEW seqs \in Seq(Seq(S)), NEW a \in Seq(S), NEW t \in Seq(S), NEW i \in 1..Len(seqs)
    PROVE  /\ Begins(S, (a \o FlattenSeq(seqs)) \o t, Len(a) + Len(JoinedUpto(seqs, i - 1)), seqs[i])
           /\ Len(JoinedUpto(seqs, i)) = Len(JoinedUpto(seqs, i - 1)) + Len(seqs[i])
  <1> DEFINE b == JoinedUpto(seqs, i - 1)
             c == seqs[i]
             Q == Seq(S)
             n == Len(seqs)
             all == FlattenSeq(seqs)
  <1>1. /\ n \in Nat
        /\ \A j \in 0..n : JoinedUpto(seqs, j) \in Q
        /\ \A j \in 1..n : seqs[j] \in Q /\ JoinedUpto(seqs, j) = JoinedUpto(seqs, j - 1) \o seqs[j]
    BY JoinSteps
  <1>2. \A u, v \in Q : u \o v \in Q /\ Len(u \o v) = Len(u) + Len(v)
    BY ONLY Concats DEF Q
  <1>20. \A u, v, w \in Q : (u \o v) \o w = u \o (v \o w)
    BY ONLY Concats, ZenonT(40) DEF Q
  <1>3. \A u, v \in Q : From(u \o v, Len(u)) = v BY ONLY PartsOfBoth DEF Q
  <1>4. \A j \in 0..n : \E rest \in Q : all = JoinedUpto(seqs, j) \o rest BY JoinRest
  <1>5. a \in Q /\ t \in Q /\ i \in 1..n OBVIOUS
  <1> HIDE DEF Q, n, all
  <1>6. i - 1 \in 0..n /\ i \in 0..n BY ONLY <1>1, <1>5
  <1>7. b \in Q /\ c \in Q /\ JoinedUpto(seqs, i) = b \o c BY ONLY <1>1, <1>5, <1>6
  <1>8. PICK r \in Q : all = (b \o c) \o r BY ONLY <1>4, <1>6, <1>7
  <1> HIDE DEF b, c
  <1>9. b \o c \in Q /\ Len(b \o c) = Len(b) + Len(c) /\ a \o b \in Q /\ Len(a \o b) = Len(a) + Len(b)
    BY ONLY <1>2, <1>5, <1>7
  <1>10. r \o t \in Q /\ c \o (r \o t) \in Q /\ c \o r \in Q
    BY ONLY <1>2, <1>5, <1>7, <1>8
  <1>11. (a \o ((b \o c) \o r)) \o t = (a \o b) \o (c \o (r \o t))
    <2>1. (b \o c) \o r = b \o (c \o r) BY ONLY <1>20, <1>7, <1>8, ZenonT(40)
    <2>2. a \o (b \o (c \o r)) = (a \o b) \o (c \o r)
      <3>1. a \in Q /\ b \in Q /\ c \o r \in Q BY ONLY <1>5, <1>7, <1>10
      <3> QED BY ONLY <1>20, <3>1, ZenonT(40)
    <2>3. ((a \o b) \o (c \o r)) \o t = (a \o b) \o ((c \o r) \o t)
      <3>1. a \o b \in Q /\ c \o r \in Q /\ t \in Q BY ONLY <1>5, <1>9, <1>10
      <3> QED BY ONLY <1>20, <3>1, ZenonT(40)
    <2>4. (c \o r) \o t = c \o (r \o t)
      <3>1. c \in Q /\ r \in Q /\ t \in Q BY ONLY <1>5, <1>7, <1>8
      <3> QED BY ONLY <1>20, <3>1, ZenonT(40)
    <2> QED BY ONLY <2>1, <2>2, <2>3, <2>4
  <1>12. From((a \o b) \o (c \o (r \o t)), Len(a \o b)) = c \o (r \o t)
    BY ONLY <1>3, <1>9, <1>10
  <1>13. From((a \o all) \o t, Len(a) + Len(b)) = c \o (r \o t)
    BY ONLY <1>8, <1>9, <1>11, <1>12
  <1> QED BY <1>7, <1>9, <1>10, <1>13 DEF b, c, Q, n, all, Begins

-------------------------------------------------------------------------------
(***************************************************************************)
(* The settings, and the encoders of every depth.                          *)
(***************************************************************************)

LEMMA MessageClasses ==
    Messages = {"NEW_BLOCK", "GET_BLOCKS", "BLOCKS", "NEW_TRANSACTION", "GET_TRANSACTIONS", "STATUS", "CHALLENGE",
                "CHALLENGE_REQ", "CHALLENGE_RESPONSE", "CHAINSTATE", "GET_CHAINSTATE", "ERROR_RESPONSE"}
  BY DEF Messages, MessageSettings

LEMMA SettingsAre ==
    /\ Settings("Block") = BlockSettings
    /\ Settings("Transaction") = TransactionSettings
    /\ Settings("BlockBody") = BodySettings
    /\ Settings("Wallet") = WalletSettings
    /\ Settings("MinterData") = MinterSettings
    /\ Settings("ForkChainstateData") = ForkSettings
    /\ Settings("ChainstateData") = ChainstateSettings
    /\ Settings("NEW_BLOCK") = NewBlockMsg
    /\ Settings("GET_BLOCKS") = GetBlocksMsg
    /\ Settings("BLOCKS") = BlocksMsg
    /\ Settings("NEW_TRANSACTION") = NewTransactionMsg
    /\ Settings("GET_TRANSACTIONS") = GetTransactionsMsg
    /\ Settings("STATUS") = StatusMsg
    /\ Settings("CHALLENGE") = ChallengeMsg
    /\ Settings("CHALLENGE_REQ") = ChallengeREQMsg
    /\ Settings("CHALLENGE_RESPONSE") = ChallengeResponseMsg
    /\ Settings("CHAINSTATE") = ChainstateMsg
    /\ Settings("GET_CHAINSTATE") = GetChainstateMsg
    /\ Settings("ERROR_RESPONSE") = ErrorResponseMsg
  BY DEF Settings, MessageSettings

LEMMA FieldKinds ==
    ASSUME NEW key, NEW len \in Nat, NEW target \in Classes
    PROVE  /\ IsField(BE(key, len)) /\ IsField(Unhashed(key, len)) /\ IsField(Custom(key))
           /\ IsField(BigInt(key))
           /\ IsField(ListOf(key, target)) /\ IsField(Object(key, target))
  <1>1. ASSUME NEW kind \in Kinds, NEW l \in Nat, NEW c, NEW remove, kind \in {"array", "object"} => c \in Classes
        PROVE  IsField(Field(key, kind, l, c, remove))
    BY <1>1 DEF IsField, Field
  <1>2. PrefixLength \in Nat BY EncodingAssumption
  <1> QED BY <1>1, <1>2 DEF Kinds, BE, Unhashed, Custom, BigInt, ListOf, Object

LEMMA FieldsOfSettings ==
    ASSUME NEW class \in Classes
    PROVE  /\ Len(Settings(class)) \in Nat /\ DOMAIN Settings(class) = 1..Len(Settings(class))
           /\ \A i \in 1..Len(Settings(class)) : IsField(Settings(class)[i])
  <1>1. {"Block", "Transaction", "BlockBody", "ForkChainstateData"} \subseteq Classes
    BY DEF Classes
  <1>2. Uint64Length \in Nat /\ PrefixLength \in Nat BY EncodingAssumption
  <1>11. \A key : /\ IsField(BE(key, 1)) /\ IsField(BE(key, Uint64Length)) /\ IsField(Unhashed(key, 1))
                  /\ IsField(Custom(key)) /\ IsField(BigInt(key))
    BY <1>1, <1>2, FieldKinds
  <1>12. \A key : /\ IsField(Object(key, "BlockBody")) /\ IsField(Object(key, "Block")) /\ IsField(Object(key, "Transaction"))
                  /\ IsField(Object(key, "ForkChainstateData")) /\ IsField(ListOf(key, "Transaction"))
                  /\ IsField(ListOf(key, "Block")) /\ IsField(ListOf(key, "ForkChainstateData"))
    BY <1>1, <1>2, FieldKinds
  <1>3. AreFields(BlockSettings) BY ONLY <1>11, <1>12 DEF AreFields, BlockSettings
  <1>4. AreFields(TransactionSettings)
    BY ONLY <1>11, <1>12 DEF AreFields, TransactionSettings
  <1>5. AreFields(BodySettings) /\ AreFields(ChainstateSettings) /\ AreFields(BlocksMsg)
    BY ONLY <1>11, <1>12 DEF AreFields, BodySettings, ChainstateSettings, BlocksMsg
  <1>6. AreFields(WalletSettings) /\ AreFields(MinterSettings)
    BY ONLY <1>11, <1>12 DEF AreFields, WalletSettings, MinterSettings
  <1>7. AreFields(ForkSettings) /\ AreFields(NewBlockMsg) /\ AreFields(NewTransactionMsg) /\ AreFields(ChainstateMsg)
    BY ONLY <1>11, <1>12 DEF AreFields, ForkSettings, NewBlockMsg, NewTransactionMsg, ChainstateMsg
  <1>8. AreFields(GetBlocksMsg) /\ AreFields(StatusMsg) /\ AreFields(ChallengeMsg) /\ AreFields(ChallengeResponseMsg) /\ AreFields(ErrorResponseMsg)
    BY ONLY <1>11, <1>12 DEF AreFields, GetBlocksMsg, StatusMsg, ChallengeMsg, ChallengeResponseMsg, ErrorResponseMsg
  <1>9. AreFields(GetTransactionsMsg) /\ AreFields(ChallengeREQMsg) /\ AreFields(GetChainstateMsg)
    BY DEF AreFields, GetTransactionsMsg, ChallengeREQMsg, GetChainstateMsg
  <1>10. AreFields(Settings(class))
    BY <1>3, <1>4, <1>5, <1>6, <1>7, <1>8, <1>9, SettingsAre, MessageClasses DEF Classes
  <1> QED BY <1>10 DEF AreFields

LEMMA BlankIs ==
    ASSUME NEW class \in Classes
    PROVE  /\ \A i \in 1..Len(Settings(class)) : KeyOf(class, i) \in DOMAIN Blank(class)
           /\ Blank(class) = [key \in DOMAIN Blank(class) |-> << >>]
  <1>1. DOMAIN Settings(class) = 1..Len(Settings(class)) BY FieldsOfSettings
  <1>2. DOMAIN Blank(class) = {Settings(class)[i].key : i \in DOMAIN Settings(class)}
             \cup (CASE class = "Block" -> {"minter"} [] class = "Transaction" -> {"senderAddress"} [] OTHER -> {})
    BY DEF Blank
  <1>3. Blank(class) = [key \in DOMAIN Blank(class) |-> << >>] BY DEF Blank
  <1> QED BY <1>1, <1>2, <1>3 DEF KeyOf

\* A function is what it gives.
LEMMA EncFieldIs ==
    /\ \A field, value : EncField(0, field, value) = EncodeField(EncodeNone, field, value)
    /\ \A field, value : EncField(1, field, value) = EncodeField(Encode0, field, value)
    /\ \A field, value : EncField(2, field, value) = EncodeField(Encode1, field, value)
    /\ \A field, value : EncField(3, field, value) = EncodeField(Encode2, field, value)
    /\ \A field, value : EncField(4, field, value) = EncodeField(Encode3, field, value)
  <1>0. \A c, o : /\ Enc(0, c, o) = EncodeNone(c, o) /\ Enc(1, c, o) = Encode0(c, o) /\ Enc(2, c, o) = Encode1(c, o)
                  /\ Enc(3, c, o) = Encode2(c, o) /\ Enc(4, c, o) = Encode3(c, o)
    BY DEF Enc
  <1>1. ASSUME NEW field, NEW value PROVE EncField(0, field, value) = EncodeField(EncodeNone, field, value)
    <2>1. [i \in DOMAIN value |-> Enc(0, field.target, value[i])] = [i \in DOMAIN value |-> EncodeNone(field.target, value[i])]
      BY ONLY <1>0, Zenon
    <2> QED BY <1>0, <2>1, Zenon DEF EncField, EncodeField, EncodeArray
  <1>2. ASSUME NEW field, NEW value PROVE EncField(1, field, value) = EncodeField(Encode0, field, value)
    <2>1. [i \in DOMAIN value |-> Enc(1, field.target, value[i])] = [i \in DOMAIN value |-> Encode0(field.target, value[i])]
      BY ONLY <1>0, Zenon
    <2> QED BY <1>0, <2>1, Zenon DEF EncField, EncodeField, EncodeArray
  <1>3. ASSUME NEW field, NEW value PROVE EncField(2, field, value) = EncodeField(Encode1, field, value)
    <2>1. [i \in DOMAIN value |-> Enc(2, field.target, value[i])] = [i \in DOMAIN value |-> Encode1(field.target, value[i])]
      BY ONLY <1>0, Zenon
    <2> QED BY <1>0, <2>1, Zenon DEF EncField, EncodeField, EncodeArray
  <1>4. ASSUME NEW field, NEW value PROVE EncField(3, field, value) = EncodeField(Encode2, field, value)
    <2>1. [i \in DOMAIN value |-> Enc(3, field.target, value[i])] = [i \in DOMAIN value |-> Encode2(field.target, value[i])]
      BY ONLY <1>0, Zenon
    <2> QED BY <1>0, <2>1, Zenon DEF EncField, EncodeField, EncodeArray
  <1>5. ASSUME NEW field, NEW value PROVE EncField(4, field, value) = EncodeField(Encode3, field, value)
    <2>1. [i \in DOMAIN value |-> Enc(4, field.target, value[i])] = [i \in DOMAIN value |-> Encode3(field.target, value[i])]
      BY ONLY <1>0, Zenon
    <2> QED BY <1>0, <2>1, Zenon DEF EncField, EncodeField, EncodeArray
  <1> QED BY ONLY <1>1, <1>2, <1>3, <1>4, <1>5

LEMMA EncIs ==
    ASSUME NEW class, NEW object
    PROVE  /\ \A k \in 0..4 : Enc(k + 1, class, object) = FlattenSeq(EncFields(k, class, object))
           /\ EncodeObject(class, object, TRUE) = FlattenSeq(HashFields(class, object))
           /\ EncodeObject(class, object, FALSE) = Enc(5, class, object)
  <1>0. /\ Enc(1, class, object) = Encode0(class, object) /\ Enc(2, class, object) = Encode1(class, object)
        /\ Enc(3, class, object) = Encode2(class, object) /\ Enc(4, class, object) = Encode3(class, object)
        /\ Enc(5, class, object) = EncodeObject(class, object, FALSE)
    BY DEF Enc
  <1>1. Encode0(class, object) = FlattenSeq(EncFields(0, class, object))
    BY EncFieldIs, Zenon DEF EncFields, Encode0, EncodeOver
  <1>2. Encode1(class, object) = FlattenSeq(EncFields(1, class, object))
    BY EncFieldIs, Zenon DEF EncFields, Encode1, EncodeOver
  <1>3. Encode2(class, object) = FlattenSeq(EncFields(2, class, object))
    BY EncFieldIs, Zenon DEF EncFields, Encode2, EncodeOver
  <1>4. Encode3(class, object) = FlattenSeq(EncFields(3, class, object))
    BY EncFieldIs, Zenon DEF EncFields, Encode3, EncodeOver
  <1>5. EncodeObject(class, object, FALSE) = FlattenSeq(EncFields(4, class, object))
    BY EncFieldIs, Zenon DEF EncFields, EncodeObject, EncodeOver
  <1>6. EncodeObject(class, object, TRUE) = FlattenSeq(HashFields(class, object))
    BY EncFieldIs, Zenon DEF HashFields, EncodeObject, EncodeOver
  <1>7. \A k \in 0..4 : k = 0 \/ k = 1 \/ k = 2 \/ k = 3 \/ k = 4 OBVIOUS
  <1>8. 0 + 1 = 1 /\ 1 + 1 = 2 /\ 2 + 1 = 3 /\ 3 + 1 = 4 /\ 4 + 1 = 5 OBVIOUS
  <1> QED BY ONLY <1>0, <1>1, <1>2, <1>3, <1>4, <1>5, <1>6, <1>7, <1>8, Zenon

-------------------------------------------------------------------------------
(***************************************************************************)
(* What is written is read back: lists of items and the fields of an       *)
(* object, of what is so of one item and one field.                        *)
(***************************************************************************)

LEMMA DecoderIs ==
    ASSUME NEW d, NEW class \in Classes, NEW read \in Seq(Elements)
    PROVE  Decoder(d)[<<class, read>>] = FromFields(class, DecodeFields(d, class, read))
  <1> DEFINE Q == Seq(Elements)
  <1>1. read \in Q /\ class \in Classes OBVIOUS
  <1>2. Decoder(d) = [part \in Classes \X Q |-> FromFields(part[1], DecodeFields(d, part[1], part[2]))]
    BY DEF Decoder
  <1> HIDE DEF Q
  <1> QED BY ONLY <1>1, <1>2

LEMMA NextItemIs ==
    ASSUME NEW d, NEW class, NEW read, NEW items, NEW len, NEW item, NEW more,
           d[<<class, From(read, len)>>] = Decoded(item, more)
    PROVE  NextItem(d, class, read, Decoded(items, len)) = Decoded(Append(items, item), len + more)
  <1>1. /\ Decoded(items, len).ok /\ Decoded(items, len).data = items /\ Decoded(items, len).length = len
        /\ Decoded(item, more).ok /\ Decoded(item, more).data = item /\ Decoded(item, more).length = more
    BY Outcomes
  <1> HIDE DEF Decoded
  <1> QED BY ONLY <1>1, d[<<class, From(read, len)>>] = Decoded(item, more), Zenon DEF NextItem, WithItem

LEMMA UptoMore ==
    ASSUME NEW S, NEW list \in Seq(S), NEW i \in 0..(Len(list) - 1)
    PROVE  /\ Append(Upto(list, i), list[i + 1]) = Upto(list, i + 1)
           /\ Upto(list, 0) = << >> /\ Upto(list, Len(list)) = list
  <1>1. /\ i \in 0..Len(list) /\ i + 1 \in 0..Len(list) /\ 0 \in 0..Len(list) /\ Len(list) \in 0..Len(list)
        /\ i + 1 \in 1..Len(list) /\ i \in Nat
    OBVIOUS
  <1>2. \A l \in 0..Len(list) : /\ Upto(list, l) \in Seq(S) /\ Len(Upto(list, l)) = l
                                /\ \A j \in 1..l : Upto(list, l)[j] = list[j]
    BY PartsWithin
  <1>3. list[i + 1] \in S BY <1>1, ElementOfSeq
  <1> DEFINE u == Upto(list, i)
             v == Upto(list, i + 1)
             e == list[i + 1]
             w == Append(u, e)
  <1>4. /\ u \in Seq(S) /\ Len(u) = i /\ (\A j \in 1..i : u[j] = list[j])
        /\ v \in Seq(S) /\ Len(v) = i + 1 /\ (\A j \in 1..(i + 1) : v[j] = list[j])
    BY <1>1, <1>2
  <1> HIDE DEF u, v, e
  <1>5. e \in S /\ e = list[i + 1] BY <1>3 DEF e
  <1>6. w \in Seq(S) /\ Len(w) = i + 1 /\ (\A j \in 1..i : w[j] = u[j]) /\ w[i + 1] = e
    BY <1>4, <1>5, AppendProperties
  <1> HIDE DEF w
  <1>7. \A j \in 1..(i + 1) : w[j] = v[j]
    <2> TAKE j \in 1..(i + 1)
    <2>1. j \in 1..i \/ j = i + 1 BY <1>1
    <2> QED BY <1>4, <1>5, <1>6, <2>1
  <1>8. w = v BY <1>4, <1>6, <1>7, SeqEqual
  <1>9. Upto(list, 0) = << >> BY <1>1, <1>2
  <1>10. Upto(list, Len(list)) = list BY <1>1, <1>2, SeqEqual
  <1> QED BY <1>8, <1>9, <1>10 DEF u, v, e, w

LEMMA ListBack ==
    ASSUME NEW S, NEW list \in Seq(S), NEW codes \in Seq(Seq(Elements)),
           NEW d, NEW class, ItemsBack(d, class, codes, list),
           NEW len \in Nat, Cut(Len(list), Base, len) = 0, NEW t \in Seq(Elements)
    PROVE  ArrayBack(d, class, Digits(Len(list), len) \o FlattenSeq(codes), list, len, t)
  <1> DEFINE Q   == Seq(Elements)
             n   == Len(list)
             a   == Digits(n, len)
             all == FlattenSeq(codes)
             p   == (a \o all) \o t
             upto(i) == JoinedUpto(codes, i)
             x   == ItemsOf(d, class, p)
             L(i) == Loop(x, Decoded(<< >>, len), i)
  <1>0. Len(codes) = n /\ \A i \in 1..n : Back(d, class, codes[i], list[i])
    BY DEF ItemsBack
  <1>1. /\ n \in Nat /\ upto(0) = << >> /\ all = upto(n) /\ all \in Q
        /\ \A i \in 0..n : upto(i) \in Q
    <2>1. n \in Nat /\ Len(codes) = n BY <1>0
    <2>2. /\ JoinedUpto(codes, 0) = << >> /\ all = JoinedUpto(codes, n)
          /\ \A i \in 0..n : JoinedUpto(codes, i) \in Q
      BY <2>1, JoinSteps
    <2>3. n \in 0..n BY <2>1
    <2> QED BY ONLY <2>1, <2>2, <2>3
  <1>2. a \in Q /\ Len(a) = len /\ ToInt(a) = n
    <2>1. a \in Seq(Digit) /\ Len(a) = len /\ ToInt(a) = n BY <1>1, DigitsOf
    <2> QED BY <2>1, ElementFacts, SeqMonotonic
  <1>3. /\ \A u, v \in Q : u \o v \in Q /\ Len(u \o v) = Len(u) + Len(v)
        /\ \A u \in Q : Len(u) \in Nat
    BY ONLY Concats DEF Q
  <1>4. a \o all \in Q /\ Len(a \o all) = len + Len(all) /\ p \in Q /\ t \in Q
    BY <1>1, <1>2, <1>3
  <1>5. \A i \in 1..n : /\ \E rest \in Q : From(p, len + Len(upto(i - 1))) = codes[i] \o rest
                        /\ Len(upto(i)) = Len(upto(i - 1)) + Len(codes[i])
    <2>1. \A i \in 1..n :
            /\ Begins(Elements, (a \o all) \o t, Len(a) + Len(JoinedUpto(codes, i - 1)), codes[i])
            /\ Len(JoinedUpto(codes, i)) = Len(JoinedUpto(codes, i - 1)) + Len(codes[i])
      <3>1. a \in Seq(Elements) /\ t \in Seq(Elements) /\ codes \in Seq(Seq(Elements)) /\ Len(codes) = n
        BY <1>0, <1>2
      <3> HIDE DEF a
      <3> TAKE i \in 1..n
      <3>2. i \in 1..Len(codes) BY ONLY <3>1, i \in 1..n
      <3> HIDE DEF n
      <3> QED BY ONLY <3>1, <3>2, JoinCursor DEF all
    <2> QED BY ONLY <1>2, <2>1 DEF Begins
  <1>6. Upto(p, len) = a
    <2>1. Upto((a \o all) \o t, Len(a)) = Upto(a \o all, Len(a)) /\ Upto(a \o all, Len(a)) = a
      <3>1. Len(a) \in Nat /\ Len(a) <= Len(a \o all) BY <1>1, <1>2, <1>3, <1>4
      <3>2. a \in Q /\ all \in Q /\ a \o all \in Q /\ t \in Q BY <1>1, <1>2, <1>4
      <3> HIDE DEF a, all
      <3>3. Upto((a \o all) \o t, Len(a)) = Upto(a \o all, Len(a))
        BY ONLY <3>1, <3>2, PartsOfMore DEF Q
      <3>4. Upto(a \o all, Len(a)) = a BY ONLY <3>2, PartsOfBoth DEF Q
      <3> QED BY ONLY <3>3, <3>4
    <2> QED BY <1>2, <2>1
  <1>7. DecodeArray(d, p, len, class) = L(n) BY <1>1, <1>2, <1>6, ItemsLoop
  <1>8. \A i \in Nat : L(i + 1) = NextItem(d, class, p, L(i))
    <2>1. \A i, q : Step(x, i, q) = NextItem(d, class, p, q) BY DEF Step, ItemsOf
    <2> HIDE DEF x
    <2> QED BY <2>1, LoopSteps
  <1>9. L(0) = Decoded(<< >>, len) BY LoopSteps
  <1>10. \A i \in 0..(n - 1) : Append(Upto(list, i), list[i + 1]) = Upto(list, i + 1)
    BY UptoMore
  <1>11. Upto(list, 0) = << >> /\ Upto(list, n) = list
    <2>1. n \in 0..n /\ 0 \in 0..n BY <1>1
    <2>2. /\ Upto(list, 0) \in Seq(S) /\ Len(Upto(list, 0)) = 0 BY <2>1, PartsWithin
    <2>3. /\ Upto(list, n) \in Seq(S) /\ Len(Upto(list, n)) = n /\ \A i \in 1..n : Upto(list, n)[i] = list[i]
      BY <2>1, PartsWithin
    <2>4. Upto(list, n) = list BY <2>3, SeqEqual
    <2> QED BY <2>2, <2>4
  <1>12. \A i \in 1..n : \A r \in Q : d[<<class, codes[i] \o r>>] = Decoded(list[i], Len(codes[i]))
    BY <1>0 DEF Back
  <1> HIDE DEF Q, n, a, all, p, upto, x, L
  <1> DEFINE I == {i \in Nat : i <= n => L(i) = Decoded(Upto(list, i), len + Len(upto(i)))}
  <1>13. 0 \in I
    <2>1. len + 0 = len OBVIOUS
    <2> QED BY <1>1, <1>9, <1>11, <2>1
  <1>14. ASSUME NEW i \in Nat, i \in I PROVE i + 1 \in I
    <2> SUFFICES ASSUME i + 1 <= n PROVE L(i + 1) = Decoded(Upto(list, i + 1), len + Len(upto(i + 1)))
      OBVIOUS
    <2>1. i <= n /\ i + 1 \in 1..n /\ (i + 1) - 1 = i /\ i \in 0..(n - 1) /\ i \in 0..n /\ i + 1 \in 0..n
      BY <1>1
    <2>2. L(i) = Decoded(Upto(list, i), len + Len(upto(i))) BY <1>14, <2>1
    <2>3. PICK rest \in Q : From(p, len + Len(upto(i))) = codes[i + 1] \o rest
      BY <1>5, <2>1
    <2>4. d[<<class, From(p, len + Len(upto(i)))>>] = Decoded(list[i + 1], Len(codes[i + 1]))
      BY <1>12, <2>1, <2>3
    <2>5. NextItem(d, class, p, L(i)) = Decoded(Append(Upto(list, i), list[i + 1]), (len + Len(upto(i))) + Len(codes[i + 1]))
      <3> DEFINE at == len + Len(upto(i))
                 item == list[i + 1]
                 more == Len(codes[i + 1])
                 items == Upto(list, i)
      <3> HIDE DEF at, item, more, items
      <3>1. L(i) = Decoded(items, at) /\ d[<<class, From(p, at)>>] = Decoded(item, more)
        BY ONLY <2>2, <2>4 DEF at, item, more, items
      <3>2. NextItem(d, class, p, Decoded(items, at)) = Decoded(Append(items, item), at + more)
        BY ONLY <3>1, NextItemIs
      <3> QED BY ONLY <3>1, <3>2 DEF at, item, more, items
    <2>7. Len(upto(i)) \in Nat /\ Len(upto(i + 1)) \in Nat /\ Len(upto(i + 1)) = Len(upto(i)) + Len(codes[i + 1])
      BY <1>1, <1>3, <1>5, <2>1
    <2>8. (len + Len(upto(i))) + Len(codes[i + 1]) = len + Len(upto(i + 1))
      <3>1. codes[i + 1] \in Q BY ONLY <1>0, <2>1 DEF Back, Q
      <3>2. Len(codes[i + 1]) \in Nat BY <1>3, <3>1
      <3>3. len \in Nat OBVIOUS
      <3> DEFINE u == Len(upto(i))
                 c == Len(codes[i + 1])
      <3>4. u \in Nat /\ c \in Nat /\ Len(upto(i + 1)) = u + c BY ONLY <2>7, <3>2
      <3> HIDE DEF u, c
      <3>5. (len + u) + c = len + (u + c) BY ONLY <3>3, <3>4
      <3> QED BY ONLY <3>4, <3>5 DEF u, c
    <2> QED BY ONLY <1>8, <1>10, <2>1, <2>5, <2>8
  <1> HIDE DEF I
  <1>15. \A i \in Nat : i \in I BY <1>13, <1>14, SetInduction
  <1>16. L(n) = Decoded(list, len + Len(all)) BY ONLY <1>1, <1>11, <1>15, n <= n DEF I
  <1> QED BY <1>4, <1>7, <1>16 DEF Q, n, a, all, p, ArrayBack

-------------------------------------------------------------------------------
LEMMA FirstFieldsMore ==
    ASSUME NEW class \in Classes, NEW object, NEW i \in Nat, i + 1 <= Len(Settings(class))
    PROVE  [FirstFields(class, object, i) EXCEPT ![KeyOf(class, i + 1)] = object[KeyOf(class, i + 1)]]
               = FirstFields(class, object, i + 1)
  <1> DEFINE K == DOMAIN Blank(class)
             new == KeyOf(class, i + 1)
             P(m, key) == \E j \in 1..m : KeyOf(class, j) = key
  <1>1. new \in K
    <2>1. i + 1 \in 1..Len(Settings(class)) BY FieldsOfSettings
    <2> QED BY <2>1, BlankIs
  <1>2. \A key : P(i + 1, key) <=> P(i, key) \/ key = new
    <2>1. 1..(i + 1) = (1..i) \cup {i + 1} OBVIOUS
    <2> QED BY ONLY <2>1
  <1>3. /\ FirstFields(class, object, i) = [key \in K |-> IF P(i, key) THEN object[key] ELSE << >>]
        /\ FirstFields(class, object, i + 1) = [key \in K |-> IF P(i + 1, key) THEN object[key] ELSE << >>]
    BY DEF FirstFields
  <1> HIDE DEF K, new, P
  <1> QED BY ONLY <1>1, <1>2, <1>3 DEF new

LEMMA NextFieldIs ==
    ASSUME NEW d, NEW field, NEW read, NEW data, NEW len, NEW value, NEW more,
           DecodeField(d, field, From(read, len)) = Decoded(value, more)
    PROVE  NextField(d, field, read, Decoded(data, len)) = Decoded([data EXCEPT ![field.key] = value], len + more)
  <1>1. /\ Decoded(data, len).ok /\ Decoded(data, len).data = data /\ Decoded(data, len).length = len
        /\ Decoded(value, more).ok /\ Decoded(value, more).data = value /\ Decoded(value, more).length = more
    BY Outcomes
  <1> HIDE DEF Decoded
  <1> QED BY ONLY <1>1, DecodeField(d, field, From(read, len)) = Decoded(value, more), Zenon DEF NextField, WithField

LEMMA FieldsBack ==
    ASSUME NEW d, NEW class \in Classes, NEW object, NEW codes \in Seq(Seq(Elements)),
           Len(codes) = Len(Settings(class)),
           \A i \in 1..Len(codes) : FieldBack(d, Settings(class)[i], codes[i], object[KeyOf(class, i)]),
           NEW t \in Seq(Elements)
    PROVE  /\ FlattenSeq(codes) \in Seq(Elements)
           /\ DecodeFields(d, class, FlattenSeq(codes) \o t)
                  = Decoded(FirstFields(class, object, Len(Settings(class))), Len(FlattenSeq(codes)))
  <1> DEFINE Q   == Seq(Elements)
             n   == Len(Settings(class))
             all == FlattenSeq(codes)
             p   == all \o t
             upto(i) == JoinedUpto(codes, i)
             x   == FieldsOf(d, class, p)
             L(i) == Loop(x, Decoded(Blank(class), 0), i)
             F(i) == FirstFields(class, object, i)
             field(i) == Settings(class)[i]
             key(i) == KeyOf(class, i)
  <1>1. /\ n \in Nat /\ upto(0) = << >> /\ all = upto(n) /\ all \in Q
        /\ \A i \in 0..n : upto(i) \in Q
    <2>1. n \in Nat /\ Len(codes) = n OBVIOUS
    <2>2. /\ JoinedUpto(codes, 0) = << >> /\ all = JoinedUpto(codes, n)
          /\ \A i \in 0..n : JoinedUpto(codes, i) \in Q
      BY <2>1, JoinSteps
    <2>3. n \in 0..n BY <2>1
    <2> QED BY ONLY <2>1, <2>2, <2>3
  <1>2. /\ << >> \in Q /\ << >> \o all = all /\ t \in Q
    <2>1. all \in Q BY <1>1
    <2> HIDE DEF all
    <2> QED BY <2>1, Concats
  <1>3. \A i \in 1..n : /\ \E rest \in Q : From(p, Len(upto(i - 1))) = codes[i] \o rest
                        /\ Len(upto(i)) = Len(upto(i - 1)) + Len(codes[i])
    <2>1. \A i \in 1..n : /\ Begins(Elements, (<< >> \o all) \o t, Len(<< >>) + Len(JoinedUpto(codes, i - 1)), codes[i])
                          /\ Len(JoinedUpto(codes, i)) = Len(JoinedUpto(codes, i - 1)) + Len(codes[i])
      <3>1. << >> \in Seq(Elements) /\ t \in Seq(Elements) /\ codes \in Seq(Seq(Elements)) /\ Len(codes) = n
        BY <1>2
      <3> TAKE i \in 1..n
      <3>2. i \in 1..Len(codes) BY ONLY <3>1, i \in 1..n
      <3> HIDE DEF n
      <3> QED BY ONLY <3>1, <3>2, JoinCursor DEF all
    <2>2. \A u \in Q : Len(<< >>) + Len(u) = Len(u) BY Concats
    <2>3. \A i \in 1..n : upto(i - 1) \in Q
      <3>1. \A i \in 1..n : i - 1 \in 0..n BY ONLY <1>1
      <3> QED BY ONLY <1>1, <3>1
    <2> QED BY ONLY <1>2, <2>1, <2>2, <2>3 DEF Begins
  <1>4. DecodeFields(d, class, p) = L(n) BY <1>1, FieldsLoop
  <1>5. \A i \in Nat : L(i + 1) = NextField(d, field(i + 1), p, L(i))
    <2>1. \A i, q : Step(x, i, q) = NextField(d, field(i), p, q) BY DEF Step, FieldsOf
    <2> HIDE DEF x, field
    <2> QED BY <2>1, LoopSteps
  <1>6. L(0) = Decoded(Blank(class), 0) BY LoopSteps
  <1>7. \A i \in 1..n : \A r \in Q : DecodeField(d, field(i), codes[i] \o r) = Decoded(object[key(i)], Len(codes[i]))
    BY DEF FieldBack
  <1>8. \A i \in 1..n : codes[i] \in Q BY DEF FieldBack
  <1>9. F(0) = Blank(class) BY BlankIs DEF FirstFields
  <1>10. \A i \in Nat : i + 1 <= n => [F(i) EXCEPT ![key(i + 1)] = object[key(i + 1)]] = F(i + 1)
    BY FirstFieldsMore
  <1>11. \A i : field(i).key = key(i) BY DEF KeyOf
  <1>12. /\ \A u \in Q : Len(u) \in Nat
         /\ Len(<< >>) = 0
    BY Concats
  <1> HIDE DEF Q, n, all, p, upto, x, L, F, field, key
  <1> DEFINE I == {i \in Nat : i <= n => L(i) = Decoded(F(i), Len(upto(i)))}
  <1>13. 0 \in I BY ONLY <1>1, <1>6, <1>9, <1>12
  <1>14. ASSUME NEW i \in Nat, i \in I PROVE i + 1 \in I
    <2> SUFFICES ASSUME i + 1 <= n PROVE L(i + 1) = Decoded(F(i + 1), Len(upto(i + 1)))
      OBVIOUS
    <2>1. i <= n /\ i + 1 \in 1..n /\ (i + 1) - 1 = i /\ i \in 0..n /\ i + 1 \in 0..n
      BY <1>1
    <2>2. L(i) = Decoded(F(i), Len(upto(i))) BY <1>14, <2>1
    <2>3. PICK rest \in Q : From(p, Len(upto(i))) = codes[i + 1] \o rest BY <1>3, <2>1
    <2>4. DecodeField(d, field(i + 1), From(p, Len(upto(i)))) = Decoded(object[key(i + 1)], Len(codes[i + 1]))
      BY <1>7, <2>1, <2>3
    <2>5. L(i + 1) = NextField(d, field(i + 1), p, L(i)) BY <1>5
    <2>6. [F(i) EXCEPT ![key(i + 1)] = object[key(i + 1)]] = F(i + 1) /\ field(i + 1).key = key(i + 1)
      BY <1>10, <1>11
    <2>7. Len(upto(i + 1)) = Len(upto(i)) + Len(codes[i + 1]) BY ONLY <1>3, <2>1
    <2> DEFINE at == Len(upto(i))
               f == field(i + 1)
               value == object[key(i + 1)]
               more == Len(codes[i + 1])
               data == F(i)
               k == key(i + 1)
    <2>8. /\ L(i) = Decoded(data, at) /\ DecodeField(d, f, From(p, at)) = Decoded(value, more)
          /\ L(i + 1) = NextField(d, f, p, L(i)) /\ [data EXCEPT ![f.key] = value] = F(i + 1)
          /\ Len(upto(i + 1)) = at + more
      BY ONLY <2>2, <2>4, <2>5, <2>6, <2>7
    <2> HIDE DEF at, f, value, more, data, k
    <2>9. NextField(d, f, p, Decoded(data, at)) = Decoded([data EXCEPT ![f.key] = value], at + more)
      BY ONLY <2>8, NextFieldIs
    <2> QED BY ONLY <2>8, <2>9
  <1> HIDE DEF I
  <1>15. \A i \in Nat : i \in I BY ONLY <1>13, <1>14, SetInduction
  <1>16. L(n) = Decoded(F(n), Len(all)) BY <1>1, <1>15 DEF I
  <1> QED BY <1>1, <1>4, <1>16 DEF Q, n, all, p, F

-------------------------------------------------------------------------------
(***************************************************************************)
(* What a decoder reads of the first bytes it reads of them and more.      *)
(***************************************************************************)

\* Of the value behind what was read, with what was read.
LEMMA BehindStays ==
    ASSUME NEW p \in Seq(Elements), NEW t \in Seq(Elements), NEW l \in Nat, NEW k \in Nat, l + k <= Len(p)
    PROVE  /\ From(p, l) \in Seq(Elements) /\ From(p \o t, l) = From(p, l) \o t
           /\ k <= Len(From(p, l))
  <1>1. Len(p) \in Nat OBVIOUS
  <1>2. l <= Len(p) /\ l \in 0..Len(p) /\ k <= Len(p) - l BY <1>1
  <1>3. From(p \o t, l) = From(p, l) \o t BY <1>2, PartsOfMore
  <1>4. From(p, l) \in Seq(Elements) /\ Len(From(p, l)) = Len(p) - l
    BY <1>2, PartsWithin
  <1> QED BY ONLY <1>2, <1>3, <1>4

LEMMA FromTyped ==
    ASSUME NEW S, NEW p \in Seq(S), NEW l \in Nat
    PROVE  From(p, l) \in Seq(S)
  BY PartsOf

LEMMA NextItemReads ==
    ASSUME NEW d, Reads(d), NEW class \in Classes, NEW p \in Seq(Elements), NEW t \in Seq(Elements),
           NEW r, NEW m, Parted(r, m, Len(p))
    PROVE  /\ Parted(NextItem(d, class, p, r), NextItem(d, class, p \o t, m), Len(p))
           /\ NextItem(d, class, p, r).ok => r.ok /\ NextItem(d, class, p, r).length >= r.length
  <1> DEFINE next == NextItem(d, class, p, r)
             more == NextItem(d, class, p \o t, m)
  <1>1. CASE r = Failed
    <2>1. next = Failed BY <1>1, Outcomes, Zenon DEF NextItem
    <2> QED BY <2>1, Outcomes DEF Parted, Stays, Outcome
  <1>2. CASE r # Failed
    <2>1. PICK v, l : l \in Nat /\ r = Decoded(v, l) BY <1>2 DEF Parted, Outcome
    <2>2. r.ok /\ r.length = l BY <2>1, Outcomes
    <2> DEFINE value == d[<<class, From(p, l)>>]
    <2>3. From(p, l) \in Seq(Elements) BY <2>1, FromTyped
    <2>4. Outcome(value)
      <3>1. << >> \in Seq(Elements) OBVIOUS
      <3> QED BY <2>3, <3>1 DEF Reads, Parted
    <2>5. CASE value = Failed
      <3>1. next = Failed
        <4>1. next = WithItem(r, value) BY <2>1, <2>2, Zenon DEF NextItem
        <4>2. ~Failed.ok BY Outcomes
        <4> HIDE DEF next, value
        <4> QED BY ONLY <4>1, <4>2, <2>5, Zenon DEF WithItem
      <3> QED BY <3>1, Outcomes DEF Parted, Stays, Outcome
    <2>6. CASE value # Failed
      <3>1. PICK w, k : k \in Nat /\ value = Decoded(w, k) BY <2>4, <2>6 DEF Outcome
      <3>2. next = Decoded(Append(v, w), l + k)
        <4>1. d[<<class, From(p, l)>>] = Decoded(w, k) BY ONLY <3>1
        <4>2. NextItem(d, class, p, Decoded(v, l)) = Decoded(Append(v, w), l + k)
          BY ONLY <4>1, NextItemIs
        <4> QED BY ONLY <2>1, <4>2
      <3>3. next.length = l + k /\ l + k \in Nat /\ Outcome(next)
        <4>1. l + k \in Nat BY <2>1, <3>1
        <4> QED BY <3>2, <4>1, Outcomes DEF Outcome
      <3>4. ASSUME l + k <= Len(p) PROVE more = next
        <4>1. /\ From(p \o t, l) = From(p, l) \o t /\ k <= Len(From(p, l))
          BY <2>1, <3>1, <3>4, BehindStays
        <4>2. l <= Len(p) BY <2>1, <3>1, <3>4
        <4>3. m = r BY <2>2, <4>2 DEF Parted, Stays
        <4>4. value.ok /\ value.length = k BY <3>1, Outcomes
        <4>5. d[<<class, From(p, l) \o t>>] = value
          BY <2>3, <4>1, <4>4 DEF Reads, Parted, Stays
        <4>6. d[<<class, From(p \o t, l)>>] = Decoded(w, k) BY ONLY <3>1, <4>1, <4>5
        <4>7. NextItem(d, class, p \o t, Decoded(v, l)) = Decoded(Append(v, w), l + k)
          BY ONLY <4>6, NextItemIs
        <4> QED BY ONLY <2>1, <3>2, <4>3, <4>7
      <3>5. l + k >= l BY <2>1, <3>1
      <3> HIDE DEF next, more
      <3>6. Stays(next, more, Len(p)) BY ONLY <3>3, <3>4 DEF Stays
      <3>7. Parted(next, more, Len(p)) /\ (next.ok => r.ok /\ next.length >= r.length)
        BY ONLY <2>2, <3>3, <3>5, <3>6 DEF Parted
      <3> QED BY ONLY <3>7 DEF next, more
    <2> QED BY <2>5, <2>6
  <1> QED BY <1>1, <1>2

LEMMA ListReads ==
    ASSUME NEW d, Reads(d), NEW class \in Classes, NEW p \in Seq(Elements), NEW t \in Seq(Elements), NEW len \in Nat
    PROVE  Parted(DecodeArray(d, p, len, class), DecodeArray(d, p \o t, len, class), Len(p))
  <1> DEFINE n    == ToInt(Upto(p, len))
             q    == p \o t
             L(i) == Loop(ItemsOf(d, class, p), Decoded(<< >>, len), i)
             M(i) == Loop(ItemsOf(d, class, q), Decoded(<< >>, len), i)
  <1>1. n \in Nat BY PartsOf, ToIntOf
  <1>2. q \in Seq(Elements) /\ Len(p) \in Nat BY ConcatProperties
  <1>3. ToInt(Upto(q, len)) \in Nat
    <2> HIDE DEF q
    <2> QED BY <1>2, PartsOf, ToIntOf
  <1>4. DecodeArray(d, p, len, class) = L(n) BY <1>1, ItemsLoop
  <1>5. len <= Len(p) => DecodeArray(d, q, len, class) = M(n)
    <2> SUFFICES ASSUME len <= Len(p) PROVE DecodeArray(d, q, len, class) = M(n) OBVIOUS
    <2>1. Upto(q, len) = Upto(p, len) BY PartsOfMore
    <2>2. DecodeArray(d, q, len, class) = M(ToInt(Upto(q, len))) BY <1>3, ItemsLoop
    <2> QED BY ONLY <2>1, <2>2
  <1>6. /\ \A i \in Nat : L(i + 1) = NextItem(d, class, p, L(i)) /\ M(i + 1) = NextItem(d, class, q, M(i))
        /\ L(0) = Decoded(<< >>, len) /\ M(0) = Decoded(<< >>, len)
    <2>1. \A b, i, r : Step(ItemsOf(d, class, b), i, r) = NextItem(d, class, b, r)
      BY DEF Step, ItemsOf
    <2> HIDE DEF q
    <2> QED BY <2>1, LoopSteps
  <1>7. \A r, m : Parted(r, m, Len(p)) =>
            /\ Parted(NextItem(d, class, p, r), NextItem(d, class, q, m), Len(p))
            /\ NextItem(d, class, p, r).ok => r.ok /\ NextItem(d, class, p, r).length >= r.length
    BY NextItemReads
  <1> HIDE DEF n, q, L, M
  <1> DEFINE I == {i \in Nat : Parted(L(i), M(i), Len(p)) /\ (L(i).ok => L(i).length >= len)}
  <1>8. 0 \in I
    <2>1. Parted(L(0), M(0), Len(p)) BY <1>6, Outcomes DEF Parted, Stays, Outcome
    <2>2. L(0).length = len BY <1>6, Outcomes
    <2> QED BY <2>1, <2>2
  <1>9. ASSUME NEW i \in Nat, i \in I PROVE i + 1 \in I
    <2> DEFINE r == L(i)
               next == L(i + 1)
    <2>1. /\ Parted(r, M(i), Len(p)) /\ (r.ok => r.length >= len)
          /\ next = NextItem(d, class, p, r) /\ M(i + 1) = NextItem(d, class, q, M(i))
      BY <1>6, <1>9
    <2>2. Parted(next, M(i + 1), Len(p)) /\ (next.ok => r.ok /\ next.length >= r.length)
      BY <1>7, <2>1
    <2>3. ASSUME next.ok PROVE next.length >= len
      <3>1. r.ok /\ next.ok /\ next.length >= r.length /\ r.length >= len
        BY <2>1, <2>2, <2>3
      <3>2. r.length \in Nat /\ next.length \in Nat
        <4>1. Outcome(r) /\ Outcome(next) BY <2>1, <2>2 DEF Parted
        <4> HIDE DEF r, next
        <4> QED BY <3>1, <4>1, Outcomes DEF Outcome
      <3> QED BY <3>1, <3>2
    <2> QED BY <2>2, <2>3
  <1> HIDE DEF I
  <1>10. n \in I BY <1>1, <1>8, <1>9, SetInduction
  <1>11. Parted(L(n), M(n), Len(p)) /\ (L(n).ok => L(n).length >= len) BY <1>10 DEF I
  <1>12. CASE len <= Len(p)
    BY <1>4, <1>5, <1>11, <1>12 DEF q
  <1>13. CASE ~(len <= Len(p))
    <2>1. Outcome(L(n)) BY <1>11 DEF Parted
    <2>2. L(n).ok => L(n).length \in Nat BY <2>1, Outcomes DEF Outcome
    <2>3. ~(L(n).ok /\ L(n).length <= Len(p)) BY <1>2, <1>11, <1>13, <2>2
    <2> QED BY <1>4, <2>1, <2>3 DEF Parted, Stays
  <1> QED BY <1>12, <1>13

-------------------------------------------------------------------------------
LEMMA EveryFieldReads ==
    ASSUME NEW d, Reads(d), NEW field, IsField(field)
    PROVE  FieldReads(d, field)
  <1> SUFFICES ASSUME NEW p \in Seq(Elements), NEW t \in Seq(Elements)
               PROVE  Parted(DecodeField(d, field, p), DecodeField(d, field, p \o t), Len(p))
    BY DEF FieldReads
  <1>1. field.kind \in Kinds /\ field.len \in Nat /\ (field.kind \in {"array", "object"} => field.target \in Classes)
    BY DEF IsField
  <1>2. CASE field.kind = "fixed"
    <2>1. \A b : DecodeField(d, field, b) = Taken(b, 0, field.len)
      BY <1>2 DEF DecodeField, DecodeFixed
    <2>2. /\ Stays(Taken(p, 0, field.len), Taken(p \o t, 0, field.len), Len(p))
          /\ Taken(p, 0, field.len) = Failed
             \/ \E v \in Seq(Elements) : Len(v) = field.len /\ Taken(p, 0, field.len) = Decoded(v, 0 + field.len)
      BY <1>1, TakenStays
    <2>3. 0 + field.len \in Nat BY <1>1
    <2> QED BY ONLY <2>1, <2>2, <2>3 DEF Parted, Outcome
  <1>3. CASE field.kind = "bigint"
    <2>1. \A b : DecodeField(d, field, b) = DecodeBigInt(b) BY <1>3 DEF DecodeField
    <2>2. /\ Stays(DecodeBigInt(p), DecodeBigInt(p \o t), Len(p))
          /\ DecodeBigInt(p) = Failed \/ \E n \in Numbers, len \in Nat : DecodeBigInt(p) = Decoded(n, len)
      BY BigIntStays
    <2> QED BY ONLY <2>1, <2>2 DEF Parted, Outcome
  <1>4. CASE field.kind = "array"
    <2>1. \A b : DecodeField(d, field, b) = DecodeArray(d, b, field.len, field.target)
      BY <1>4 DEF DecodeField
    <2>2. Parted(DecodeArray(d, p, field.len, field.target), DecodeArray(d, p \o t, field.len, field.target), Len(p))
      BY <1>1, <1>4, ListReads
    <2> QED BY ONLY <2>1, <2>2
  <1>5. CASE field.kind = "object"
    <2> DEFINE q == p \o t
    <2>1. /\ DecodeField(d, field, p) = d[<<field.target, p>>]
          /\ DecodeField(d, field, q) = d[<<field.target, q>>]
      <3> HIDE DEF q
      <3> QED BY <1>5 DEF DecodeField
    <2>2. Parted(d[<<field.target, p>>], d[<<field.target, p \o t>>], Len(p))
      BY <1>1, <1>5 DEF Reads
    <2> HIDE DEF q
    <2> QED BY ONLY <2>1, <2>2 DEF q
  <1>6. CASE field.kind = "custom"
    <2>1. \A b : DecodeField(d, field, b) = DecodeCustom(b) BY <1>6 DEF DecodeField
    <2>2. /\ Stays(DecodeCustom(p), DecodeCustom(p \o t), Len(p))
          /\ DecodeCustom(p) = Failed \/ \E v \in Seq(Elements), len \in Nat : DecodeCustom(p) = Decoded(v, len)
      BY CustomStays
    <2> QED BY ONLY <2>1, <2>2 DEF Parted, Outcome
  <1> QED BY <1>1, <1>2, <1>3, <1>4, <1>5, <1>6 DEF Kinds

LEMMA NextFieldReads ==
    ASSUME NEW d, NEW field, FieldReads(d, field), NEW p \in Seq(Elements), NEW t \in Seq(Elements),
           NEW r, NEW m, Parted(r, m, Len(p))
    PROVE  Parted(NextField(d, field, p, r), NextField(d, field, p \o t, m), Len(p))
  <1> DEFINE next == NextField(d, field, p, r)
             more == NextField(d, field, p \o t, m)
  <1>1. CASE r = Failed
    <2>1. next = Failed BY <1>1, Outcomes, Zenon DEF NextField
    <2> QED BY <2>1, Outcomes DEF Parted, Stays, Outcome
  <1>2. CASE r # Failed
    <2>1. PICK v, l : l \in Nat /\ r = Decoded(v, l) BY <1>2 DEF Parted, Outcome
    <2>2. r.ok /\ r.length = l BY <2>1, Outcomes
    <2> DEFINE value == DecodeField(d, field, From(p, l))
    <2>3. From(p, l) \in Seq(Elements) BY <2>1, FromTyped
    <2>4. Outcome(value)
      <3>1. << >> \in Seq(Elements) OBVIOUS
      <3> QED BY <2>3, <3>1 DEF FieldReads, Parted
    <2>5. CASE value = Failed
      <3>1. next = Failed
        <4>1. next = WithField(r, field.key, value) BY <2>1, <2>2, Zenon DEF NextField
        <4>2. ~Failed.ok BY Outcomes
        <4> HIDE DEF next, value
        <4> QED BY ONLY <4>1, <4>2, <2>5, Zenon DEF WithField
      <3> QED BY <3>1, Outcomes DEF Parted, Stays, Outcome
    <2>6. CASE value # Failed
      <3>1. PICK w, k : k \in Nat /\ value = Decoded(w, k) BY <2>4, <2>6 DEF Outcome
      <3> DEFINE data == [v EXCEPT ![field.key] = w]
      <3>2. next = Decoded(data, l + k) BY ONLY <3>1, <2>1, NextFieldIs DEF value
      <3> HIDE DEF data
      <3>3. next.length = l + k /\ Outcome(next)
        <4>1. l + k \in Nat BY <2>1, <3>1
        <4> QED BY <3>2, <4>1, Outcomes DEF Outcome
      <3>4. ASSUME l + k <= Len(p) PROVE more = next
        <4>1. /\ From(p \o t, l) = From(p, l) \o t /\ k <= Len(From(p, l))
          BY <2>1, <3>1, <3>4, BehindStays
        <4>2. l <= Len(p) BY <2>1, <3>1, <3>4
        <4>3. m = r BY <2>2, <4>2 DEF Parted, Stays
        <4>4. value.ok /\ value.length = k BY <3>1, Outcomes
        <4>5. DecodeField(d, field, From(p, l) \o t) = value
          BY <2>3, <4>1, <4>4 DEF FieldReads, Parted, Stays
        <4>6. DecodeField(d, field, From(p \o t, l)) = Decoded(w, k)
          BY ONLY <3>1, <4>1, <4>5
        <4>7. NextField(d, field, p \o t, Decoded(v, l)) = Decoded(data, l + k)
          BY ONLY <4>6, NextFieldIs DEF data
        <4> QED BY ONLY <2>1, <3>2, <4>3, <4>7
      <3>5. Stays(next, more, Len(p)) BY ONLY <3>3, <3>4 DEF Stays
      <3>6. Parted(next, more, Len(p)) BY ONLY <3>3, <3>5 DEF Parted
      <3> QED BY ONLY <3>6
    <2> QED BY <2>5, <2>6
  <1> QED BY <1>1, <1>2

LEMMA FieldsReads ==
    ASSUME NEW d, Reads(d), NEW class \in Classes, NEW p \in Seq(Elements), NEW t \in Seq(Elements)
    PROVE  Parted(DecodeFields(d, class, p), DecodeFields(d, class, p \o t), Len(p))
  <1> DEFINE n    == Len(Settings(class))
             q    == p \o t
             field(i) == Settings(class)[i]
             L(i) == Loop(FieldsOf(d, class, p), Decoded(Blank(class), 0), i)
             M(i) == Loop(FieldsOf(d, class, q), Decoded(Blank(class), 0), i)
  <1>1. n \in Nat /\ \A i \in 1..n : FieldReads(d, field(i))
    BY FieldsOfSettings, EveryFieldReads
  <1>2. DecodeFields(d, class, p) = L(n) /\ DecodeFields(d, class, q) = M(n)
    BY <1>1, FieldsLoop
  <1>3. /\ \A i \in Nat : L(i + 1) = NextField(d, field(i + 1), p, L(i)) /\ M(i + 1) = NextField(d, field(i + 1), q, M(i))
        /\ L(0) = Decoded(Blank(class), 0) /\ M(0) = Decoded(Blank(class), 0)
    <2>1. \A b, i, r : Step(FieldsOf(d, class, b), i, r) = NextField(d, field(i), b, r)
      BY DEF Step, FieldsOf
    <2> HIDE DEF q, field
    <2> QED BY <2>1, LoopSteps
  <1>4. \A i \in 1..n : \A r, m : Parted(r, m, Len(p)) =>
            Parted(NextField(d, field(i), p, r), NextField(d, field(i), q, m), Len(p))
    <2> HIDE DEF n, field
    <2> QED BY <1>1, NextFieldReads
  <1> HIDE DEF n, q, L, M, field
  <1> DEFINE I == {i \in Nat : i <= n => Parted(L(i), M(i), Len(p))}
  <1>5. 0 \in I BY <1>3, Outcomes DEF Parted, Stays, Outcome
  <1>6. ASSUME NEW i \in Nat, i \in I PROVE i + 1 \in I
    <2> SUFFICES ASSUME i + 1 <= n PROVE Parted(L(i + 1), M(i + 1), Len(p)) OBVIOUS
    <2>1. i + 1 \in 1..n /\ i <= n BY <1>1
    <2>2. Parted(L(i), M(i), Len(p)) BY <1>6, <2>1
    <2> QED BY ONLY <1>3, <1>4, <2>1, <2>2, i \in Nat
  <1> HIDE DEF I
  <1>7. n \in I BY <1>1, <1>5, <1>6, SetInduction
  <1> QED BY <1>1, <1>2, <1>7 DEF I, q

LEMMA FromDictIs ==
    ASSUME NEW class, NEW data
    PROVE  FromDict(class, data) = Failed \/ \E v : FromDict(class, data) = Decoded(v, 0)
  <1>1. \E v : BlockFromDict(data) = Decoded(v, 0) BY DEF BlockFromDict
  <1>2. \E v : TransactionFromDict(data) = Decoded(v, 0) BY DEF TransactionFromDict
  <1>3. \/ FromDict(class, data) = Failed \/ FromDict(class, data) = BlockFromDict(data)
        \/ FromDict(class, data) = TransactionFromDict(data) \/ FromDict(class, data) = Decoded(data, 0)
    BY DEF FromDict
  <1> QED BY ONLY <1>1, <1>2, <1>3

LEMMA DecoderReads ==
    ASSUME NEW d, Reads(d)
    PROVE  Reads(Decoder(d))
  <1> SUFFICES ASSUME NEW class \in Classes, NEW p \in Seq(Elements), NEW t \in Seq(Elements)
               PROVE  Parted(Decoder(d)[<<class, p>>], Decoder(d)[<<class, p \o t>>], Len(p))
    BY DEF Reads
  <1> DEFINE fields == DecodeFields(d, class, p)
             more == DecodeFields(d, class, p \o t)
             r == FromFields(class, fields)
  <1>1. p \o t \in Seq(Elements) BY ConcatProperties
  <1>2. Decoder(d)[<<class, p>>] = r /\ Decoder(d)[<<class, p \o t>>] = FromFields(class, more)
    BY <1>1, DecoderIs
  <1>3. Parted(fields, more, Len(p)) BY FieldsReads
  <1> HIDE DEF fields, more
  <1>4. CASE fields = Failed
    <2>1. r = Failed BY <1>4, Outcomes, Zenon DEF FromFields
    <2> QED BY <1>2, <2>1, Outcomes DEF Parted, Stays, Outcome
  <1>5. CASE fields # Failed
    <2>1. PICK v, l : l \in Nat /\ fields = Decoded(v, l)
      BY <1>3, <1>5 DEF Parted, Outcome
    <2>2. fields.ok /\ fields.data = v /\ fields.length = l BY <2>1, Outcomes
    <2>3. r = Completed(FromDict(class, v), l) BY <2>2, Zenon DEF FromFields
    <2>4. r = Failed \/ \E w : r = Decoded(w, l)
      <3>1. CASE FromDict(class, v) = Failed
        BY ONLY <2>3, <3>1, Outcomes, Zenon DEF Completed
      <3>2. CASE \E w : FromDict(class, v) = Decoded(w, 0)
        <4>1. PICK w : FromDict(class, v) = Decoded(w, 0) BY <3>2
        <4>2. r = Decoded(w, l)
          <5>1. Decoded(w, 0).ok /\ Decoded(w, 0).data = w BY Outcomes
          <5> QED BY ONLY <2>3, <4>1, <5>1, Zenon DEF Completed
        <4> QED BY <4>2
      <3> QED BY <3>1, <3>2, FromDictIs
    <2>5. l <= Len(p) => more = fields BY <1>3, <2>2 DEF Parted, Stays
    <2>6. r.ok => r.length = l BY <2>4, Outcomes
    <2>7. Outcome(r) BY <2>1, <2>4 DEF Outcome
    <2>8. Stays(r, FromFields(class, more), Len(p)) BY <2>5, <2>6 DEF Stays
    <2> QED BY ONLY <1>2, <2>7, <2>8 DEF Parted
  <1> QED BY <1>4, <1>5

LEMMA NoDecoderReads == Reads(NoDecoder)
  <1>1. ASSUME NEW class \in Classes, NEW p \in Seq(Elements) PROVE NoDecoder[<<class, p>>] = Failed
    BY DEF NoDecoder
  <1>2. \A p, t \in Seq(Elements) : p \o t \in Seq(Elements) BY ConcatProperties
  <1> QED BY <1>1, <1>2, Outcomes DEF Reads, Parted, Stays, Outcome

\* The decoder of any class reads of the first bytes what it reads of all.
LEMMA DecodersRead == Reads(DecodeInner) /\ Reads(Decoder(DecodeInner))
  BY NoDecoderReads, DecoderReads DEF DecodeInner

-------------------------------------------------------------------------------
(***************************************************************************)
(* What is written of every kind of field, and of an object, is read back. *)
(***************************************************************************)

LEMMA FixedFieldBack ==
    ASSUME NEW d, NEW k, NEW field, field.kind = "fixed", NEW v \in Seq(Elements), Len(v) = field.len
    PROVE  FieldBack(d, field, EncField(k, field, v), v)
  <1>1. EncField(k, field, v) = v BY DEF EncField
  <1>2. \A b : DecodeField(d, field, b) = DecodeFixed(b, Len(v)) BY DEF DecodeField
  <1>3. \A t \in Seq(Elements) : DecodeFixed(v \o t, Len(v)) = Decoded(v, Len(v))
    BY FixedBack
  <1> QED BY ONLY <1>1, <1>2, <1>3, v \in Seq(Elements) DEF FieldBack

LEMMA BigIntFieldBack ==
    ASSUME NEW d, NEW k, NEW field, field.kind = "bigint", NEW n \in Numbers
    PROVE  FieldBack(d, field, EncField(k, field, n), n)
  <1>1. EncField(k, field, n) = EncodeBigInt(n) BY DEF EncField
  <1>2. \A b : DecodeField(d, field, b) = DecodeBigInt(b) BY DEF DecodeField
  <1>3. \A t \in Seq(Elements) : DecodeBigInt(EncodeBigInt(n) \o t) = Decoded(n, Len(EncodeBigInt(n)))
    BY BigIntBack
  <1>4. EncodeBigInt(n) \in Seq(Elements)
    <2>1. << >> \in Seq(Elements) OBVIOUS
    <2>2. EncodeBigInt(n) \in Seq(Digit) BY <2>1, BigIntBack
    <2> QED BY <2>2, ElementFacts, SeqMonotonic
  <1> QED BY ONLY <1>1, <1>2, <1>3, <1>4 DEF FieldBack

LEMMA CustomFieldBack ==
    ASSUME NEW d, NEW k, NEW field, field.kind = "custom", NEW v \in Seq(Elements)
    PROVE  FieldBack(d, field, EncField(k, field, v), v)
  <1>1. EncField(k, field, v) = EncodeCustom(v) BY DEF EncField
  <1>2. \A b : DecodeField(d, field, b) = DecodeCustom(b) BY DEF DecodeField
  <1>3. \A t \in Seq(Elements) : DecodeCustom(EncodeCustom(v) \o t) = Decoded(v, Len(EncodeCustom(v)))
    BY CustomBack
  <1>4. EncodeCustom(v) \in Seq(Elements)
    <2>1. << >> \in Seq(Elements) OBVIOUS
    <2> QED BY <2>1, CustomBack
  <1> QED BY ONLY <1>1, <1>2, <1>3, <1>4 DEF FieldBack

LEMMA ObjectFieldBack ==
    ASSUME NEW d, NEW k, NEW field, field.kind = "object", NEW v, Back(d, field.target, Enc(k, field.target, v), v)
    PROVE  FieldBack(d, field, EncField(k, field, v), v)
  <1>1. EncField(k, field, v) = Enc(k, field.target, v) BY DEF EncField
  <1>2. \A b : DecodeField(d, field, b) = d[<<field.target, b>>] BY DEF DecodeField
  <1> DEFINE e == Enc(k, field.target, v)
  <1>3. e \in Seq(Elements) /\ \A t \in Seq(Elements) : d[<<field.target, e \o t>>] = Decoded(v, Len(e))
    BY DEF Back
  <1> HIDE DEF e
  <1>4. FieldBack(d, field, e, v) BY <1>2, <1>3 DEF FieldBack
  <1> QED BY ONLY <1>1, <1>4 DEF e

LEMMA CodesOf ==
    ASSUME NEW S, NEW list \in Seq(S), NEW k, NEW class,
           \A i \in 1..Len(list) : Enc(k, class, list[i]) \in Seq(Elements)
    PROVE  /\ [i \in DOMAIN list |-> Enc(k, class, list[i])] \in Seq(Seq(Elements))
           /\ Len([i \in DOMAIN list |-> Enc(k, class, list[i])]) = Len(list)
  <1> DEFINE Q == Seq(Elements)
             e(i) == Enc(k, class, list[i])
             n == Len(list)
  <1>1. DOMAIN list = 1..n /\ n \in Nat /\ \A i \in 1..n : e(i) \in Q OBVIOUS
  <1> HIDE DEF Q, e, n
  <1>2. [i \in 1..n |-> e(i)] \in Seq(Q) /\ Len([i \in 1..n |-> e(i)]) = n BY <1>1
  <1> QED BY <1>1, <1>2 DEF Q, e, n

LEMMA ListFieldBack ==
    ASSUME NEW d, NEW k, NEW field, field.kind = "array", field.len \in Nat, NEW S, NEW v \in Seq(S),
           Cut(Len(v), Base, field.len) = 0,
           \A i \in 1..Len(v) : Back(d, field.target, Enc(k, field.target, v[i]), v[i])
    PROVE  FieldBack(d, field, EncField(k, field, v), v)
  <1> DEFINE codes == [i \in DOMAIN v |-> Enc(k, field.target, v[i])]
             e == Digits(Len(v), field.len) \o FlattenSeq(codes)
  <1>1. EncField(k, field, v) = e BY DEF EncField
  <1>2. \A b : DecodeField(d, field, b) = DecodeArray(d, b, field.len, field.target)
    BY DEF DecodeField
  <1>3. codes \in Seq(Seq(Elements)) /\ Len(codes) = Len(v)
    <2>1. \A i \in 1..Len(v) : Enc(k, field.target, v[i]) \in Seq(Elements) BY DEF Back
    <2> QED BY ONLY <2>1, v \in Seq(S), CodesOf
  <1>4. \A i \in 1..Len(v) : Back(d, field.target, codes[i], v[i]) OBVIOUS
  <1> HIDE DEF codes
  <1>5. \A t \in Seq(Elements) : e \in Seq(Elements) /\ DecodeArray(d, e \o t, field.len, field.target) = Decoded(v, Len(e))
    <2> DEFINE len == field.len
               target == field.target
    <2>1. len \in Nat /\ Cut(Len(v), Base, len) = 0 /\ \A i \in 1..Len(v) : Back(d, target, codes[i], v[i])
      BY <1>4
    <2> HIDE DEF len, target
    <2>2. ItemsBack(d, target, codes, v) BY ONLY <1>3, <2>1 DEF ItemsBack
    <2>3. ASSUME NEW t \in Seq(Elements)
          PROVE  ArrayBack(d, target, Digits(Len(v), len) \o FlattenSeq(codes), v, len, t)
      BY ONLY <1>3, <2>1, <2>2, v \in Seq(S), t \in Seq(Elements), ListBack
    <2> QED BY ONLY <2>3 DEF len, target, ArrayBack
  <1>6. e \in Seq(Elements)
    <2>1. << >> \in Seq(Elements) OBVIOUS
    <2> QED BY ONLY <1>5, <2>1
  <1> HIDE DEF e
  <1> QED BY ONLY <1>1, <1>2, <1>5, <1>6 DEF FieldBack

-------------------------------------------------------------------------------
LEMMA EncodedBack ==
    ASSUME NEW d, NEW k \in 0..4, NEW class \in Classes, NEW object, FieldsAreBack(d, k, class, object)
    PROVE  /\ Enc(k + 1, class, object) \in Seq(Elements)
           /\ \A t \in Seq(Elements) : DecodeFields(d, class, Enc(k + 1, class, object) \o t)
                                           = Decoded(Written(class, object), Len(Enc(k + 1, class, object)))
  <1> DEFINE n == Len(Settings(class))
             codes == EncFields(k, class, object)
             Q == Seq(Elements)
             e(i) == EncField(k, Settings(class)[i], object[KeyOf(class, i)])
  <1>1. n \in Nat /\ DOMAIN Settings(class) = 1..n BY FieldsOfSettings
  <1>2. codes = [i \in 1..n |-> e(i)] BY <1>1 DEF EncFields, KeyOf
  <1>3. \A i \in 1..n : FieldBack(d, Settings(class)[i], e(i), object[KeyOf(class, i)]) /\ e(i) \in Q
    BY DEF FieldsAreBack, FieldBack
  <1>4. Enc(k + 1, class, object) = FlattenSeq(codes) BY EncIs
  <1> HIDE DEF codes, Q, n, e
  <1>5. codes \in Seq(Q) /\ Len(codes) = n /\ \A i \in 1..n : codes[i] = e(i)
    BY <1>1, <1>2, <1>3
  <1>6. \A i \in 1..Len(codes) : FieldBack(d, Settings(class)[i], codes[i], object[KeyOf(class, i)])
    BY <1>3, <1>5
  <1>7. \A t \in Seq(Elements) :
            /\ FlattenSeq(codes) \in Seq(Elements)
            /\ DecodeFields(d, class, FlattenSeq(codes) \o t)
                   = Decoded(FirstFields(class, object, Len(Settings(class))), Len(FlattenSeq(codes)))
    BY <1>5, <1>6, FieldsBack DEF Q, n
  <1>8. << >> \in Seq(Elements) OBVIOUS
  <1> QED BY ONLY <1>4, <1>7, <1>8 DEF Written

LEMMA PartBack ==
    ASSUME NEW d, NEW k \in 0..4, NEW class \in Classes, NEW object, FieldsAreBack(d, k, class, object),
           FromDict(class, Written(class, object)) = Decoded(object, 0)
    PROVE  Back(Decoder(d), class, Enc(k + 1, class, object), object)
  <1> DEFINE e == Enc(k + 1, class, object)
             w == Written(class, object)
  <1>1. e \in Seq(Elements) /\ \A t \in Seq(Elements) : DecodeFields(d, class, e \o t) = Decoded(w, Len(e))
    BY EncodedBack
  <1>2. FromDict(class, w) = Decoded(object, 0) OBVIOUS
  <1> HIDE DEF e, w
  <1>3. \A t \in Seq(Elements) : Decoder(d)[<<class, e \o t>>] = FromFields(class, Decoded(w, Len(e)))
    BY <1>1, DecoderIs, ConcatProperties
  <1>4. FromFields(class, Decoded(w, Len(e))) = Decoded(object, Len(e))
    <2>1. /\ Decoded(w, Len(e)).ok /\ Decoded(w, Len(e)).data = w /\ Decoded(w, Len(e)).length = Len(e)
          /\ Decoded(object, 0).ok /\ Decoded(object, 0).data = object
      BY Outcomes
    <2> QED BY ONLY <1>2, <2>1, Zenon DEF FromFields, Completed
  <1> QED BY ONLY <1>1, <1>3, <1>4 DEF Back, e

LEMMA CodeBack ==
    ASSUME NEW class \in Classes, NEW object, FieldsAreBack(DecodeInner, 4, class, object)
    PROVE  LET code == EncodeObject(class, object, FALSE) IN
           /\ code \in Seq(Elements)
           /\ \A t \in Seq(Elements) : DecodeFields(DecodeInner, class, code \o t) = Decoded(Written(class, object), Len(code))
           /\ DecodeFields(DecodeInner, class, code) = Decoded(Written(class, object), Len(code))
  <1> DEFINE e == EncodeObject(class, object, FALSE)
             w == Written(class, object)
  <1>1. e \in Seq(Elements) /\ \A t \in Seq(Elements) : DecodeFields(DecodeInner, class, e \o t) = Decoded(w, Len(e))
    <2>1. 4 \in 0..4 /\ 4 + 1 = 5 /\ e = Enc(5, class, object)
      <3>1. e = Enc(5, class, object) BY EncIs
      <3> HIDE DEF e
      <3> QED BY <3>1
    <2> HIDE DEF e
    <2> QED BY <2>1, EncodedBack
  <1> HIDE DEF e, w
  <1>2. << >> \in Seq(Elements) /\ e \o << >> = e /\ Len(e) \in Nat BY <1>1, Concats
  <1>3. DecodeFields(DecodeInner, class, e) = Decoded(w, Len(e)) BY <1>1, <1>2
  <1> QED BY ONLY <1>1, <1>3 DEF e, w

LEMMA WholeBack ==
    ASSUME NEW class \in Classes, NEW object, FieldsAreBack(DecodeInner, 4, class, object)
    PROVE  /\ EncodeObject(class, object, FALSE) \in Seq(Elements)
           /\ DecodeWhole(class, EncodeObject(class, object, FALSE)) = FromDict(class, Written(class, object))
           /\ \A n \in 0..(Len(EncodeObject(class, object, FALSE)) - 1) :
                  DecodeWhole(class, SubSeq(EncodeObject(class, object, FALSE), 1, n)) = Failed
  <1> DEFINE e == EncodeObject(class, object, FALSE)
             w == Written(class, object)
  <1>1. e \in Seq(Elements) /\ \A t \in Seq(Elements) : DecodeFields(DecodeInner, class, e \o t) = Decoded(w, Len(e))
    BY CodeBack
  <1>2. Len(e) \in Nat
    <2> HIDE DEF e
    <2> QED BY <1>1
  <1>3. DecodeFields(DecodeInner, class, e) = Decoded(w, Len(e)) BY CodeBack
  <1> HIDE DEF e, w
  <1>4. DecodeWhole(class, e) = FromDict(class, w)
    <2>1. Decoded(w, Len(e)).ok /\ Decoded(w, Len(e)).data = w /\ Exact(Decoded(w, Len(e)).length, e)
      BY Outcomes DEF Exact
    <2> QED BY ONLY <1>3, <2>1, Zenon DEF DecodeWhole, WholeOf
  <1>5. ASSUME NEW n \in 0..(Len(e) - 1) PROVE DecodeWhole(class, SubSeq(e, 1, n)) = Failed
    <2> DEFINE p == SubSeq(e, 1, n)
               t == From(e, n)
               part == DecodeFields(DecodeInner, class, p)
    <2>1. p \in Seq(Elements) /\ t \in Seq(Elements) /\ p \o t = e /\ Len(p) = n
      BY <1>1, <1>2, ConcatAdjacentSubSeq DEF From
    <2> HIDE DEF p, t
    <2>2. Parted(part, DecodeFields(DecodeInner, class, p \o t), Len(p))
      BY <2>1, DecodersRead, FieldsReads
    <2>3. ~(part.ok /\ Exact(part.length, p))
      <3> SUFFICES ASSUME part.ok, part.length = Len(p) PROVE FALSE BY DEF Exact
      <3>1. Len(p) <= Len(p) /\ n # Len(e) BY <1>2, <2>1
      <3>2. Decoded(w, Len(e)) = part BY <1>3, <2>1, <2>2, <3>1 DEF Parted, Stays
      <3>3. part.length = Len(e) BY ONLY <3>2, Outcomes
      <3> QED BY <2>1, <3>1, <3>3
    <2>4. DecodeWhole(class, p) = Failed BY ONLY <2>3, Zenon DEF DecodeWhole, WholeOf
    <2> QED BY <2>4 DEF p
  <1> QED BY <1>1, <1>4, <1>5 DEF e, w

-------------------------------------------------------------------------------
(***************************************************************************)
(* The object that is read before fromDict has all but what fromDict       *)
(* finds out.                                                              *)
(***************************************************************************)

LEMMA KeysOfBlank ==
    /\ \A class \in Classes \ {"Block", "Transaction"} :
          DOMAIN Blank(class) = {KeyOf(class, i) : i \in 1..Len(Settings(class))}
    /\ DOMAIN Blank("Block") = {KeyOf("Block", i) : i \in 1..Len(Settings("Block"))} \cup {"minter"}
    /\ DOMAIN Blank("Transaction") = {KeyOf("Transaction", i) : i \in 1..Len(Settings("Transaction"))} \cup {"senderAddress"}
  <1>1. \A class \in Classes : DOMAIN Settings(class) = 1..Len(Settings(class))
    BY FieldsOfSettings
  <1>2. {"Block", "Transaction"} \subseteq Classes BY DEF Classes
  <1> QED BY <1>1, <1>2 DEF Blank, KeyOf

LEMMA KeysOfFields ==
    /\ \A key, len : BE(key, len).key = key /\ Unhashed(key, len).key = key
    /\ \A key : BigInt(key).key = key /\ Custom(key).key = key
    /\ \A key, target : ListOf(key, target).key = key /\ Object(key, target).key = key
    /\ \A key, len : BE(key, len).kind = "fixed" /\ Unhashed(key, len).kind = "fixed"
    /\ \A key, len : BE(key, len).len = len /\ Unhashed(key, len).len = len
    /\ \A key : BigInt(key).kind = "bigint" /\ Custom(key).kind = "custom"
    /\ \A key, target : ListOf(key, target).kind = "array" /\ Object(key, target).kind = "object"
    /\ \A key, target : ListOf(key, target).target = target /\ Object(key, target).target = target
    /\ \A key, target : ListOf(key, target).len = PrefixLength
  BY DEF BE, Unhashed, BigInt, Custom, ListOf, Object, Field

LEMMA BlockFieldsAre ==
    /\ Len(Settings("Block")) = 8
    /\ Settings("Block")[1] = BE("version", 1) /\ Settings("Block")[2] = BigInt("index")
    /\ Settings("Block")[3] = BigInt("slotIndex") /\ Settings("Block")[4] = Unhashed("hash", 1)
    /\ Settings("Block")[5] = BE("previousHash", 1) /\ Settings("Block")[6] = BigInt("timestamp")
    /\ Settings("Block")[7] = Unhashed("signature", 1) /\ Settings("Block")[8] = Object("body", "BlockBody")
  BY SettingsAre DEF BlockSettings

LEMMA TransactionFieldsAre ==
    /\ Len(Settings("Transaction")) = 8
    /\ Settings("Transaction")[1] = BE("version", 1) /\ Settings("Transaction")[2] = Unhashed("txid", 1)
    /\ Settings("Transaction")[3] = BE("recipientAddress", 1) /\ Settings("Transaction")[4] = BigInt("amount")
    /\ Settings("Transaction")[5] = BigInt("nonce") /\ Settings("Transaction")[6] = BigInt("timestamp")
    /\ Settings("Transaction")[7] = Custom("input") /\ Settings("Transaction")[8] = Unhashed("signature", 1)
  BY SettingsAre DEF TransactionSettings

LEMMA WrittenKeys ==
    /\ {KeyOf("Block", i) : i \in 1..8} = BlockKeys
    /\ {KeyOf("Transaction", i) : i \in 1..8} = TransactionKeys
  <1>1. 1..8 = {1, 2, 3, 4, 5, 6, 7, 8} OBVIOUS
  <1>2. /\ KeyOf("Block", 1) = "version" /\ KeyOf("Block", 2) = "index" /\ KeyOf("Block", 3) = "slotIndex"
        /\ KeyOf("Block", 4) = "hash" /\ KeyOf("Block", 5) = "previousHash" /\ KeyOf("Block", 6) = "timestamp"
        /\ KeyOf("Block", 7) = "signature" /\ KeyOf("Block", 8) = "body"
    BY KeysOfFields, BlockFieldsAre DEF KeyOf
  <1>3. /\ KeyOf("Transaction", 1) = "version" /\ KeyOf("Transaction", 2) = "txid"
        /\ KeyOf("Transaction", 3) = "recipientAddress" /\ KeyOf("Transaction", 4) = "amount"
        /\ KeyOf("Transaction", 5) = "nonce" /\ KeyOf("Transaction", 6) = "timestamp"
        /\ KeyOf("Transaction", 7) = "input" /\ KeyOf("Transaction", 8) = "signature"
    BY KeysOfFields, TransactionFieldsAre DEF KeyOf
  <1>4. {KeyOf("Block", i) : i \in 1..8} = BlockKeys BY ONLY <1>1, <1>2 DEF BlockKeys
  <1>5. {KeyOf("Transaction", i) : i \in 1..8} = TransactionKeys
    BY ONLY <1>1, <1>3 DEF TransactionKeys
  <1> QED BY ONLY <1>4, <1>5

\* Whatever is written is read.
LEMMA WrittenIs ==
    ASSUME NEW class \in Classes \ {"Block", "Transaction"}, NEW object, object = [key \in DOMAIN Blank(class) |-> object[key]]
    PROVE  Written(class, object) = object
  <1> DEFINE K == DOMAIN Blank(class)
             n == Len(Settings(class))
  <1>1. \A key \in K : \E j \in 1..n : KeyOf(class, j) = key
    <2>1. K = {KeyOf(class, i) : i \in 1..n} BY KeysOfBlank
    <2> HIDE DEF K
    <2> QED BY ONLY <2>1
  <1>2. Written(class, object) = [key \in K |-> IF \E j \in 1..n : KeyOf(class, j) = key THEN object[key] ELSE << >>]
    BY DEF Written, FirstFields
  <1>3. object = [key \in K |-> object[key]] OBVIOUS
  <1> HIDE DEF K, n
  <1> QED BY ONLY <1>1, <1>2, <1>3

LEMMA WrittenBlock ==
    ASSUME NEW object
    PROVE  /\ DOMAIN Blank("Block") = BlockKeys \cup {"minter"}
           /\ Written("Block", object)
                  = [key \in BlockKeys \cup {"minter"} |-> IF key = "minter" THEN << >> ELSE object[key]]
  <1> DEFINE K == DOMAIN Blank("Block")
             P(key) == \E j \in 1..8 : KeyOf("Block", j) = key
  <1>1. K = BlockKeys \cup {"minter"} /\ \A key : P(key) <=> key \in BlockKeys
    <2>1. {KeyOf("Block", i) : i \in 1..8} = BlockKeys BY WrittenKeys
    <2>2. K = {KeyOf("Block", i) : i \in 1..8} \cup {"minter"}
      BY KeysOfBlank, BlockFieldsAre
    <2> HIDE DEF K
    <2> QED BY ONLY <2>1, <2>2
  <1>2. Written("Block", object) = [key \in K |-> IF P(key) THEN object[key] ELSE << >>]
    BY BlockFieldsAre DEF Written, FirstFields
  <1>3. \A key \in BlockKeys \cup {"minter"} : key \in BlockKeys <=> key # "minter"
    BY DEF BlockKeys
  <1> HIDE DEF K, P
  <1> QED BY ONLY <1>1, <1>2, <1>3 DEF K

LEMMA WrittenTransaction ==
    ASSUME NEW object
    PROVE  /\ DOMAIN Blank("Transaction") = TransactionKeys \cup {"senderAddress"}
           /\ Written("Transaction", object)
                  = [key \in TransactionKeys \cup {"senderAddress"} |-> IF key = "senderAddress" THEN << >> ELSE object[key]]
  <1> DEFINE K == DOMAIN Blank("Transaction")
             P(key) == \E j \in 1..8 : KeyOf("Transaction", j) = key
  <1>1. K = TransactionKeys \cup {"senderAddress"} /\ \A key : P(key) <=> key \in TransactionKeys
    <2>1. {KeyOf("Transaction", i) : i \in 1..8} = TransactionKeys BY WrittenKeys
    <2>2. K = {KeyOf("Transaction", i) : i \in 1..8} \cup {"senderAddress"}
      BY KeysOfBlank, TransactionFieldsAre
    <2> HIDE DEF K
    <2> QED BY ONLY <2>1, <2>2
  <1>2. Written("Transaction", object) = [key \in K |-> IF P(key) THEN object[key] ELSE << >>]
    BY TransactionFieldsAre DEF Written, FirstFields
  <1>3. \A key \in TransactionKeys \cup {"senderAddress"} : key \in TransactionKeys <=> key # "senderAddress"
    BY DEF TransactionKeys
  <1> HIDE DEF K, P
  <1> QED BY ONLY <1>1, <1>2, <1>3 DEF K

-------------------------------------------------------------------------------
(***************************************************************************)
(* Transactions and blocks as they are read.                               *)
(***************************************************************************)

LEMMA ReadTransaction ==
    ASSUME NEW o \in ReadTransactions
    PROVE  /\ Written("Transaction", o) \in TransactionData
           /\ FromDict("Transaction", Written("Transaction", o)) = Decoded(o, 0)
           /\ {o.txid, o.recipientAddress, o.signature} \subseteq Words(1) /\ o.version = Digits(0, 1)
           /\ {o.amount, o.nonce, o.timestamp} \subseteq Numbers /\ o.input \in Seq(Elements)
  <1>1. PICK data \in TransactionData : o = TransactionFromDict(data).data
    BY DEF ReadTransactions
  <1> DEFINE sender == FromSignature(data.txid[1], data.signature[1])
             K == TransactionKeys \cup {"senderAddress"}
  <1>2. TransactionFromDict(data) = Decoded([data EXCEPT !.senderAddress = sender], 0)
    BY DEF TransactionFromDict
  <1>3. o = [data EXCEPT !.senderAddress = sender] BY <1>1, <1>2, Outcomes
  <1> HIDE DEF sender
  <1>4. Written("Transaction", o) = [key \in K |-> IF key = "senderAddress" THEN << >> ELSE o[key]]
    BY WrittenTransaction
  <1>5. Written("Transaction", o) = data
    BY <1>3, <1>4 DEF TransactionKeys, TransactionData
  <1>6. TransactionFromDict(data) = Decoded(o, 0) BY <1>2, <1>3
  <1>7. FromDict("Transaction", data) = TransactionFromDict(data)
    <2>1. data.version = Digits(0, 1) BY DEF TransactionData
    <2> QED BY <2>1 DEF FromDict
  <1>8. /\ {o.txid, o.recipientAddress, o.signature} \subseteq Words(1) /\ o.version = Digits(0, 1)
        /\ {o.amount, o.nonce, o.timestamp} \subseteq Numbers /\ o.input \in Seq(Elements)
    BY <1>3 DEF TransactionData
  <1> QED BY <1>5, <1>6, <1>7, <1>8

LEMMA VersionWord == Digits(0, 1) \in Seq(Elements) /\ Len(Digits(0, 1)) = 1
  <1>1. Digits(0, 1) \in Seq(Digit) /\ Len(Digits(0, 1)) = 1 BY DigitsOf
  <1> QED BY <1>1, ElementFacts, SeqMonotonic

LEMMA TransactionBack ==
    ASSUME NEW d, NEW k \in 0..4, NEW o \in ReadTransactions
    PROVE  FieldsAreBack(d, k, "Transaction", o) /\ Back(Decoder(d), "Transaction", Enc(k + 1, "Transaction", o), o)
  <1>1. /\ {o.txid, o.recipientAddress, o.signature} \subseteq Words(1) /\ o.version = Digits(0, 1)
        /\ {o.amount, o.nonce, o.timestamp} \subseteq Numbers /\ o.input \in Seq(Elements)
        /\ FromDict("Transaction", Written("Transaction", o)) = Decoded(o, 0)
    BY ReadTransaction
  <1> DEFINE f(i) == Settings("Transaction")[i]
             B(i) == FieldBack(d, f(i), EncField(k, f(i), o[KeyOf("Transaction", i)]), o[KeyOf("Transaction", i)])
  <1>2. \A w \in Words(1) : w \in Seq(Elements) /\ Len(w) = 1 BY DEF Words
  <1>3. /\ f(1).kind = "fixed" /\ f(1).len = 1 /\ KeyOf("Transaction", 1) = "version"
        /\ f(2).kind = "fixed" /\ f(2).len = 1 /\ KeyOf("Transaction", 2) = "txid"
        /\ f(3).kind = "fixed" /\ f(3).len = 1 /\ KeyOf("Transaction", 3) = "recipientAddress"
        /\ f(4).kind = "bigint" /\ KeyOf("Transaction", 4) = "amount"
        /\ f(5).kind = "bigint" /\ KeyOf("Transaction", 5) = "nonce"
        /\ f(6).kind = "bigint" /\ KeyOf("Transaction", 6) = "timestamp"
        /\ f(7).kind = "custom" /\ KeyOf("Transaction", 7) = "input"
        /\ f(8).kind = "fixed" /\ f(8).len = 1 /\ KeyOf("Transaction", 8) = "signature"
    BY KeysOfFields, TransactionFieldsAre DEF KeyOf
  <1> HIDE DEF f
  <1>4. B(1) BY <1>1, <1>3, VersionWord, FixedFieldBack
  <1>5. B(2) /\ B(3) /\ B(8) BY <1>1, <1>2, <1>3, FixedFieldBack
  <1>6. B(4) /\ B(5) /\ B(6) BY <1>1, <1>3, BigIntFieldBack
  <1>7. B(7) BY <1>1, <1>3, CustomFieldBack
  <1> HIDE DEF B
  <1>8. \A i \in 1..8 : B(i)
    <2>1. 1..8 = {1, 2, 3, 4, 5, 6, 7, 8} OBVIOUS
    <2> QED BY ONLY <1>4, <1>5, <1>6, <1>7, <2>1
  <1>9. FieldsAreBack(d, k, "Transaction", o)
    BY <1>8, TransactionFieldsAre DEF FieldsAreBack, B, f
  <1>10. "Transaction" \in Classes BY DEF Classes
  <1> QED BY <1>1, <1>9, <1>10, PartBack

-------------------------------------------------------------------------------
LEMMA BodyBack ==
    ASSUME NEW d, NEW k \in 1..4, NEW body \in Bodies(ShortLists)
    PROVE  Back(Decoder(Decoder(d)), "BlockBody", Enc(k + 1, "BlockBody", body), body)
  <1> DEFINE f == Settings("BlockBody")[1]
             list == body.transactions
  <1>1. /\ Len(Settings("BlockBody")) = 1 /\ f.kind = "array" /\ f.len = PrefixLength /\ f.target = "Transaction"
        /\ KeyOf("BlockBody", 1) = "transactions"
    BY SettingsAre, KeysOfFields DEF BodySettings, KeyOf
  <1>2. "BlockBody" \in Classes \ {"Block", "Transaction"} /\ PrefixLength \in Nat
    BY EncodingAssumption DEF Classes
  <1>3. list \in Seq(ReadTransactions) /\ Cut(Len(list), Base, PrefixLength) = 0
    BY DEF Bodies, ShortLists, Lists
  <1>4. ASSUME NEW i \in 1..Len(list) PROVE Back(Decoder(d), "Transaction", Enc(k, "Transaction", list[i]), list[i])
    <2>1. list[i] \in ReadTransactions BY <1>3, ElementOfSeq
    <2>2. k - 1 \in 0..4 /\ (k - 1) + 1 = k OBVIOUS
    <2>3. Back(Decoder(d), "Transaction", Enc((k - 1) + 1, "Transaction", list[i]), list[i])
      BY ONLY <2>1, <2>2, TransactionBack
    <2> QED BY ONLY <2>2, <2>3
  <1> HIDE DEF f, list
  <1>5. FieldBack(Decoder(d), f, EncField(k, f, list), list)
    BY <1>1, <1>2, <1>3, <1>4, ListFieldBack
  <1>6. FieldsAreBack(Decoder(d), k, "BlockBody", body)
    <2>1. body[KeyOf("BlockBody", 1)] = list BY <1>1 DEF list
    <2>2. \A i \in 1..1 : i = 1 OBVIOUS
    <2> QED BY ONLY <1>1, <1>5, <2>1, <2>2 DEF FieldsAreBack, f
  <1>7. FromDict("BlockBody", Written("BlockBody", body)) = Decoded(body, 0)
    <2>1. DOMAIN Blank("BlockBody") = {"transactions"}
      <3>1. DOMAIN Blank("BlockBody") = {KeyOf("BlockBody", i) : i \in 1..1}
        BY <1>1, <1>2, KeysOfBlank
      <3> QED BY ONLY <1>1, <3>1
    <2>2. body = [key \in DOMAIN Blank("BlockBody") |-> body[key]] BY <2>1 DEF Bodies
    <2>3. Written("BlockBody", body) = body BY ONLY <1>2, <2>2, WrittenIs
    <2> QED BY <2>3 DEF FromDict, Versioned
  <1>8. k \in 0..4 OBVIOUS
  <1> QED BY ONLY <1>2, <1>6, <1>7, <1>8, PartBack

LEMMA ReadBlock ==
    ASSUME NEW L, NEW o \in ReadBlocks(L)
    PROVE  /\ Written("Block", o) \in BlockData(L)
           /\ o = [Written("Block", o) EXCEPT !.minter =
                       FromSignature(CalculateHash("Block", Written("Block", o)), o.signature[1])]
           /\ FromDict("Block", Written("Block", o)) = Decoded(o, 0)
           /\ {o.hash, o.previousHash, o.signature} \subseteq Words(1) /\ o.version = Digits(0, 1)
           /\ {o.index, o.slotIndex, o.timestamp} \subseteq Numbers /\ o.body \in Bodies(L)
  <1>1. PICK data \in BlockData(L) : o = BlockFromDict(data).data BY DEF ReadBlocks
  <1> DEFINE minter == FromSignature(CalculateHash("Block", data), data.signature[1])
             K == BlockKeys \cup {"minter"}
  <1>2. BlockFromDict(data) = Decoded([data EXCEPT !.minter = minter], 0)
    BY DEF BlockFromDict
  <1>3. o = [data EXCEPT !.minter = minter] BY <1>1, <1>2, Outcomes
  <1> HIDE DEF minter
  <1>4. Written("Block", o) = [key \in K |-> IF key = "minter" THEN << >> ELSE o[key]]
    BY WrittenBlock
  <1>5. Written("Block", o) = data /\ o.signature = data.signature
    BY <1>3, <1>4 DEF BlockKeys, BlockData
  <1>6. BlockFromDict(data) = Decoded(o, 0) BY <1>2, <1>3
  <1>7. FromDict("Block", data) = BlockFromDict(data)
    <2>1. data.version = Digits(0, 1) BY DEF BlockData
    <2> QED BY <2>1 DEF FromDict
  <1>8. /\ {o.hash, o.previousHash, o.signature} \subseteq Words(1) /\ o.version = Digits(0, 1)
        /\ {o.index, o.slotIndex, o.timestamp} \subseteq Numbers /\ o.body \in Bodies(L)
    BY <1>3 DEF BlockData
  <1> QED BY <1>3, <1>5, <1>6, <1>7, <1>8 DEF minter

LEMMA BlockBack ==
    ASSUME NEW d, NEW k \in 2..4, NEW o \in ReadBlocks(ShortLists)
    PROVE  /\ FieldsAreBack(Decoder(Decoder(d)), k, "Block", o)
           /\ Back(Decoder(Decoder(Decoder(d))), "Block", Enc(k + 1, "Block", o), o)
  <1>1. /\ {o.hash, o.previousHash, o.signature} \subseteq Words(1) /\ o.version = Digits(0, 1)
        /\ {o.index, o.slotIndex, o.timestamp} \subseteq Numbers /\ o.body \in Bodies(ShortLists)
        /\ FromDict("Block", Written("Block", o)) = Decoded(o, 0)
    BY ReadBlock
  <1> DEFINE dd == Decoder(Decoder(d))
             f(i) == Settings("Block")[i]
             B(i) == FieldBack(dd, f(i), EncField(k, f(i), o[KeyOf("Block", i)]), o[KeyOf("Block", i)])
  <1>2. \A w \in Words(1) : w \in Seq(Elements) /\ Len(w) = 1 BY DEF Words
  <1>3. /\ f(1).kind = "fixed" /\ f(1).len = 1 /\ KeyOf("Block", 1) = "version"
        /\ f(2).kind = "bigint" /\ KeyOf("Block", 2) = "index"
        /\ f(3).kind = "bigint" /\ KeyOf("Block", 3) = "slotIndex"
        /\ f(4).kind = "fixed" /\ f(4).len = 1 /\ KeyOf("Block", 4) = "hash"
        /\ f(5).kind = "fixed" /\ f(5).len = 1 /\ KeyOf("Block", 5) = "previousHash"
        /\ f(6).kind = "bigint" /\ KeyOf("Block", 6) = "timestamp"
        /\ f(7).kind = "fixed" /\ f(7).len = 1 /\ KeyOf("Block", 7) = "signature"
        /\ f(8).kind = "object" /\ f(8).target = "BlockBody" /\ KeyOf("Block", 8) = "body"
    BY KeysOfFields, BlockFieldsAre DEF KeyOf
  <1>4. Back(dd, "BlockBody", Enc(k, "BlockBody", o.body), o.body)
    <2>1. k - 1 \in 1..4 /\ (k - 1) + 1 = k OBVIOUS
    <2>2. Back(Decoder(Decoder(d)), "BlockBody", Enc((k - 1) + 1, "BlockBody", o.body), o.body)
      BY ONLY <1>1, <2>1, BodyBack
    <2> QED BY ONLY <2>1, <2>2
  <1> HIDE DEF f, dd
  <1>5. B(1) BY <1>1, <1>3, VersionWord, FixedFieldBack
  <1>6. B(4) /\ B(5) /\ B(7) BY <1>1, <1>2, <1>3, FixedFieldBack
  <1>7. B(2) /\ B(3) /\ B(6) BY <1>1, <1>3, BigIntFieldBack
  <1>8. B(8) BY <1>3, <1>4, ObjectFieldBack
  <1> HIDE DEF B
  <1>9. \A i \in 1..8 : B(i)
    <2>1. 1..8 = {1, 2, 3, 4, 5, 6, 7, 8} OBVIOUS
    <2> QED BY ONLY <1>5, <1>6, <1>7, <1>8, <2>1
  <1>10. FieldsAreBack(dd, k, "Block", o)
    BY <1>9, BlockFieldsAre DEF FieldsAreBack, B, f
  <1>11. "Block" \in Classes /\ k \in 0..4 BY DEF Classes
  <1>12. Back(Decoder(dd), "Block", Enc(k + 1, "Block", o), o)
    BY ONLY <1>1, <1>10, <1>11, PartBack
  <1> QED BY <1>10, <1>12 DEF dd

-------------------------------------------------------------------------------
(***************************************************************************)
(* The carriers of a block.                                                *)
(***************************************************************************)

LEMMA ForkBack ==
    ASSUME NEW d, NEW k \in 3..4, NEW fork \in ForkObjects
    PROVE  Back(Decoder(Decoder(Decoder(Decoder(d)))), "ForkChainstateData", Enc(k + 1, "ForkChainstateData", fork), fork)
  <1> DEFINE dd == Decoder(Decoder(Decoder(d)))
             C == "ForkChainstateData"
             f(i) == Settings(C)[i]
             B(i) == FieldBack(dd, f(i), EncField(k, f(i), fork[KeyOf(C, i)]), fork[KeyOf(C, i)])
  <1>1. /\ {fork.stateHash, fork.parentChain} \subseteq Words(1)
        /\ fork.base \in ReadBlocks(ShortLists) /\ fork.latestBlock \in ReadBlocks(ShortLists)
    BY DEF ForkObjects
  <1>2. \A w \in Words(1) : w \in Seq(Elements) /\ Len(w) = 1 BY DEF Words
  <1>3. /\ f(1).kind = "fixed" /\ f(1).len = 1 /\ KeyOf(C, 1) = "stateHash"
        /\ f(2).kind = "fixed" /\ f(2).len = 1 /\ KeyOf(C, 2) = "parentChain"
        /\ f(3).kind = "object" /\ f(3).target = "Block" /\ KeyOf(C, 3) = "base"
        /\ f(4).kind = "object" /\ f(4).target = "Block" /\ KeyOf(C, 4) = "latestBlock"
        /\ Len(Settings(C)) = 4
    BY SettingsAre, KeysOfFields DEF ForkSettings, KeyOf
  <1>4. \A b \in ReadBlocks(ShortLists) : Back(dd, "Block", Enc(k, "Block", b), b)
    <2>1. k - 1 \in 2..4 /\ (k - 1) + 1 = k OBVIOUS
    <2>2. \A b \in ReadBlocks(ShortLists) : Back(Decoder(Decoder(Decoder(d))), "Block", Enc((k - 1) + 1, "Block", b), b)
      BY ONLY <2>1, BlockBack
    <2> QED BY ONLY <2>1, <2>2
  <1> HIDE DEF f, dd
  <1>5. B(1) /\ B(2) BY <1>1, <1>2, <1>3, FixedFieldBack
  <1>6. B(3) /\ B(4) BY <1>1, <1>3, <1>4, ObjectFieldBack
  <1> HIDE DEF B
  <1>7. \A i \in 1..4 : B(i)
    <2>1. 1..4 = {1, 2, 3, 4} OBVIOUS
    <2> QED BY ONLY <1>5, <1>6, <2>1
  <1>8. FieldsAreBack(dd, k, C, fork) BY <1>3, <1>7 DEF FieldsAreBack, B, f
  <1>9. C \in Classes \ {"Block", "Transaction"} /\ k \in 0..4 BY DEF Classes
  <1>10. FromDict(C, Written(C, fork)) = Decoded(fork, 0)
    <2>1. DOMAIN Blank(C) = {"stateHash", "parentChain", "base", "latestBlock"}
      <3>1. DOMAIN Blank(C) = {KeyOf(C, i) : i \in 1..4} BY <1>3, <1>9, KeysOfBlank
      <3>2. 1..4 = {1, 2, 3, 4} OBVIOUS
      <3> QED BY ONLY <1>3, <3>1, <3>2
    <2>2. fork = [key \in DOMAIN Blank(C) |-> fork[key]] BY <2>1 DEF ForkObjects
    <2>3. Written(C, fork) = fork BY ONLY <1>9, <2>2, WrittenIs
    <2> QED BY <2>3 DEF FromDict, Versioned
  <1>11. Back(Decoder(dd), C, Enc(k + 1, C, fork), fork)
    BY ONLY <1>8, <1>9, <1>10, PartBack
  <1> QED BY <1>11 DEF dd

LEMMA InnerBack ==
    /\ \A b \in ReadBlocks(ShortLists) :
          FieldsAreBack(DecodeInner, 4, "Block", b) /\ Back(DecodeInner, "Block", Enc(4, "Block", b), b)
    /\ \A fork \in ForkObjects : Back(DecodeInner, "ForkChainstateData", Enc(4, "ForkChainstateData", fork), fork)
    /\ \A t \in ReadTransactions : Back(DecodeInner, "Transaction", Enc(4, "Transaction", t), t)
  <1> DEFINE d1 == Decoder(NoDecoder)
             d2 == Decoder(d1)
             d3 == Decoder(d2)
  <1>1. DecodeInner = Decoder(d3) BY DEF DecodeInner
  <1>2. 3 \in 2..4 /\ 4 \in 2..4 /\ 3 \in 3..4 /\ 3 \in 0..4 /\ 3 + 1 = 4 OBVIOUS
  <1>3. \A b \in ReadBlocks(ShortLists) : FieldsAreBack(Decoder(Decoder(d2)), 4, "Block", b)
    BY ONLY <1>2, BlockBack
  <1>4. \A b \in ReadBlocks(ShortLists) : Back(Decoder(Decoder(Decoder(d1))), "Block", Enc(3 + 1, "Block", b), b)
    BY ONLY <1>2, BlockBack
  <1>5. \A fork \in ForkObjects :
            Back(Decoder(Decoder(Decoder(Decoder(NoDecoder)))), "ForkChainstateData", Enc(3 + 1, "ForkChainstateData", fork), fork)
    BY ONLY <1>2, ForkBack
  <1>6. \A t \in ReadTransactions : Back(Decoder(d3), "Transaction", Enc(3 + 1, "Transaction", t), t)
    BY ONLY <1>2, TransactionBack
  <1> QED BY ONLY <1>1, <1>2, <1>3, <1>4, <1>5, <1>6

\* Objects of one field.
LEMMA OneFieldBack ==
    ASSUME NEW d, NEW k, NEW class, Len(Settings(class)) = 1, NEW object,
           FieldBack(d, Settings(class)[1], EncField(k, Settings(class)[1], object[KeyOf(class, 1)]), object[KeyOf(class, 1)])
    PROVE  FieldsAreBack(d, k, class, object)
  <1>1. \A i \in 1..1 : i = 1 OBVIOUS
  <1> QED BY <1>1 DEF FieldsAreBack

\* All that is written of an object of one field, or what is behind the settings, is read.
LEMMA NothingElse ==
    ASSUME NEW class \in Classes \ {"Block", "Transaction"}, NEW object,
           NEW K, K = {KeyOf(class, i) : i \in 1..Len(Settings(class))}, object = [key \in K |-> object[key]]
    PROVE  Written(class, object) = object
  <1>1. DOMAIN Blank(class) = K BY KeysOfBlank
  <1> QED BY <1>1, WrittenIs

\* A list with one item has a count of one byte.
LEMMA OneItem ==
    Cut(1, Base, PrefixLength) = 0
  <1>1. 1 \in Nat /\ 1 <= Base - 1 BY BaseFacts
  <1>2. Cut(1, Base, 1) = 0 BY <1>1, OneByte
  <1>3. PrefixLength \in Nat /\ 1 <= PrefixLength /\ 1 \in Nat BY EncodingAssumption
  <1> QED BY <1>1, <1>2, <1>3, BaseFacts, CutDown

-------------------------------------------------------------------------------
(***************************************************************************)
(* The carriers of a block or a transaction.                               *)
(***************************************************************************)

LEMMA BothBack ==
    ASSUME NEW class \in Classes, NEW object, FieldsAreBack(DecodeInner, 4, class, object),
           FromDict(class, Written(class, object)) = Decoded(object, 0)
    PROVE  PartIsBack(class, object) /\ WholeIsBack(class, object)
  <1>1. PartIsBack(class, object)
    <2>1. 4 \in 0..4 /\ 4 + 1 = 5 OBVIOUS
    <2>2. EncodeObject(class, object, FALSE) = Enc(5, class, object) BY EncIs
    <2>3. Back(Decoder(DecodeInner), class, Enc(4 + 1, class, object), object)
      BY ONLY <2>1, PartBack, class \in Classes, FieldsAreBack(DecodeInner, 4, class, object),
              FromDict(class, Written(class, object)) = Decoded(object, 0)
    <2> QED BY ONLY <2>1, <2>2, <2>3 DEF PartIsBack
  <1>2. WholeIsBack(class, object)
    <2> DEFINE code == EncodeObject(class, object, FALSE)
    <2>1. /\ code \in Seq(Elements) /\ DecodeWhole(class, code) = FromDict(class, Written(class, object))
          /\ \A n \in 0..(Len(code) - 1) : DecodeWhole(class, SubSeq(code, 1, n)) = Failed
      BY WholeBack
    <2> HIDE DEF code
    <2>2. DecodeWhole(class, code) = Decoded(object, 0) BY <2>1
    <2> QED BY ONLY <2>1, <2>2 DEF WholeIsBack, code
  <1> QED BY ONLY <1>1, <1>2

LEMMA BlockIsBack ==
    ASSUME NEW b \in ReadBlocks(ShortLists)
    PROVE  PartIsBack("Block", b) /\ WholeIsBack("Block", b)
  <1>1. "Block" \in Classes BY DEF Classes
  <1>2. FieldsAreBack(DecodeInner, 4, "Block", b) BY InnerBack
  <1>3. FromDict("Block", Written("Block", b)) = Decoded(b, 0) BY ReadBlock
  <1> QED BY ONLY <1>1, <1>2, <1>3, BothBack

LEMMA ForkIsObject ==
    ASSUME NEW b \in ReadBlocks(ShortLists)
    PROVE  Fork(b) \in ForkObjects
  <1>1. ZeroHash \in Elements BY FormatsAssumption DEF Elements
  <1> HIDE DEF ZeroHash
  <1>2. <<ZeroHash>> \in Words(1) BY <1>1 DEF Words
  <1> QED BY <1>2 DEF Fork, ForkObjects

LEMMA BlockMessageBack ==
    ASSUME NEW b \in ReadBlocks(ShortLists)
    PROVE  PartIsBack("NEW_BLOCK", [block |-> b])
  <1> DEFINE C == "NEW_BLOCK"
             o == [block |-> b]
             f == Settings(C)[1]
  <1>1. /\ Len(Settings(C)) = 1 /\ f.kind = "object" /\ f.target = "Block" /\ KeyOf(C, 1) = "block"
    BY SettingsAre, KeysOfFields DEF NewBlockMsg, KeyOf
  <1>2. C \in Classes \ {"Block", "Transaction"} BY MessageClasses DEF Classes
  <1>3. Back(DecodeInner, "Block", Enc(4, "Block", b), b) BY InnerBack
  <1> HIDE DEF f
  <1>4. FieldBack(DecodeInner, f, EncField(4, f, b), b)
    BY ONLY <1>1, <1>3, ObjectFieldBack
  <1>5. o[KeyOf(C, 1)] = b BY <1>1
  <1>6. FieldsAreBack(DecodeInner, 4, C, o) BY ONLY <1>1, <1>4, <1>5, OneFieldBack DEF f
  <1>7. FromDict(C, Written(C, o)) = Decoded(o, 0)
    <2>1. 1..1 = {1} /\ o = [key \in {"block"} |-> o[key]] OBVIOUS
    <2>2. {KeyOf(C, i) : i \in 1..Len(Settings(C))} = {"block"} BY ONLY <1>1, <2>1
    <2>3. Written(C, o) = o BY ONLY <1>2, <2>1, <2>2, NothingElse
    <2> QED BY <2>3 DEF FromDict, Versioned
  <1> QED BY ONLY <1>2, <1>6, <1>7, BothBack

LEMMA BlocksMessageBack ==
    ASSUME NEW b \in ReadBlocks(ShortLists)
    PROVE  PartIsBack("BLOCKS", [blocks |-> <<b>>])
  <1> DEFINE C == "BLOCKS"
             o == [blocks |-> <<b>>]
             f == Settings(C)[1]
             v == <<b>>
  <1>1. /\ Len(Settings(C)) = 1 /\ f.kind = "array" /\ f.target = "Block" /\ f.len = PrefixLength /\ KeyOf(C, 1) = "blocks"
    BY SettingsAre, KeysOfFields DEF BlocksMsg, KeyOf
  <1>2. C \in Classes \ {"Block", "Transaction"} /\ PrefixLength \in Nat
    BY MessageClasses, EncodingAssumption DEF Classes
  <1>3. /\ v \in Seq(ReadBlocks(ShortLists)) /\ Len(v) = 1
        /\ \A i \in 1..Len(v) : Back(DecodeInner, "Block", Enc(4, "Block", v[i]), v[i])
    <2>1. Back(DecodeInner, "Block", Enc(4, "Block", b), b) BY InnerBack
    <2> QED BY <2>1
  <1> HIDE DEF f, v
  <1>4. FieldBack(DecodeInner, f, EncField(4, f, v), v)
    BY <1>1, <1>2, <1>3, OneItem, ListFieldBack
  <1>5. o[KeyOf(C, 1)] = v BY <1>1 DEF v
  <1>6. FieldsAreBack(DecodeInner, 4, C, o) BY ONLY <1>1, <1>4, <1>5, OneFieldBack DEF f
  <1>7. FromDict(C, Written(C, o)) = Decoded(o, 0)
    <2>1. 1..1 = {1} /\ o = [key \in {"blocks"} |-> o[key]] OBVIOUS
    <2>2. {KeyOf(C, i) : i \in 1..Len(Settings(C))} = {"blocks"} BY ONLY <1>1, <2>1
    <2>3. Written(C, o) = o BY ONLY <1>2, <2>1, <2>2, NothingElse
    <2> QED BY <2>3 DEF FromDict, Versioned
  <1> QED BY ONLY <1>2, <1>6, <1>7, BothBack

LEMMA ChainstateMessageBack ==
    ASSUME NEW fork \in ForkObjects
    PROVE  PartIsBack("CHAINSTATE", [chainstate |-> fork])
  <1> DEFINE C == "CHAINSTATE"
             o == [chainstate |-> fork]
             f == Settings(C)[1]
  <1>1. /\ Len(Settings(C)) = 1 /\ f.kind = "object" /\ f.target = "ForkChainstateData" /\ KeyOf(C, 1) = "chainstate"
    BY SettingsAre, KeysOfFields DEF ChainstateMsg, KeyOf
  <1>2. C \in Classes \ {"Block", "Transaction"} BY MessageClasses DEF Classes
  <1>3. Back(DecodeInner, "ForkChainstateData", Enc(4, "ForkChainstateData", fork), fork)
    BY InnerBack
  <1> HIDE DEF f
  <1>4. FieldBack(DecodeInner, f, EncField(4, f, fork), fork)
    BY ONLY <1>1, <1>3, ObjectFieldBack
  <1>5. o[KeyOf(C, 1)] = fork BY <1>1
  <1>6. FieldsAreBack(DecodeInner, 4, C, o) BY ONLY <1>1, <1>4, <1>5, OneFieldBack DEF f
  <1>7. FromDict(C, Written(C, o)) = Decoded(o, 0)
    <2>1. 1..1 = {1} /\ o = [key \in {"chainstate"} |-> o[key]] OBVIOUS
    <2>2. {KeyOf(C, i) : i \in 1..Len(Settings(C))} = {"chainstate"} BY ONLY <1>1, <2>1
    <2>3. Written(C, o) = o BY ONLY <1>2, <2>1, <2>2, NothingElse
    <2> QED BY <2>3 DEF FromDict, Versioned
  <1> QED BY ONLY <1>2, <1>6, <1>7, BothBack

LEMMA TransactionMessageBack ==
    ASSUME NEW t \in ReadTransactions
    PROVE  PartIsBack("NEW_TRANSACTION", [transaction |-> t])
  <1> DEFINE C == "NEW_TRANSACTION"
             o == [transaction |-> t]
             f == Settings(C)[1]
  <1>1. /\ Len(Settings(C)) = 1 /\ f.kind = "object" /\ f.target = "Transaction" /\ KeyOf(C, 1) = "transaction"
    BY SettingsAre, KeysOfFields DEF NewTransactionMsg, KeyOf
  <1>2. C \in Classes \ {"Block", "Transaction"} BY MessageClasses DEF Classes
  <1>3. Back(DecodeInner, "Transaction", Enc(4, "Transaction", t), t) BY InnerBack
  <1> HIDE DEF f
  <1>4. FieldBack(DecodeInner, f, EncField(4, f, t), t)
    BY ONLY <1>1, <1>3, ObjectFieldBack
  <1>5. o[KeyOf(C, 1)] = t BY <1>1
  <1>6. FieldsAreBack(DecodeInner, 4, C, o) BY ONLY <1>1, <1>4, <1>5, OneFieldBack DEF f
  <1>7. FromDict(C, Written(C, o)) = Decoded(o, 0)
    <2>1. 1..1 = {1} /\ o = [key \in {"transaction"} |-> o[key]] OBVIOUS
    <2>2. {KeyOf(C, i) : i \in 1..Len(Settings(C))} = {"transaction"} BY ONLY <1>1, <2>1
    <2>3. Written(C, o) = o BY ONLY <1>2, <2>1, <2>2, NothingElse
    <2> QED BY <2>3 DEF FromDict, Versioned
  <1> QED BY ONLY <1>2, <1>6, <1>7, BothBack

LEMMA ChainstateFileBack ==
    ASSUME NEW fork \in ForkObjects
    PROVE  WholeIsBack("ChainstateData", [version |-> Digits(0, 1), chains |-> <<fork>>])
  <1> DEFINE C == "ChainstateData"
             o == [version |-> Digits(0, 1), chains |-> <<fork>>]
             f(i) == Settings(C)[i]
             v == <<fork>>
             B(i) == FieldBack(DecodeInner, f(i), EncField(4, f(i), o[KeyOf(C, i)]), o[KeyOf(C, i)])
  <1>1. /\ Len(Settings(C)) = 2 /\ f(1).kind = "fixed" /\ f(1).len = 1 /\ KeyOf(C, 1) = "version"
        /\ f(2).kind = "array" /\ f(2).target = "ForkChainstateData" /\ f(2).len = PrefixLength /\ KeyOf(C, 2) = "chains"
    BY SettingsAre, KeysOfFields DEF ChainstateSettings, KeyOf
  <1>2. C \in Classes \ {"Block", "Transaction"} /\ PrefixLength \in Nat
    BY EncodingAssumption DEF Classes
  <1>3. /\ v \in Seq(ForkObjects) /\ Len(v) = 1
        /\ \A i \in 1..Len(v) : Back(DecodeInner, "ForkChainstateData", Enc(4, "ForkChainstateData", v[i]), v[i])
    <2>1. Back(DecodeInner, "ForkChainstateData", Enc(4, "ForkChainstateData", fork), fork)
      BY InnerBack
    <2> QED BY <2>1
  <1> HIDE DEF f, v
  <1>4. FieldBack(DecodeInner, f(2), EncField(4, f(2), v), v)
    BY <1>1, <1>2, <1>3, OneItem, ListFieldBack
  <1>5. o[KeyOf(C, 2)] = v /\ o[KeyOf(C, 1)] = Digits(0, 1) BY <1>1 DEF v
  <1> HIDE DEF o
  <1>6. B(1) BY <1>1, <1>5, VersionWord, FixedFieldBack
  <1>7. B(2) BY <1>4, <1>5
  <1> HIDE DEF B
  <1>8. \A i \in 1..2 : B(i)
    <2>1. 1..2 = {1, 2} OBVIOUS
    <2> QED BY ONLY <1>6, <1>7, <2>1
  <1>9. FieldsAreBack(DecodeInner, 4, C, o) BY <1>1, <1>8 DEF FieldsAreBack, B, f
  <1>10. FromDict(C, Written(C, o)) = Decoded(o, 0)
    <2>1. 1..2 = {1, 2} /\ o = [key \in {"version", "chains"} |-> o[key]] BY DEF o
    <2>2. {KeyOf(C, i) : i \in 1..Len(Settings(C))} = {"version", "chains"}
      BY ONLY <1>1, <2>1
    <2>3. Written(C, o) = o BY ONLY <1>2, <2>1, <2>2, NothingElse
    <2>4. o.version = Digits(0, 1) BY DEF o
    <2> QED BY <2>3, <2>4 DEF FromDict, Versioned
  <1>11. WholeIsBack(C, o) BY ONLY <1>2, <1>9, <1>10, BothBack
  <1> QED BY <1>11 DEF o

-------------------------------------------------------------------------------
(***************************************************************************)
(* What is flat: the entries of the databases and the other messages.      *)
(***************************************************************************)

LEMMA WalletIsRead ==
    ASSUME NEW o \in [version : Words(1), balance : Numbers, nonce : Numbers]
    PROVE  /\ FieldsAreBack(DecodeInner, 4, "Wallet", o)
           /\ DecodeWhole("Wallet", EncodeObject("Wallet", o, FALSE)) =
                  IF o.version = Digits(0, 1) THEN Decoded(o, 0) ELSE Failed
  <1> DEFINE C == "Wallet"
             f(i) == Settings(C)[i]
             B(i) == FieldBack(DecodeInner, f(i), EncField(4, f(i), o[KeyOf(C, i)]), o[KeyOf(C, i)])
  <1>1. /\ Len(Settings(C)) = 3 /\ f(1).kind = "fixed" /\ f(1).len = 1 /\ KeyOf(C, 1) = "version"
        /\ f(2).kind = "bigint" /\ KeyOf(C, 2) = "balance"
        /\ f(3).kind = "bigint" /\ KeyOf(C, 3) = "nonce"
    BY SettingsAre, KeysOfFields DEF WalletSettings, KeyOf
  <1>2. C \in Classes \ {"Block", "Transaction"} BY DEF Classes
  <1>3. o.version \in Seq(Elements) /\ Len(o.version) = 1 /\ o.balance \in Numbers /\ o.nonce \in Numbers
    BY DEF Words
  <1> HIDE DEF f
  <1>4. B(1) BY <1>1, <1>3, FixedFieldBack
  <1>5. B(2) /\ B(3) BY <1>1, <1>3, BigIntFieldBack
  <1> HIDE DEF B
  <1>6. \A i \in 1..3 : B(i)
    <2>1. 1..3 = {1, 2, 3} OBVIOUS
    <2> QED BY ONLY <1>4, <1>5, <2>1
  <1>7. FieldsAreBack(DecodeInner, 4, C, o) BY <1>1, <1>6 DEF FieldsAreBack, B, f
  <1>8. Written(C, o) = o
    <2>1. 1..3 = {1, 2, 3} /\ o = [key \in {"version", "balance", "nonce"} |-> o[key]]
      OBVIOUS
    <2>2. {KeyOf(C, i) : i \in 1..Len(Settings(C))} = {"version", "balance", "nonce"}
      <3>1. Len(Settings(C)) = 3 /\ KeyOf(C, 1) = "version" /\ KeyOf(C, 2) = "balance" /\ KeyOf(C, 3) = "nonce"
        BY ONLY <1>1
      <3>2. {KeyOf(C, i) : i \in 1..Len(Settings(C))} = {KeyOf(C, i) : i \in {1, 2, 3}}
        BY ONLY <2>1, <3>1
      <3> QED BY ONLY <3>1, <3>2
    <2> QED BY ONLY <1>2, <2>1, <2>2, NothingElse
  <1>9. FromDict(C, o) = IF o.version = Digits(0, 1) THEN Decoded(o, 0) ELSE Failed
    BY DEF FromDict, Versioned
  <1>10. DecodeWhole(C, EncodeObject(C, o, FALSE)) = FromDict(C, Written(C, o))
    BY ONLY <1>2, <1>7, WholeBack
  <1> QED BY ONLY <1>7, <1>8, <1>9, <1>10

LEMMA MinterIsRead ==
    ASSUME NEW o \in [version : Words(1), stake : Numbers]
    PROVE  /\ FieldsAreBack(DecodeInner, 4, "MinterData", o)
           /\ DecodeWhole("MinterData", EncodeObject("MinterData", o, FALSE)) =
                  IF o.version = Digits(0, 1) THEN Decoded(o, 0) ELSE Failed
  <1> DEFINE C == "MinterData"
             f(i) == Settings(C)[i]
             B(i) == FieldBack(DecodeInner, f(i), EncField(4, f(i), o[KeyOf(C, i)]), o[KeyOf(C, i)])
  <1>1. /\ Len(Settings(C)) = 2 /\ f(1).kind = "fixed" /\ f(1).len = 1 /\ KeyOf(C, 1) = "version"
        /\ f(2).kind = "bigint" /\ KeyOf(C, 2) = "stake"
    BY SettingsAre, KeysOfFields DEF MinterSettings, KeyOf
  <1>2. C \in Classes \ {"Block", "Transaction"} BY DEF Classes
  <1>3. o.version \in Seq(Elements) /\ Len(o.version) = 1 /\ o.stake \in Numbers
    BY DEF Words
  <1> HIDE DEF f
  <1>4. B(1) BY <1>1, <1>3, FixedFieldBack
  <1>5. B(2) BY <1>1, <1>3, BigIntFieldBack
  <1> HIDE DEF B
  <1>6. \A i \in 1..2 : B(i)
    <2>1. 1..2 = {1, 2} OBVIOUS
    <2> QED BY ONLY <1>4, <1>5, <2>1
  <1>7. FieldsAreBack(DecodeInner, 4, C, o) BY <1>1, <1>6 DEF FieldsAreBack, B, f
  <1>8. Written(C, o) = o
    <2>1. 1..2 = {1, 2} /\ o = [key \in {"version", "stake"} |-> o[key]] OBVIOUS
    <2>2. {KeyOf(C, i) : i \in 1..Len(Settings(C))} = {"version", "stake"}
      <3>1. Len(Settings(C)) = 2 /\ KeyOf(C, 1) = "version" /\ KeyOf(C, 2) = "stake"
        BY ONLY <1>1
      <3>2. {KeyOf(C, i) : i \in 1..Len(Settings(C))} = {KeyOf(C, i) : i \in {1, 2}}
        BY ONLY <2>1, <3>1
      <3> QED BY ONLY <3>1, <3>2
    <2> QED BY ONLY <1>2, <2>1, <2>2, NothingElse
  <1>9. FromDict(C, o) = IF o.version = Digits(0, 1) THEN Decoded(o, 0) ELSE Failed
    BY DEF FromDict, Versioned
  <1>10. DecodeWhole(C, EncodeObject(C, o, FALSE)) = FromDict(C, Written(C, o))
    BY ONLY <1>2, <1>7, WholeBack
  <1> QED BY ONLY <1>7, <1>8, <1>9, <1>10

LEMMA PlainFields ==
    ASSUME NEW class \in PlainMessages
    PROVE  \A i \in 1..Len(Settings(class)) : Settings(class)[i].kind = "fixed"
  <1> DEFINE Fixed(s) == \A i \in 1..Len(s) : s[i].kind = "fixed"
  <1>1. \A key, len : BE(key, len).kind = "fixed" BY KeysOfFields
  <1>2. Fixed(GetBlocksMsg) /\ Fixed(StatusMsg) /\ Fixed(ChallengeMsg) /\ Fixed(ChallengeResponseMsg) /\ Fixed(ErrorResponseMsg)
    BY ONLY <1>1 DEF GetBlocksMsg, StatusMsg, ChallengeMsg, ChallengeResponseMsg, ErrorResponseMsg
  <1>3. Fixed(GetTransactionsMsg) /\ Fixed(ChallengeREQMsg) /\ Fixed(GetChainstateMsg)
    BY DEF GetTransactionsMsg, ChallengeREQMsg, GetChainstateMsg
  <1> HIDE DEF Fixed
  <1>4. Fixed(Settings(class))
    BY <1>2, <1>3, SettingsAre, MessageClasses DEF PlainMessages
  <1> QED BY <1>4 DEF Fixed

LEMMA PlainMessageBack ==
    ASSUME NEW class \in PlainMessages, NEW value, IsMessage(class, value)
    PROVE  /\ FieldsAreBack(DecodeInner, 4, class, value) /\ Written(class, value) = value
           /\ class \notin {"GET_TRANSACTIONS", "GET_CHAINSTATE"} => PartIsBack(class, value)
           /\ class \in {"GET_TRANSACTIONS", "GET_CHAINSTATE"} => FromDict(class, Written(class, value)) = Failed
  <1>1. class \in Classes \ {"Block", "Transaction"} /\ class \notin Versioned
    BY MessageClasses DEF PlainMessages, Classes, Versioned
  <1> DEFINE n == Len(Settings(class))
             K == DOMAIN Blank(class)
             s(i) == Settings(class)[i]
  <1>2. /\ DOMAIN Settings(class) = 1..n
        /\ \A i \in 1..n : KeyOf(class, i) \in K
    BY <1>1, FieldsOfSettings, BlankIs
  <1>3. /\ value \in [K -> Seq(Elements)]
        /\ \A i \in 1..n : Len(value[KeyOf(class, i)]) = s(i).len
    BY <1>2 DEF IsMessage, KeyOf
  <1>4. \A i \in 1..n : s(i).kind = "fixed" BY PlainFields
  <1>5. Written(class, value) = value
    <2>1. value = [key \in K |-> value[key]] BY <1>3
    <2> QED BY <1>1, <2>1, WrittenIs
  <1> HIDE DEF n, K, s
  <1>6. ASSUME NEW i \in 1..n PROVE FieldBack(DecodeInner, s(i), EncField(4, s(i), value[KeyOf(class, i)]), value[KeyOf(class, i)])
    <2> DEFINE v == value[KeyOf(class, i)]
    <2>1. v \in Seq(Elements) /\ Len(v) = s(i).len /\ s(i).kind = "fixed"
      BY <1>2, <1>3, <1>4
    <2> HIDE DEF v
    <2>2. FieldBack(DecodeInner, s(i), EncField(4, s(i), v), v)
      BY ONLY <2>1, FixedFieldBack
    <2> QED BY ONLY <2>2 DEF v
  <1>7. FieldsAreBack(DecodeInner, 4, class, value) BY <1>6 DEF FieldsAreBack, n, s
  <1>8. /\ class \notin {"GET_TRANSACTIONS", "GET_CHAINSTATE"} => FromDict(class, value) = Decoded(value, 0)
        /\ class \in {"GET_TRANSACTIONS", "GET_CHAINSTATE"} => FromDict(class, value) = Failed
    BY <1>1 DEF FromDict
  <1>9. class \notin {"GET_TRANSACTIONS", "GET_CHAINSTATE"} => PartIsBack(class, value)
    BY ONLY <1>1, <1>5, <1>7, <1>8, BothBack
  <1> QED BY ONLY <1>5, <1>7, <1>8, <1>9

-------------------------------------------------------------------------------
(***************************************************************************)
(* Messages.                                                               *)
(***************************************************************************)

LEMMA HeadOfMessage ==
    ASSUME NEW class, NEW object, EncodeObject(class, object, FALSE) \in Seq(Elements), NEW id \in 0..(Base - 1)
    PROVE  LET msg == EncodeMsg(class, object, id) IN
           /\ msg[1] = TypeID(class)
           /\ From(msg, IF HasID(class) THEN 2 ELSE 1) = EncodeObject(class, object, FALSE)
           /\ HasID(class) => ToInt(SubSeq(msg, 2, 2)) = id
  <1> DEFINE code == EncodeObject(class, object, FALSE)
             T == TypeID(class)
             E == Elements \cup {T}
             x == IF HasID(class) THEN Digits(id, 1) ELSE << >>
             head == <<T>> \o x
             msg == EncodeMsg(class, object, id)
             n == IF HasID(class) THEN 2 ELSE 1
  <1>1. /\ id \in Nat /\ Cut(id, Base, 1) = 0 BY OneByte, BaseFacts
  <1>2. Digits(id, 1) \in Seq(Digit) /\ Len(Digits(id, 1)) = 1 /\ ToInt(Digits(id, 1)) = id
    BY <1>1, DigitsOf
  <1>3. x \in Seq(E) /\ Len(x) = n - 1
    <2>1. Digit \subseteq E BY ElementFacts
    <2>2. Digits(id, 1) \in Seq(E) BY ONLY <1>2, <2>1, SeqMonotonic
    <2>3. << >> \in Seq(E) /\ Len(<< >>) = 0 OBVIOUS
    <2>4. CASE HasID(class)
      <3>1. x = Digits(id, 1) /\ n - 1 = 1 BY <2>4
      <3> QED BY ONLY <1>2, <2>2, <3>1
    <2>5. CASE ~HasID(class)
      <3>1. x = << >> /\ n - 1 = 0 BY <2>5
      <3> QED BY ONLY <2>3, <3>1
    <2> QED BY ONLY <2>4, <2>5
  <1>4. code \in Seq(E)
    <2>1. Elements \subseteq E OBVIOUS
    <2> HIDE DEF E, code
    <2>2. code \in Seq(Elements) BY DEF code
    <2> QED BY <2>1, <2>2, SeqMonotonic
  <1>5. <<T>> \in Seq(E) /\ Len(<<T>>) = 1 /\ <<T>>[1] = T
    <2>1. T \in E OBVIOUS
    <2> HIDE DEF E, T
    <2> QED BY <2>1
  <1>6. msg = head \o code BY DEF EncodeMsg
  <1>7. n \in Nat /\ n >= 1 OBVIOUS
  <1>8. HasID(class) => n = 2 /\ x = Digits(id, 1) OBVIOUS
  <1> HIDE DEF code, T, E, x, msg, n
  <1>9. /\ head \in Seq(E) /\ Len(head) = n
        /\ head[1] = T /\ \A i \in 1..Len(x) : head[1 + i] = x[i]
    <2>1. /\ head \in Seq(E) /\ Len(head) = 1 + Len(x)
          /\ \A i \in 1..(1 + Len(x)) : head[i] = IF i <= 1 THEN <<T>>[i] ELSE x[i - 1]
      BY <1>3, <1>5, ConcatProperties
    <2> HIDE DEF head
    <2> QED BY <1>3, <1>5, <1>7, <2>1
  <1> HIDE DEF head
  <1>10. From(msg, n) = code BY <1>4, <1>6, <1>9, PartsOfBoth
  <1>11. /\ msg \in Seq(E) /\ Len(msg) = Len(head) + Len(code)
         /\ \A i \in 1..(Len(head) + Len(code)) : msg[i] = IF i <= Len(head) THEN head[i] ELSE code[i - Len(head)]
    BY <1>4, <1>6, <1>9, ConcatProperties
  <1>12. Len(code) \in Nat BY <1>4
  <1>13. msg[1] = T BY <1>7, <1>9, <1>11, <1>12
  <1>14. ASSUME HasID(class) PROVE SubSeq(msg, 2, 2) = Digits(id, 1)
    <2>1. n = 2 /\ x = Digits(id, 1) /\ Len(x) = 1 BY <1>2, <1>8, <1>14
    <2>2. msg[2] = x[1] /\ Len(msg) >= 2 BY <1>9, <1>11, <1>12, <2>1
    <2>3. SubSeq(msg, 2, 2) = <<msg[2]>>
      <3>1. msg \in Seq(E) /\ 2 \in 1..(Len(msg) + 1) /\ 2 \in (2 - 1)..Len(msg)
        BY ONLY <1>11, <2>2, Len(msg) \in Nat, SMT
      <3>2. /\ SubSeq(msg, 2, 2) \in Seq(E) /\ Len(SubSeq(msg, 2, 2)) = 2 - 2 + 1
            /\ \A i \in 1..(2 - 2 + 1) : SubSeq(msg, 2, 2)[i] = msg[2 + i - 1]
        BY ONLY <3>1, SubSeqProperties
      <3>3. Len(SubSeq(msg, 2, 2)) = 1 /\ SubSeq(msg, 2, 2)[1] = msg[2] BY ONLY <3>2
      <3> DEFINE w == SubSeq(msg, 2, 2)
      <3>4. w \in Seq(E) /\ Len(w) = 1 /\ w[1] = msg[2] BY ONLY <3>2, <3>3
      <3> HIDE DEF w
      <3>5. w = <<w[1]>> BY ONLY <3>4
      <3> QED BY ONLY <3>4, <3>5 DEF w
    <2>4. x = <<x[1]>> BY <1>3, <2>1
    <2> QED BY ONLY <2>1, <2>2, <2>3, <2>4
  <1> QED BY <1>2, <1>10, <1>13, <1>14 DEF msg, n, code, T

LEMMA TypesOfMessages ==
    /\ \A class \in LNMsgRegistry : GetMsgInfo(TypeID(class)) = {class}
    /\ GetMsgInfo(TypeID("ERROR_RESPONSE")) = {}
  <1>1. \A a, b : TypeID(a) = TypeID(b) => a = b BY DEF TypeID
  <1>2. "ERROR_RESPONSE" \notin LNMsgRegistry BY DEF LNMsgRegistry
  <1> QED BY ONLY <1>1, <1>2 DEF GetMsgInfo

\* What comes of a message: its class is found by its type, and its id is allowed.
LEMMA MessageIsHandled ==
    ASSUME NEW class \in LNMsgRegistry, NEW object, EncodeObject(class, object, FALSE) \in Seq(Elements),
           NEW id, Addressed(class, id), NEW part, DecodePart(class, EncodeObject(class, object, FALSE)) = part
    PROVE  HandleIncomingMsg(EncodeMsg(class, object, id)) = IF part.ok THEN Copy(class, part.data) ELSE Failed
  <1> DEFINE code == EncodeObject(class, object, FALSE)
             msg == EncodeMsg(class, object, id)
             n == IF HasID(class) THEN 2 ELSE 1
  <1>1. msg[1] = TypeID(class) /\ From(msg, n) = code /\ (HasID(class) => ToInt(SubSeq(msg, 2, 2)) = id)
    BY HeadOfMessage DEF Addressed
  <1>2. HandleIncomingMsg(msg) = Handle(class, DecodeMsg(class, msg))
    <2> DEFINE info == GetMsgInfo(msg[1])
    <2>1. info = {class} BY <1>1, TypesOfMessages
    <2>2. HandleIncomingMsg(msg) = IF info = {} THEN Failed
                                   ELSE LET c == CHOOSE c \in info : TRUE IN Handle(c, DecodeMsg(c, msg))
      BY Zenon DEF HandleIncomingMsg
    <2>3. (CHOOSE c \in {class} : TRUE) = class OBVIOUS
    <2> HIDE DEF info, msg
    <2> QED BY ONLY <2>1, <2>2, <2>3
  <1> DEFINE got == DecodeMsg(class, msg)
             read == IF HasID(class) THEN ToInt(SubSeq(msg, 2, 2)) ELSE ToInt(SubSeq(msg, 2, 1))
  <1>3. got = Headed(DecodePart(class, From(msg, n)), read) BY DEF DecodeMsg
  <1>4. HasID(class) => read = id BY <1>1
  <1>5. DecodePart(class, code) = part OBVIOUS
  <1> HIDE DEF msg, n, code, read
  <1>6. got = Headed(part, read) BY ONLY <1>1, <1>3, <1>5
  <1> HIDE DEF got
  <1>7. CASE part.ok
    <2>1. got = [ok |-> TRUE, data |-> part.data, id |-> read]
      BY ONLY <1>6, <1>7, Zenon DEF Headed
    <2>2. got.ok /\ got.data = part.data /\ got.id = read BY ONLY <2>1
    <2>3. ~(HandlerType(class) = "REQUEST" /\ (got.id <= Reserved \/ got.id \in Own))
      <3> SUFFICES ASSUME HandlerType(class) = "REQUEST" PROVE ~(got.id <= Reserved) /\ got.id \notin Own
        OBVIOUS
      <3>1. got.id = id BY <1>4, <2>2 DEF HasID
      <3>2. id \in Nat /\ Reserved \in Nat BY BaseFacts, FormatsAssumption DEF Addressed
      <3> QED BY <3>1, <3>2 DEF Addressed
    <2>4. ~(HandlerType(class) = "RESPONSE" /\ got.id \notin Own)
      BY <1>4, <2>2 DEF HasID, Addressed
    <2>5. Handle(class, got) = Copy(class, part.data)
      BY ONLY <2>2, <2>3, <2>4, Zenon DEF Handle
    <2> QED BY ONLY <1>2, <1>7, <2>5 DEF msg, got
  <1>8. CASE ~part.ok
    <2>1. got = Failed BY ONLY <1>6, <1>8, Zenon DEF Headed
    <2>2. ~got.ok BY ONLY <2>1, Outcomes
    <2>3. Handle(class, got) = Failed BY ONLY <2>2, Zenon DEF Handle
    <2> QED BY ONLY <1>2, <1>8, <2>3 DEF msg, got
  <1> QED BY ONLY <1>7, <1>8

LEMMA MessageIsRead ==
    ASSUME NEW class \in LNMsgRegistry, NEW object, PartIsBack(class, object), NEW id, Addressed(class, id)
    PROVE  HandleIncomingMsg(EncodeMsg(class, object, id)) = Copy(class, object)
  <1> DEFINE code == EncodeObject(class, object, FALSE)
             d == Decoder(DecodeInner)
             part == Decoded(object, Len(code))
  <1>1. code \in Seq(Elements) /\ d[<<class, code>>] = part
    <2>1. code \in Seq(Elements) /\ \A t \in Seq(Elements) : d[<<class, code \o t>>] = Decoded(object, Len(code))
      BY DEF PartIsBack, Back
    <2> HIDE DEF code, d
    <2>2. << >> \in Seq(Elements) /\ code \o << >> = code BY <2>1, Concats
    <2> QED BY <2>1, <2>2
  <1>2. part.ok /\ part.data = object BY Outcomes
  <1> HIDE DEF part
  <1>3. DecodePart(class, code) = part BY <1>1 DEF DecodePart
  <1>4. HandleIncomingMsg(EncodeMsg(class, object, id)) = IF part.ok THEN Copy(class, part.data) ELSE Failed
    BY <1>1, <1>3, MessageIsHandled
  <1> QED BY ONLY <1>2, <1>4

-------------------------------------------------------------------------------
(***************************************************************************)
(* The originals are as they are read: whoever signed is who is found out. *)
(***************************************************************************)

LEMMA SignerIsFound ==
    ASSUME NEW hash, NEW type, NEW key
    PROVE  /\ Sign(hash, type, key) = <<type, key, hash>>
           /\ FromSignature(hash, Sign(hash, type, key)) = Address(type, key)
  <1>1. Sign(hash, type, key) = <<type, key, hash>>
    <2>1. FromPrivate(key).private = key BY DEF FromPrivate
    <2> DEFINE S == {type, key, hash}
               a == <<type>>
               b == <<key, hash>>
               c == <<type, key, hash>>
    <2>2. a \in Seq(S) /\ b \in Seq(S) /\ c \in Seq(S) /\ Len(a) = 1 /\ Len(b) = 2 /\ Len(c) = 3
      OBVIOUS
    <2>3. a[1] = type /\ b[1] = key /\ b[2] = hash /\ c[1] = type /\ c[2] = key /\ c[3] = hash
      OBVIOUS
    <2> HIDE DEF S, a, b, c
    <2>4. a \o b \in Seq(S) /\ Len(a \o b) = 3 /\ \A i \in 1..3 : (a \o b)[i] = IF i <= 1 THEN a[i] ELSE b[i - 1]
      <3>1. /\ a \o b \in Seq(S) /\ Len(a \o b) = Len(a) + Len(b)
            /\ \A i \in 1..(Len(a) + Len(b)) : (a \o b)[i] = IF i <= Len(a) THEN a[i] ELSE b[i - Len(a)]
        BY <2>2, ConcatProperties
      <3>2. Len(a) + Len(b) = 3 BY ONLY <2>2
      <3> QED BY ONLY <2>2, <3>1, <3>2
    <2>5. (a \o b)[1] = type /\ (a \o b)[2] = key /\ (a \o b)[3] = hash
      BY ONLY <2>3, <2>4
    <2>6. a \o b = c BY ONLY <2>2, <2>3, <2>4, <2>5
    <2> QED BY ONLY <2>1, <2>6 DEF Sign, FromElliptic, SignHash, a, b, c
  <1> DEFINE s == <<type, key, hash>>
  <1>2. Len(s) = 3 /\ s[1] = type /\ Tail(s)[1] = key /\ Tail(s)[2] = hash OBVIOUS
  <1> HIDE DEF s
  <1>3. GetSignerType(s) = type BY <1>2 DEF GetSignerType, IsSignature
  <1>4. GetPublicKeyFromSignature(hash, s) = GetPublicKeyFromPrivateKey(key)
    BY <1>2 DEF GetPublicKeyFromSignature, IsSignature, GetElliptic
  <1> QED BY <1>1, <1>3, <1>4 DEF FromSignature, Address, s

\* The fields of a block that are hashed.
LEMMA HashedKeys ==
    /\ \A i \in {1, 2, 3, 5, 6, 8} : ~Settings("Block")[i].hashRemove
    /\ \A i \in {4, 7} : Settings("Block")[i].hashRemove
    /\ \A i \in {1, 3, 4, 5, 6, 7} : ~Settings("Transaction")[i].hashRemove
    /\ \A i \in {2, 8} : Settings("Transaction")[i].hashRemove
  <1>1. \A key, len : BE(key, len).hashRemove = FALSE BY Zenon DEF BE, Field
  <1>2. \A key, len : Unhashed(key, len).hashRemove = TRUE BY Zenon DEF Unhashed, Field
  <1>3. \A key : BigInt(key).hashRemove = FALSE /\ Custom(key).hashRemove = FALSE
    BY Zenon DEF BigInt, Custom, Field
  <1>4. \A key, target : Object(key, target).hashRemove = FALSE
    BY Zenon DEF Object, Field
  <1> DEFINE In(class, i) == Settings(class)[i].hashRemove
  <1>5. In("Block", 1) = FALSE /\ In("Block", 2) = FALSE /\ In("Block", 3) = FALSE /\ In("Block", 5) = FALSE
    BY ONLY <1>1, <1>3, BlockFieldsAre
  <1>6. In("Block", 6) = FALSE /\ In("Block", 8) = FALSE /\ In("Block", 4) = TRUE /\ In("Block", 7) = TRUE
    BY ONLY <1>2, <1>3, <1>4, BlockFieldsAre
  <1>7. In("Transaction", 1) = FALSE /\ In("Transaction", 3) = FALSE /\ In("Transaction", 4) = FALSE /\ In("Transaction", 5) = FALSE
    BY ONLY <1>1, <1>3, TransactionFieldsAre
  <1>8. In("Transaction", 6) = FALSE /\ In("Transaction", 7) = FALSE /\ In("Transaction", 2) = TRUE /\ In("Transaction", 8) = TRUE
    BY ONLY <1>2, <1>3, TransactionFieldsAre
  <1> QED BY ONLY <1>5, <1>6, <1>7, <1>8

LEMMA KeysAre == BlockKeysAre /\ TransactionKeysAre
  BY KeysOfFields, BlockFieldsAre, TransactionFieldsAre DEF KeyOf, BlockKeysAre, TransactionKeysAre

LEMMA HashSame ==
    ASSUME NEW a, NEW b, \A key \in HashedBlockKeys : a[key] = b[key]
    PROVE  CalculateHash("Block", a) = CalculateHash("Block", b)
  <1> DEFINE h(o, i) == IF Settings("Block")[i].hashRemove THEN << >>
                        ELSE EncField(4, Settings("Block")[i], o[KeyOf("Block", i)])
  <1>1. ASSUME NEW i \in 1..8 PROVE h(a, i) = h(b, i)
    <2>1. i \in {1, 2, 3, 5, 6, 8} \/ i \in {4, 7} OBVIOUS
    <2>2. i \in {1, 2, 3, 5, 6, 8} => KeyOf("Block", i) \in HashedBlockKeys
      BY KeysAre DEF BlockKeysAre, HashedBlockKeys
    <2>3. i \in {4, 7} => h(a, i) = << >> /\ h(b, i) = << >> BY HashedKeys
    <2>4. i \in {1, 2, 3, 5, 6, 8} => a[KeyOf("Block", i)] = b[KeyOf("Block", i)]
      BY <2>2
    <2> QED BY ONLY <2>1, <2>3, <2>4
  <1>2. DOMAIN Settings("Block") = 1..8 BY FieldsOfSettings, BlockFieldsAre DEF Classes
  <1>3. \A o : HashFields("Block", o) = [i \in 1..8 |-> h(o, i)]
    BY ONLY <1>2 DEF HashFields, KeyOf
  <1> HIDE DEF h
  <1>4. HashFields("Block", a) = HashFields("Block", b) BY ONLY <1>1, <1>3
  <1> QED BY ONLY <1>4, EncIs DEF CalculateHash

LEMMA TransactionIsRead ==
    ASSUME NEW t, IsTransaction(t)
    PROVE  /\ t \in ReadTransactions
           /\ t.txid = <<CalculateHash("Transaction", t)>> /\ t.input \in Seq(Digit)
           /\ t.recipientAddress \in AddressWords
           /\ \E key : t.signature = <<<<0, key, t.txid[1]>>>>
  <1> DEFINE hash == CalculateHash("Transaction", t)
  <1>1. PICK key \in Keys \cup {0} : t.senderAddress = Address(0, key) /\ t = Signed(t, 0, key, "Transaction")
    BY DEF IsTransaction
  <1>2. t \in [ version : {Digits(0, 1)}, txid : Words(1),
                senderAddress : {Address(0, k) : k \in Keys \cup {0}},
                recipientAddress : AddressWords, amount : Numbers, nonce : Numbers, timestamp : Numbers,
                input : Seq(Digit), signature : Words(1) ]
    BY DEF IsTransaction
  <1>3. Signed(t, 0, key, "Transaction") = [t EXCEPT !.txid = <<hash>>, !.signature = <<Sign(hash, 0, key)>>]
    BY DEF Signed
  <1> HIDE DEF hash
  <1>4. t.txid = <<hash>> /\ t.signature = <<Sign(hash, 0, key)>>
    <2>1. t = [t EXCEPT !.txid = <<hash>>, !.signature = <<Sign(hash, 0, key)>>]
      BY ONLY <1>1, <1>3
    <2> DEFINE u == <<hash>>
               v == <<Sign(hash, 0, key)>>
    <2> HIDE DEF u, v
    <2>2. t = [t EXCEPT !.txid = u, !.signature = v] BY <2>1 DEF u, v
    <2>3. [t EXCEPT !.txid = u, !.signature = v].txid = u /\ [t EXCEPT !.txid = u, !.signature = v].signature = v
      BY ONLY <1>2
    <2> QED BY ONLY <2>2, <2>3 DEF u, v
  <1>5. t.txid[1] = hash /\ t.signature[1] = Sign(hash, 0, key) BY ONLY <1>4
  <1> DEFINE data == [t EXCEPT !.senderAddress = << >>]
  <1>6. FromSignature(t.txid[1], t.signature[1]) = t.senderAddress
    BY ONLY <1>1, <1>5, SignerIsFound
  <1>7. data \in TransactionData
    <2>1. AddressWords \subseteq Words(1) /\ Seq(Digit) \subseteq Seq(Elements)
      BY ElementFacts, SeqMonotonic DEF AddressWords
    <2> QED BY <1>2, <2>1 DEF TransactionData
  <1>8. data.txid = t.txid /\ data.signature = t.signature /\ [data EXCEPT !.senderAddress = t.senderAddress] = t
    BY ONLY <1>2
  <1>9. TransactionFromDict(data).data = t
    <2> HIDE DEF data
    <2>1. TransactionFromDict(data) = Decoded([data EXCEPT !.senderAddress = FromSignature(data.txid[1], data.signature[1])], 0)
      BY DEF TransactionFromDict
    <2>2. TransactionFromDict(data) = Decoded(t, 0) BY ONLY <1>6, <1>8, <2>1
    <2> QED BY ONLY <2>2, Outcomes
  <1>10. t \in ReadTransactions
    <2> HIDE DEF data
    <2> QED BY ONLY <1>7, <1>9 DEF ReadTransactions
  <1>11. Sign(hash, 0, key) = <<0, key, hash>> BY SignerIsFound
  <1> QED BY ONLY <1>2, <1>4, <1>5, <1>10, <1>11 DEF hash

LEMMA BlockIsTyped ==
    ASSUME NEW b, IsBlock(b)
    PROVE  /\ b \in [ version : {Digits(0, 1)}, index : Numbers, slotIndex : Numbers, hash : Words(1),
                      previousHash : HashWords, timestamp : Numbers, minter : {b.minter}, signature : Words(1),
                      body : Bodies(Lists) ]
           /\ \E key : IsMinted(b, key)
           /\ \A i \in 1..Len(b.body.transactions) : IsTransaction(b.body.transactions[i])
  <1> DEFINE list == b.body.transactions
             T == {list[i] : i \in DOMAIN list}
             previous == b.previousHash[1]
  <1>1. PICK key \in Keys : b = CreateNewBlock(b.index, b.slotIndex, previous, b.timestamp, key, list)
    BY DEF IsBlock
  <1>2. /\ b.index \in Numbers /\ b.slotIndex \in Numbers /\ b.timestamp \in Numbers
        /\ b.hash \in Words(1) /\ b.signature \in Words(1) /\ b.previousHash \in HashWords
        /\ \A i \in DOMAIN list : IsTransaction(list[i])
        /\ list \in Seq(T)
    BY DEF IsBlock
  <1>3. list \in Lists /\ \A i \in 1..Len(list) : IsTransaction(list[i])
    <2>1. T \subseteq ReadTransactions BY <1>2, TransactionIsRead
    <2>2. DOMAIN list = 1..Len(list)
      <3> HIDE DEF T
      <3> QED BY <1>2
    <2> HIDE DEF T
    <2> QED BY <1>2, <2>1, <2>2, SeqMonotonic DEF Lists
  <1> DEFINE pre == [ version      |-> Digits(0, 1),
                      index        |-> b.index,
                      slotIndex    |-> b.slotIndex,
                      hash         |-> << >>,
                      previousHash |-> <<previous>>,
                      timestamp    |-> b.timestamp,
                      minter       |-> Address(MinterType, key),
                      signature    |-> << >>,
                      body         |-> [transactions |-> list] ]
             hash == CalculateHash("Block", pre)
             sig == <<Sign(hash, MinterType, key)>>
             word == <<hash>>
  <1>4. b = [pre EXCEPT !.hash = word, !.signature = sig]
    <2>1. Credentials(key).privateKey = key /\ Credentials(key).address = Address(MinterType, key)
      BY DEF Credentials
    <2>2. CreateNewBlock(b.index, b.slotIndex, previous, b.timestamp, key, list) = Signed(pre, MinterType, key, "Block")
      BY <2>1, Zenon DEF CreateNewBlock
    <2> HIDE DEF pre
    <2>3. Signed(pre, MinterType, key, "Block") = [pre EXCEPT !.hash = word, !.signature = sig]
      BY DEF Signed
    <2> QED BY ONLY <1>1, <2>2, <2>3
  <1> HIDE DEF list, T, hash, sig, word, previous
  <1>5. /\ b = [ version |-> Digits(0, 1), index |-> b.index, slotIndex |-> b.slotIndex, hash |-> word,
                 previousHash |-> <<previous>>, timestamp |-> b.timestamp, minter |-> Address(MinterType, key),
                 signature |-> sig, body |-> [transactions |-> list] ]
    BY ONLY <1>4
  <1>6. /\ b.version = Digits(0, 1) /\ b.hash = word /\ b.minter = Address(MinterType, key) /\ b.signature = sig
        /\ b.body = [transactions |-> list]
    BY ONLY <1>5
  <1>7. b.body \in Bodies(Lists) BY ONLY <1>3, <1>6 DEF Bodies
  <1>8. b \in [ version : {Digits(0, 1)}, index : Numbers, slotIndex : Numbers, hash : Words(1),
                previousHash : HashWords, timestamp : Numbers, minter : {b.minter}, signature : Words(1),
                body : Bodies(Lists) ]
    <2>1. b = [ version |-> b.version, index |-> b.index, slotIndex |-> b.slotIndex, hash |-> b.hash,
                previousHash |-> b.previousHash, timestamp |-> b.timestamp, minter |-> b.minter,
                signature |-> b.signature, body |-> b.body ]
      BY ONLY <1>5
    <2> QED BY ONLY <1>2, <1>6, <1>7, <2>1
  <1>9. CalculateHash("Block", b) = hash
    <2>1. \A k \in HashedBlockKeys : b[k] = pre[k] BY ONLY <1>5 DEF HashedBlockKeys
    <2> QED BY ONLY <2>1, HashSame DEF hash
  <1>10. IsMinted(b, key)
    <2>1. sig = <<<<MinterType, key, hash>>>> BY ONLY SignerIsFound DEF sig
    <2>2. b.hash[1] = hash BY ONLY <1>6 DEF word
    <2>3. key \in Keys BY <1>1
    <2> QED BY ONLY <1>6, <1>9, <2>1, <2>2, <2>3 DEF IsMinted, word
  <1> QED BY ONLY <1>3, <1>8, <1>10 DEF list

LEMMA BlockIsRead ==
    ASSUME NEW b, IsBlock(b)
    PROVE  /\ b \in ReadBlocks(Lists)
           /\ Cut(Len(b.body.transactions), Base, PrefixLength) = 0 => b \in ReadBlocks(ShortLists)
  <1>1. PICK key : IsMinted(b, key) BY BlockIsTyped
  <1>2. b \in [ version : {Digits(0, 1)}, index : Numbers, slotIndex : Numbers, hash : Words(1),
                previousHash : HashWords, timestamp : Numbers, minter : {b.minter}, signature : Words(1),
                body : Bodies(Lists) ]
    BY BlockIsTyped
  <1> DEFINE data == [b EXCEPT !.minter = << >>]
             empty == << >>
  <1>3. data = [b EXCEPT !.minter = empty] OBVIOUS
  <1> HIDE DEF data, empty
  <1>4. /\ data.signature = b.signature /\ [data EXCEPT !.minter = b.minter] = b
        /\ \A k \in HashedBlockKeys : data[k] = b[k]
    BY ONLY <1>2, <1>3 DEF HashedBlockKeys
  <1>5. FromSignature(CalculateHash("Block", data), data.signature[1]) = b.minter
    <2>1. CalculateHash("Block", data) = CalculateHash("Block", b)
      BY ONLY <1>4, HashSame
    <2> DEFINE h == CalculateHash("Block", b)
               s == <<MinterType, key, h>>
    <2>2. b.hash[1] = h BY ONLY <1>1 DEF IsMinted
    <2> HIDE DEF h
    <2>3. b.signature[1] = s BY ONLY <1>1, <2>2 DEF IsMinted
    <2>4. FromSignature(h, s) = Address(MinterType, key)
      <3>1. Sign(h, MinterType, key) = s /\ FromSignature(h, Sign(h, MinterType, key)) = Address(MinterType, key)
        BY ONLY SignerIsFound
      <3> QED BY ONLY <3>1
    <2>5. b.minter = Address(MinterType, key) BY ONLY <1>1 DEF IsMinted
    <2> QED BY ONLY <1>4, <2>1, <2>3, <2>4, <2>5 DEF h
  <1>6. BlockFromDict(data).data = b
    <2>1. BlockFromDict(data) = Decoded([data EXCEPT !.minter = FromSignature(CalculateHash("Block", data), data.signature[1])], 0)
      BY DEF BlockFromDict
    <2>2. BlockFromDict(data) = Decoded(b, 0) BY ONLY <1>4, <1>5, <2>1
    <2> QED BY ONLY <2>2, Outcomes
  <1>7. ASSUME NEW L, b.body \in Bodies(L) PROVE b \in ReadBlocks(L)
    <2>1. data \in BlockData(L)
      <3>1. HashWords \subseteq Words(1) BY DEF HashWords
      <3> QED BY <1>2, <1>3, <1>7, <3>1 DEF BlockData, empty
    <2> QED BY ONLY <1>6, <2>1 DEF ReadBlocks
  <1>8. b.body \in Bodies(Lists) BY ONLY <1>2
  <1>9. Cut(Len(b.body.transactions), Base, PrefixLength) = 0 => b.body \in Bodies(ShortLists)
    BY ONLY <1>8 DEF Bodies, ShortLists
  <1> QED BY ONLY <1>7, <1>8, <1>9

-------------------------------------------------------------------------------
(***************************************************************************)
(* One hash, one object: what is hashed can be taken apart again.          *)
(***************************************************************************)

LEMMA SameBehind ==
    ASSUME NEW S, NEW u \in Seq(S), NEW x \in Seq(S), NEW y \in Seq(S), u \o x = u \o y
    PROVE  x = y
  <1>1. From(u \o x, Len(u)) = x /\ From(u \o y, Len(u)) = y BY PartsOfBoth
  <1> QED BY ONLY <1>1, u \o x = u \o y

LEMMA JoinedApart ==
    ASSUME NEW S, NEW c \in Seq(Seq(S)), NEW e \in Seq(Seq(S)), FlattenSeq(c) = FlattenSeq(e),
           NEW m \in Nat, FirstSeparate(S, c, e, m)
    PROVE  JoinedUpto(c, m) = JoinedUpto(e, m) /\ \A i \in 1..m : c[i] = e[i]
  <1> DEFINE Q == Seq(S)
             a(i) == JoinedUpto(c, i)
             b(i) == JoinedUpto(e, i)
             all == FlattenSeq(c)
             I == {i \in Nat : i <= m => a(i) = b(i) /\ \A j \in 1..i : c[j] = e[j]}
  <1>1. /\ Len(c) \in Nat /\ a(0) = << >> /\ (\A i \in 0..Len(c) : a(i) \in Q)
        /\ \A i \in 1..Len(c) : c[i] \in Q /\ a(i) = a(i - 1) \o c[i]
    BY JoinSteps
  <1>2. /\ Len(e) \in Nat /\ b(0) = << >> /\ (\A i \in 0..Len(e) : b(i) \in Q)
        /\ \A i \in 1..Len(e) : e[i] \in Q /\ b(i) = b(i - 1) \o e[i]
    BY JoinSteps
  <1>3. /\ \A i \in 0..Len(c) : \E rest \in Q : all = a(i) \o rest
        /\ \A i \in 0..Len(e) : \E rest \in Q : all = b(i) \o rest
    BY JoinRest
  <1>4. \A u, v, w \in Q : (u \o v) \o w = u \o (v \o w)
    BY ONLY Concats, ZenonT(40) DEF Q
  <1>5. \A u, v \in Q : u \o v \in Q BY ONLY Concats DEF Q
  <1>6. \A u, v, w \in Q : u \o v = u \o w => v = w BY ONLY SameBehind DEF Q
  <1>7. \A i \in 1..m : \A s, t \in Q : c[i] \o s = e[i] \o t => c[i] = e[i]
    BY DEF FirstSeparate, Separates
  <1>8. m \in Nat /\ m <= Len(c) /\ m <= Len(e) BY DEF FirstSeparate
  <1> HIDE DEF Q, a, b, all
  <1>9. 0 \in I BY ONLY <1>1, <1>2
  <1>10. ASSUME NEW i \in Nat, i \in I PROVE i + 1 \in I
    <2> SUFFICES ASSUME i + 1 <= m PROVE a(i + 1) = b(i + 1) /\ \A j \in 1..(i + 1) : c[j] = e[j]
      OBVIOUS
    <2>1. i <= m BY ONLY <1>8, i + 1 <= m, i \in Nat
    <2>2. a(i) = b(i) /\ \A j \in 1..i : c[j] = e[j] BY ONLY <1>10, <2>1
    <2>3. /\ i \in 0..Len(c) /\ i \in 0..Len(e) /\ i + 1 \in 1..Len(c) /\ i + 1 \in 1..Len(e) /\ i + 1 \in 1..m
          /\ i + 1 \in 0..Len(c) /\ i + 1 \in 0..Len(e) /\ (i + 1) - 1 = i
      BY ONLY <1>1, <1>2, <1>8, i + 1 <= m, i \in Nat
    <2> DEFINE u == a(i)
               x == c[i + 1]
               y == e[i + 1]
    <2>4. u \in Q /\ x \in Q /\ y \in Q /\ a(i + 1) = u \o x /\ b(i + 1) = u \o y
      BY ONLY <1>1, <1>2, <2>2, <2>3
    <2>5. PICK r \in Q : all = (u \o x) \o r BY ONLY <1>3, <2>3, <2>4
    <2>6. PICK s \in Q : all = (u \o y) \o s BY ONLY <1>3, <2>3, <2>4
    <2> HIDE DEF u, x, y
    <2>7. (u \o x) \o r = u \o (x \o r)
      <3>1. u \in Q /\ x \in Q /\ r \in Q BY ONLY <2>4, <2>5
      <3> QED BY ONLY <1>4, <3>1, ZenonT(40)
    <2>8. (u \o y) \o s = u \o (y \o s)
      <3>1. u \in Q /\ y \in Q /\ s \in Q BY ONLY <2>4, <2>6
      <3> QED BY ONLY <1>4, <3>1, ZenonT(40)
    <2>9. x \o r \in Q /\ y \o s \in Q BY ONLY <1>5, <2>4, <2>5, <2>6
    <2>10. x \o r = y \o s BY ONLY <1>6, <2>4, <2>5, <2>6, <2>7, <2>8, <2>9
    <2>11. c[i + 1] = e[i + 1] BY ONLY <1>7, <2>3, <2>5, <2>6, <2>10 DEF x, y
    <2>12. \A j \in 1..(i + 1) : j \in 1..i \/ j = i + 1 BY ONLY i \in Nat
    <2>13. a(i + 1) = b(i + 1) BY ONLY <2>4, <2>11 DEF x, y
    <2> QED BY ONLY <2>2, <2>11, <2>12, <2>13
  <1> HIDE DEF I
  <1>11. \A i \in Nat : i \in I BY ONLY <1>9, <1>10, SetInduction
  <1>12. m \in I BY ONLY <1>8, <1>11
  <1> QED BY <1>12 DEF I, a, b

\* If the others are the same, so is the last.
LEMMA LastApart ==
    ASSUME NEW S, NEW c \in Seq(Seq(S)), NEW e \in Seq(Seq(S)), FlattenSeq(c) = FlattenSeq(e),
           NEW n \in Nat \ {0}, Len(c) = n, Len(e) = n,
           NEW m, m = n - 1, JoinedUpto(c, m) = JoinedUpto(e, m)
    PROVE  c[n] = e[n]
  <1>1. /\ Len(c) \in Nat /\ (\A i \in 0..Len(c) : JoinedUpto(c, i) \in Seq(S))
        /\ (\A i \in 1..Len(c) : c[i] \in Seq(S) /\ JoinedUpto(c, i) = JoinedUpto(c, i - 1) \o c[i])
        /\ FlattenSeq(c) = JoinedUpto(c, Len(c))
    BY JoinSteps
  <1>2. /\ (\A i \in 1..Len(e) : e[i] \in Seq(S) /\ JoinedUpto(e, i) = JoinedUpto(e, i - 1) \o e[i])
        /\ FlattenSeq(e) = JoinedUpto(e, Len(e))
    BY JoinSteps
  <1>3. n \in 1..n /\ n - 1 \in 0..n OBVIOUS
  <1> DEFINE u == JoinedUpto(c, n - 1)
  <1>4. u \in Seq(S) /\ c[n] \in Seq(S) /\ e[n] \in Seq(S) /\ u \o c[n] = u \o e[n]
    BY <1>1, <1>2, <1>3
  <1> QED BY ONLY <1>4, SameBehind

LEMMA BackSeparates ==
    ASSUME NEW d, NEW field, NEW x, NEW y, NEW v, NEW w, FieldBack(d, field, x, v), FieldBack(d, field, y, w),
           v = w => x = y
    PROVE  Separates(Elements, x, y) /\ (x = y => v = w)
  <1>1. /\ x \in Seq(Elements) /\ \A t \in Seq(Elements) : DecodeField(d, field, x \o t) = Decoded(v, Len(x))
        /\ y \in Seq(Elements) /\ \A t \in Seq(Elements) : DecodeField(d, field, y \o t) = Decoded(w, Len(y))
    BY DEF FieldBack
  <1>2. ASSUME NEW s \in Seq(Elements), NEW t \in Seq(Elements), x \o s = y \o t PROVE v = w
    <2>1. s \in Seq(Elements) /\ t \in Seq(Elements) /\ x \o s = y \o t BY <1>2
    <2>2. Decoded(v, Len(x)) = Decoded(w, Len(y))
      <3> DEFINE p == x \o s
                 q == y \o t
      <3>1. DecodeField(d, field, p) = Decoded(v, Len(x)) /\ DecodeField(d, field, q) = Decoded(w, Len(y)) /\ p = q
        BY ONLY <1>1, <2>1
      <3> HIDE DEF p, q
      <3> QED BY ONLY <3>1
    <2> QED BY ONLY <2>2, Outcomes
  <1>3. << >> \in Seq(Elements) OBVIOUS
  <1>4. x = y => v = w BY ONLY <1>2, <1>3
  <1>5. v = w => x = y OBVIOUS
  <1> QED BY ONLY <1>2, <1>4, <1>5 DEF Separates

LEMMA PartSeparates ==
    ASSUME NEW d, NEW class, NEW x, NEW y, NEW v, NEW w, Back(d, class, x, v), Back(d, class, y, w),
           v = w => x = y
    PROVE  Separates(Elements, x, y) /\ (x = y => v = w)
  <1>1. /\ x \in Seq(Elements) /\ \A t \in Seq(Elements) : d[<<class, x \o t>>] = Decoded(v, Len(x))
        /\ y \in Seq(Elements) /\ \A t \in Seq(Elements) : d[<<class, y \o t>>] = Decoded(w, Len(y))
    BY DEF Back
  <1>2. ASSUME NEW s \in Seq(Elements), NEW t \in Seq(Elements), x \o s = y \o t PROVE v = w
    <2>1. s \in Seq(Elements) /\ t \in Seq(Elements) /\ x \o s = y \o t BY <1>2
    <2>2. Decoded(v, Len(x)) = Decoded(w, Len(y))
      <3> DEFINE p == x \o s
                 q == y \o t
      <3>1. d[<<class, p>>] = Decoded(v, Len(x)) /\ d[<<class, q>>] = Decoded(w, Len(y)) /\ p = q
        BY ONLY <1>1, <2>1
      <3> HIDE DEF p, q
      <3> QED BY ONLY <3>1
    <2> QED BY ONLY <2>2, Outcomes
  <1>3. << >> \in Seq(Elements) OBVIOUS
  <1>4. x = y => v = w BY ONLY <1>2, <1>3
  <1>5. v = w => x = y OBVIOUS
  <1> QED BY ONLY <1>2, <1>4, <1>5 DEF Separates

LEMMA TransactionCodes ==
    ASSUME NEW o \in ReadTransactions
    PROVE  /\ Back(Decoder(NoDecoder), "Transaction", Enc(3, "Transaction", o), o)
           /\ Enc(3, "Transaction", o) \in Seq(Elements) /\ Len(Enc(3, "Transaction", o)) > 0
  <1>1. 2 \in 0..4 /\ 2 + 1 = 3 OBVIOUS
  <1> DEFINE e == Enc(3, "Transaction", o)
             fields == EncFields(2, "Transaction", o)
             f(i) == EncField(2, Settings("Transaction")[i], o[KeyOf("Transaction", i)])
  <1>2. FieldsAreBack(NoDecoder, 2, "Transaction", o) /\ Back(Decoder(NoDecoder), "Transaction", Enc(2 + 1, "Transaction", o), o)
    BY ONLY <1>1, TransactionBack, o \in ReadTransactions
  <1>3. Back(Decoder(NoDecoder), "Transaction", e, o) BY ONLY <1>1, <1>2
  <1>4. e \in Seq(Elements) BY ONLY <1>3 DEF Back
  <1>5. e = FlattenSeq(fields)
    <2>1. Enc(2 + 1, "Transaction", o) = FlattenSeq(fields) BY ONLY <1>1, EncIs
    <2> QED BY ONLY <1>1, <2>1
  <1>6. DOMAIN Settings("Transaction") = 1..8
    BY FieldsOfSettings, TransactionFieldsAre DEF Classes
  <1>7. fields = [i \in 1..8 |-> f(i)] BY ONLY <1>6 DEF EncFields, KeyOf
  <1>8. \A i \in 1..8 : f(i) \in Seq(Elements)
    BY ONLY <1>2, TransactionFieldsAre DEF FieldsAreBack, FieldBack
  <1>9. f(1) = o.version
    BY KeysAre, TransactionFieldsAre, KeysOfFields DEF EncField, TransactionKeysAre
  <1>10. Len(o.version) = 1 BY ReadTransaction, VersionWord
  <1> HIDE DEF e, f
  <1> DEFINE Q == Seq(Elements)
  <1> HIDE DEF Q
  <1>11. [i \in 1..8 |-> f(i)] \in Seq(Q) /\ Len([i \in 1..8 |-> f(i)]) = 8
    BY ONLY <1>8 DEF Q
  <1>12. fields \in Seq(Seq(Elements)) /\ Len(fields) = 8 /\ Len(fields[1]) = 1
    <2>1. fields[1] = f(1)
      <3>1. 1 \in 1..8 OBVIOUS
      <3> HIDE DEF fields
      <3> QED BY ONLY <1>7, <3>1
    <2> QED BY ONLY <1>7, <1>9, <1>10, <1>11, <2>1 DEF Q
  <1> HIDE DEF fields
  <1>13. PICK r \in Seq(Elements) : FlattenSeq(fields) = JoinedUpto(fields, 1) \o r
    <2>1. 1 \in 0..Len(fields) BY <1>12
    <2> QED BY ONLY <1>12, <2>1, JoinRest
  <1>14. JoinedUpto(fields, 1) \in Seq(Elements) /\ Len(JoinedUpto(fields, 1)) = 1
    <2>1. 1 \in 1..Len(fields) /\ 1 - 1 = 0 /\ 0 \in 0..Len(fields) /\ 1 \in 0..Len(fields)
      BY ONLY <1>12
    <2>2. /\ JoinedUpto(fields, 0) = << >> /\ JoinedUpto(fields, 1) \in Seq(Elements)
          /\ fields[1] \in Seq(Elements) /\ JoinedUpto(fields, 1) = JoinedUpto(fields, 1 - 1) \o fields[1]
      BY ONLY <1>12, <2>1, JoinSteps
    <2>3. << >> \o fields[1] = fields[1] BY ONLY <2>2, Concats
    <2> QED BY ONLY <1>12, <2>1, <2>2, <2>3
  <1>15. Len(JoinedUpto(fields, 1) \o r) = 1 + Len(r) /\ Len(r) \in Nat
    <2> DEFINE u == JoinedUpto(fields, 1)
    <2>1. u \in Seq(Elements) /\ r \in Seq(Elements) /\ Len(u) = 1 BY <1>13, <1>14
    <2> HIDE DEF u
    <2>2. Len(u \o r) = Len(u) + Len(r) /\ Len(r) \in Nat BY ONLY <2>1, Concats
    <2> QED BY ONLY <2>1, <2>2 DEF u
  <1>16. Len(e) > 0 BY ONLY <1>5, <1>13, <1>15
  <1> QED BY <1>3, <1>4, <1>16 DEF e

LEMMA CodesAre ==
    ASSUME NEW list \in Lists
    PROVE  /\ Codes(list) \in Seq(Seq(Elements)) /\ Len(Codes(list)) = Len(list) /\ Len(list) \in Nat
           /\ \A i \in 1..Len(list) : Codes(list)[i] = Enc(3, "Transaction", list[i]) /\ list[i] \in ReadTransactions
  <1>1. list \in Seq(ReadTransactions) BY DEF Lists
  <1>2. DOMAIN list = 1..Len(list) /\ Len(list) \in Nat BY <1>1
  <1>3. \A i \in 1..Len(list) : list[i] \in ReadTransactions BY ONLY <1>1, ElementOfSeq
  <1>4. \A i \in 1..Len(list) : Enc(3, "Transaction", list[i]) \in Seq(Elements)
    BY ONLY <1>3, TransactionCodes
  <1>5. Codes(list) \in Seq(Seq(Elements)) /\ Len(Codes(list)) = Len(list)
    BY ONLY <1>1, <1>4, CodesOf DEF Codes
  <1>6. \A i \in 1..Len(list) : Codes(list)[i] = Enc(3, "Transaction", list[i])
    BY ONLY <1>2 DEF Codes
  <1> QED BY ONLY <1>2, <1>3, <1>5, <1>6

LEMMA ShorterSame ==
    ASSUME NEW a \in Lists, NEW b \in Lists, Len(a) <= Len(b), FlattenSeq(Codes(a)) = FlattenSeq(Codes(b))
    PROVE  a = b
  <1> DEFINE c == Codes(a)
             e == Codes(b)
             m == Len(a)
  <1>1. /\ c \in Seq(Seq(Elements)) /\ Len(c) = m /\ m \in Nat
        /\ e \in Seq(Seq(Elements)) /\ Len(e) = Len(b) /\ Len(b) \in Nat
        /\ \A i \in 1..m : c[i] = Enc(3, "Transaction", a[i]) /\ a[i] \in ReadTransactions
        /\ \A i \in 1..Len(b) : e[i] = Enc(3, "Transaction", b[i]) /\ b[i] \in ReadTransactions
    BY CodesAre
  <1>2. m <= Len(b) /\ FlattenSeq(c) = FlattenSeq(e) OBVIOUS
  <1> HIDE DEF c, e, m
  <1>3. ASSUME NEW i \in 1..m PROVE Separates(Elements, c[i], e[i]) /\ (c[i] = e[i] => a[i] = b[i])
    <2>1. i \in 1..Len(b) BY ONLY <1>1, <1>2, i \in 1..m
    <2>2. /\ Back(Decoder(NoDecoder), "Transaction", c[i], a[i])
          /\ Back(Decoder(NoDecoder), "Transaction", e[i], b[i])
      BY ONLY <1>1, <2>1, i \in 1..m, TransactionCodes
    <2>3. a[i] = b[i] => c[i] = e[i] BY ONLY <1>1, <2>1, i \in 1..m
    <2> QED BY ONLY <2>2, <2>3, PartSeparates
  <1>4. JoinedUpto(c, m) = JoinedUpto(e, m) /\ \A i \in 1..m : c[i] = e[i]
    <2>1. m \in Nat /\ c \in Seq(Seq(Elements)) /\ e \in Seq(Seq(Elements)) /\ FlattenSeq(c) = FlattenSeq(e)
      BY ONLY <1>1, <1>2
    <2>2. m <= Len(c) /\ m <= Len(e) BY ONLY <1>1, <1>2
    <2>3. FirstSeparate(Elements, c, e, m) BY ONLY <1>3, <2>2 DEF FirstSeparate
    <2> QED BY ONLY <2>1, <2>3, JoinedApart
  <1>5. Len(b) = m
    <2>0. m \in Nat /\ Len(b) \in Nat /\ m <= Len(b) BY ONLY <1>1, <1>2
    <2> SUFFICES ASSUME m < Len(b) PROVE FALSE BY <2>0
    <2>1. m \in 0..Len(e) /\ m + 1 \in 1..Len(e) /\ m + 1 \in 0..Len(e) /\ (m + 1) - 1 = m /\ m \in 0..Len(c) /\ m + 1 \in 1..Len(b)
      BY ONLY <1>1, m < Len(b)
    <2> DEFINE u == JoinedUpto(e, m)
               x == e[m + 1]
    <2>2. /\ u \in Seq(Elements) /\ x \in Seq(Elements) /\ JoinedUpto(e, m + 1) = u \o x
      BY ONLY <1>1, <2>1, JoinSteps
    <2>3. FlattenSeq(c) = JoinedUpto(c, m) BY ONLY <1>1, JoinSteps
    <2>4. PICK r \in Seq(Elements) : FlattenSeq(e) = JoinedUpto(e, m + 1) \o r
      BY ONLY <1>1, <2>1, JoinRest
    <2>5. Len(x) > 0 BY ONLY <1>1, <2>1, TransactionCodes
    <2> HIDE DEF u, x
    <2>6. u = (u \o x) \o r BY ONLY <1>2, <1>4, <2>2, <2>3, <2>4 DEF u
    <2>7. u \o x \in Seq(Elements) /\ Len(u \o x) = Len(u) + Len(x) /\ Len((u \o x) \o r) = Len(u \o x) + Len(r)
      BY ONLY <2>2, <2>4, Concats
    <2>8. Len(u) \in Nat /\ Len(x) \in Nat /\ Len(r) \in Nat BY ONLY <2>2, <2>4, Concats
    <2>9. Len(u) = Len((u \o x) \o r) BY ONLY <2>6
    <2> QED BY ONLY <2>5, <2>7, <2>8, <2>9
  <1>6. \A i \in 1..m : a[i] = b[i] BY ONLY <1>3, <1>4
  <1>7. a \in Seq(ReadTransactions) /\ b \in Seq(ReadTransactions) BY DEF Lists
  <1>8. Len(a) = Len(b) /\ \A i \in 1..Len(a) : a[i] = b[i] BY ONLY <1>5, <1>6 DEF m
  <1> QED BY ONLY <1>7, <1>8, SeqEqual

LEMMA ListsSame ==
    ASSUME NEW a \in Lists, NEW b \in Lists, FlattenSeq(Codes(a)) = FlattenSeq(Codes(b))
    PROVE  a = b
  <1>1. Len(a) <= Len(b) \/ Len(b) <= Len(a) BY CodesAre
  <1> QED BY <1>1, ShorterSame

LEMMA BodyCode ==
    ASSUME NEW list \in Lists
    PROVE  LET code == Enc(4, "BlockBody", [transactions |-> list]) IN
           /\ code = Digits(Len(list), PrefixLength) \o FlattenSeq(Codes(list))
           /\ Digits(Len(list), PrefixLength) \in Seq(Elements) /\ FlattenSeq(Codes(list)) \in Seq(Elements)
           /\ Len(Digits(Len(list), PrefixLength)) = PrefixLength /\ code \in Seq(Elements)
  <1> DEFINE C == "BlockBody"
             o == [transactions |-> list]
             count == Digits(Len(list), PrefixLength)
             all == FlattenSeq(Codes(list))
             field == Settings(C)[1]
             fields == EncFields(3, C, o)
             x == count \o all
  <1>1. /\ Len(Settings(C)) = 1 /\ field.kind = "array" /\ field.len = PrefixLength /\ field.target = "Transaction"
        /\ field.key = "transactions"
    BY SettingsAre, KeysOfFields DEF BodySettings
  <1>2. DOMAIN Settings(C) = 1..1 BY <1>1, FieldsOfSettings DEF Classes
  <1>3. count \in Seq(Elements) /\ Len(count) = PrefixLength
    <2>1. Len(list) \in Nat /\ PrefixLength \in Nat BY CodesAre, EncodingAssumption
    <2>2. count \in Seq(Digit) /\ Len(count) = PrefixLength BY <2>1, DigitsOf
    <2> HIDE DEF count
    <2> QED BY <2>2, ElementFacts, SeqMonotonic
  <1>4. all \in Seq(Elements)
    <2>1. Codes(list) \in Seq(Seq(Elements)) BY CodesAre
    <2>2. Len(Codes(list)) \in Nat /\ Len(Codes(list)) \in 0..Len(Codes(list))
      BY ONLY <2>1, JoinSteps
    <2> QED BY ONLY <2>1, <2>2, JoinSteps
  <1>5. EncField(3, field, list) = x
    <2> HIDE DEF field
    <2> QED BY <1>1, Zenon DEF EncField, Codes
  <1>6. o[field.key] = list BY <1>1
  <1>61. x \in Seq(Elements) BY ONLY <1>3, <1>4, Concats
  <1>7. fields = [i \in 1..1 |-> EncField(3, Settings(C)[i], o[Settings(C)[i].key])]
    BY ONLY <1>2 DEF EncFields
  <1> HIDE DEF o, count, all, field, x
  <1>8. fields \in Seq(Seq(Elements)) /\ Len(fields) = 1 /\ fields[1] = x
    <2>1. fields[1] = x BY ONLY <1>5, <1>6, <1>7 DEF field
    <2> HIDE DEF fields
    <2> DEFINE Q == Seq(Elements)
    <2>2. x \in Q BY <1>61
    <2> HIDE DEF Q
    <2>3. DOMAIN fields = 1..1 /\ fields = [i \in 1..1 |-> fields[i]] BY ONLY <1>7
    <2>4. fields \in Seq(Q) /\ Len(fields) = 1
      <3>1. \A i \in 1..1 : fields[i] \in Q BY ONLY <2>1, <2>2
      <3> QED BY ONLY <2>3, <3>1
    <2> QED BY ONLY <2>1, <2>4 DEF Q
  <1>9. Enc(4, C, o) = FlattenSeq(fields)
    <2>1. 3 \in 0..4 /\ 3 + 1 = 4 OBVIOUS
    <2>2. Enc(3 + 1, C, o) = FlattenSeq(fields) BY ONLY <2>1, EncIs
    <2> QED BY ONLY <2>1, <2>2
  <1> HIDE DEF fields
  <1>10. FlattenSeq(fields) = x
    <2>1. 1 \in 1..1 /\ 1 - 1 = 0 OBVIOUS
    <2>2. FlattenSeq(fields) = JoinedUpto(fields, 1) /\ JoinedUpto(fields, 0) = << >> /\ JoinedUpto(fields, 1) = JoinedUpto(fields, 1 - 1) \o fields[1]
      BY ONLY <1>8, <2>1, JoinSteps
    <2>3. << >> \o x = x BY ONLY <1>61, Concats
    <2> QED BY ONLY <1>8, <2>1, <2>2, <2>3
  <1> QED BY ONLY <1>3, <1>4, <1>61, <1>9, <1>10 DEF x, count, all, o

LEMMA HashCodes ==
    ASSUME NEW class \in {"Block", "Transaction"}, NEW o,
           \A i \in 1..8 : ~Settings(class)[i].hashRemove => EncField(4, Settings(class)[i], o[KeyOf(class, i)]) \in Seq(Elements)
    PROVE  /\ HashFields(class, o) \in Seq(Seq(Elements)) /\ Len(HashFields(class, o)) = 8
           /\ \A i \in 1..8 : HashFields(class, o)[i] = HashCode(class, o, i)
           /\ CalculateHash(class, o) = Sha256(FlattenSeq(HashFields(class, o)))
  <1> DEFINE h(i) == HashCode(class, o, i)
             fields == HashFields(class, o)
             Q == Seq(Elements)
  <1>1. << >> \in Q OBVIOUS
  <1>2. \A i \in 1..8 : h(i) \in Q BY <1>1 DEF HashCode
  <1>3. DOMAIN Settings(class) = 1..8
    BY FieldsOfSettings, BlockFieldsAre, TransactionFieldsAre DEF Classes
  <1>4. fields = [i \in 1..8 |-> h(i)] BY ONLY <1>3 DEF HashFields, HashCode, KeyOf
  <1>5. CalculateHash(class, o) = Sha256(FlattenSeq(fields)) BY EncIs DEF CalculateHash
  <1> HIDE DEF Q, h, fields
  <1>6. fields \in Seq(Q) /\ Len(fields) = 8 /\ \A i \in 1..8 : fields[i] = h(i)
    BY ONLY <1>2, <1>4
  <1> QED BY ONLY <1>5, <1>6 DEF Q, h, fields

LEMMA OneInput ==
    ASSUME NEW x, NEW y, Sha256(x) = Sha256(y)
    PROVE  x = y
  <1>1. Sha256(x)[1] = x /\ Sha256(y)[1] = y BY DEF Sha256
  <1> QED BY ONLY <1>1, Sha256(x) = Sha256(y)

LEMMA TransactionOfHash ==
    ASSUME NEW a \in ReadTransactions, NEW b \in ReadTransactions,
           CalculateHash("Transaction", a) = CalculateHash("Transaction", b)
    PROVE  \A key \in HashedTransactionKeys : a[key] = b[key]
  <1> DEFINE C == "Transaction"
             f(i) == Settings(C)[i]
             x(o, i) == EncField(4, f(i), o[KeyOf(C, i)])
             c == HashFields(C, a)
             e == HashFields(C, b)
  <1>1. Len(Settings(C)) = 8 BY TransactionFieldsAre
  <1>2. \A o \in ReadTransactions : \A i \in 1..8 : FieldBack(NoDecoder, f(i), x(o, i), o[KeyOf(C, i)])
    <2>1. 4 \in 0..4 OBVIOUS
    <2>2. \A o \in ReadTransactions : FieldsAreBack(NoDecoder, 4, C, o)
      BY ONLY <2>1, TransactionBack
    <2> QED BY ONLY <1>1, <2>2 DEF FieldsAreBack
  <1>3. \A o \in ReadTransactions : \A i \in 1..8 : x(o, i) \in Seq(Elements)
    BY ONLY <1>2 DEF FieldBack
  <1> HIDE DEF x
  <1>4. \A o \in ReadTransactions :
            /\ HashFields(C, o) \in Seq(Seq(Elements)) /\ Len(HashFields(C, o)) = 8
            /\ \A i \in 1..8 : HashFields(C, o)[i] = HashCode(C, o, i)
            /\ CalculateHash(C, o) = Sha256(FlattenSeq(HashFields(C, o)))
    BY ONLY <1>3, HashCodes DEF x
  <1>5. FlattenSeq(c) = FlattenSeq(e) BY <1>4, OneInput
  <1>6. ASSUME NEW i \in 1..8
        PROVE  /\ Separates(Elements, c[i], e[i])
               /\ ~f(i).hashRemove => (c[i] = e[i] => a[KeyOf(C, i)] = b[KeyOf(C, i)])
    <2>1. c[i] = HashCode(C, a, i) /\ e[i] = HashCode(C, b, i) BY <1>4
    <2>2. CASE f(i).hashRemove
      <3>1. c[i] = e[i] BY ONLY <2>1, <2>2 DEF HashCode
      <3> QED BY ONLY <2>2, <3>1 DEF Separates
    <2>3. CASE ~f(i).hashRemove
      <3>1. c[i] = x(a, i) /\ e[i] = x(b, i) BY ONLY <2>1, <2>3 DEF HashCode, x
      <3>2. FieldBack(NoDecoder, f(i), x(a, i), a[KeyOf(C, i)]) /\ FieldBack(NoDecoder, f(i), x(b, i), b[KeyOf(C, i)])
        BY <1>2
      <3>3. a[KeyOf(C, i)] = b[KeyOf(C, i)] => x(a, i) = x(b, i) BY DEF x
      <3> QED BY ONLY <3>1, <3>2, <3>3, BackSeparates
    <2> QED BY ONLY <2>2, <2>3
  <1>7. c \in Seq(Seq(Elements)) /\ e \in Seq(Seq(Elements)) /\ Len(c) = 8 /\ Len(e) = 8
    BY <1>4
  <1> HIDE DEF c, e, f
  <1>8. \A i \in 1..8 : c[i] = e[i]
    <2>1. FirstSeparate(Elements, c, e, 8) BY ONLY <1>6, <1>7 DEF FirstSeparate
    <2>2. 8 \in Nat OBVIOUS
    <2> QED BY ONLY <1>5, <1>7, <2>1, <2>2, JoinedApart
  <1>9. \A i \in {1, 3, 4, 5, 6, 7} : a[KeyOf(C, i)] = b[KeyOf(C, i)]
    <2>1. \A i \in {1, 3, 4, 5, 6, 7} : ~f(i).hashRemove /\ i \in 1..8
      BY HashedKeys DEF f
    <2> QED BY ONLY <1>6, <1>8, <2>1
  <1> QED BY ONLY <1>9, KeysAre DEF TransactionKeysAre, HashedTransactionKeys

LEMMA BlockOfHash ==
    ASSUME NEW a \in ReadBlocks(Lists), NEW b \in ReadBlocks(Lists),
           CalculateHash("Block", a) = CalculateHash("Block", b)
    PROVE  \A key \in HashedBlockKeys : a[key] = b[key]
  <1> DEFINE C == "Block"
             f(i) == Settings(C)[i]
             x(o, i) == EncField(4, f(i), o[KeyOf(C, i)])
             c == HashFields(C, a)
             e == HashFields(C, b)
  <1>1. \A o \in ReadBlocks(Lists) :
            /\ o.previousHash \in Words(1) /\ o.version = Digits(0, 1)
            /\ {o.index, o.slotIndex, o.timestamp} \subseteq Numbers /\ o.body \in Bodies(Lists)
    BY ReadBlock
  <1>2. /\ f(1).kind = "fixed" /\ f(1).len = 1 /\ f(2).kind = "bigint" /\ f(3).kind = "bigint"
        /\ f(5).kind = "fixed" /\ f(5).len = 1 /\ f(6).kind = "bigint" /\ f(8).kind = "object" /\ f(8).target = "BlockBody"
    BY KeysOfFields, BlockFieldsAre
  <1>3. BlockKeysAre BY KeysAre
  <1> HIDE DEF f
  <1>4. ASSUME NEW o \in ReadBlocks(Lists) PROVE \A i \in {1, 2, 3, 5, 6} : FieldBack(NoDecoder, f(i), x(o, i), o[KeyOf(C, i)])
    <2> DEFINE B(i) == FieldBack(NoDecoder, f(i), x(o, i), o[KeyOf(C, i)])
    <2>1. \A w \in Words(1) : w \in Seq(Elements) /\ Len(w) = 1 BY DEF Words
    <2>2. B(1) BY <1>1, <1>2, <1>3, VersionWord, FixedFieldBack DEF BlockKeysAre
    <2>3. B(5) BY <1>1, <1>2, <1>3, <2>1, FixedFieldBack DEF BlockKeysAre
    <2>4. B(2) /\ B(3) /\ B(6) BY <1>1, <1>2, <1>3, BigIntFieldBack DEF BlockKeysAre
    <2> HIDE DEF B
    <2>5. \A i \in {1, 2, 3, 5, 6} : B(i) BY ONLY <2>2, <2>3, <2>4
    <2> QED BY ONLY <2>5 DEF B
  <1>5. ASSUME NEW o \in ReadBlocks(Lists) PROVE x(o, 8) = Enc(4, "BlockBody", o.body) /\ x(o, 8) \in Seq(Elements)
    <2>1. x(o, 8) = Enc(4, "BlockBody", o.body) BY <1>2, <1>3 DEF BlockKeysAre, EncField
    <2>2. PICK list \in Lists : o.body = [transactions |-> list] BY <1>1 DEF Bodies
    <2> QED BY ONLY <2>1, <2>2, BodyCode
  <1> HIDE DEF x
  <1>6. ASSUME NEW o \in ReadBlocks(Lists), NEW i \in 1..8, ~f(i).hashRemove
        PROVE  x(o, i) \in Seq(Elements) /\ i \in {1, 2, 3, 5, 6, 8}
    <2>1. i \in {1, 2, 3, 5, 6, 8} BY <1>6, HashedKeys DEF f
    <2>2. i \in {1, 2, 3, 5, 6} => x(o, i) \in Seq(Elements) BY <1>4 DEF FieldBack
    <2> QED BY <1>5, <2>1, <2>2
  <1>7. \A o \in ReadBlocks(Lists) :
            /\ HashFields(C, o) \in Seq(Seq(Elements)) /\ Len(HashFields(C, o)) = 8
            /\ \A i \in 1..8 : HashFields(C, o)[i] = HashCode(C, o, i)
            /\ CalculateHash(C, o) = Sha256(FlattenSeq(HashFields(C, o)))
    BY ONLY <1>6, HashCodes DEF x, f
  <1>8. FlattenSeq(c) = FlattenSeq(e) BY <1>7, OneInput
  <1>9. ASSUME NEW i \in 1..7
        PROVE  /\ Separates(Elements, c[i], e[i])
               /\ ~f(i).hashRemove => (c[i] = e[i] => a[KeyOf(C, i)] = b[KeyOf(C, i)])
    <2>0. i \in 1..8 OBVIOUS
    <2>1. c[i] = HashCode(C, a, i) /\ e[i] = HashCode(C, b, i) BY <1>7, <2>0
    <2>2. CASE f(i).hashRemove
      <3>1. c[i] = e[i] BY ONLY <2>1, <2>2 DEF HashCode, f
      <3> QED BY ONLY <2>2, <3>1 DEF Separates
    <2>3. CASE ~f(i).hashRemove
      <3>1. c[i] = x(a, i) /\ e[i] = x(b, i) BY ONLY <2>1, <2>3 DEF HashCode, x, f
      <3>2. FieldBack(NoDecoder, f(i), x(a, i), a[KeyOf(C, i)]) /\ FieldBack(NoDecoder, f(i), x(b, i), b[KeyOf(C, i)])
        <4>1. i \in {1, 2, 3, 5, 6} BY <1>6, <2>0, <2>3
        <4> QED BY <1>4, <4>1
      <3>3. a[KeyOf(C, i)] = b[KeyOf(C, i)] => x(a, i) = x(b, i) BY DEF x
      <3> QED BY ONLY <3>1, <3>2, <3>3, BackSeparates
    <2> QED BY ONLY <2>2, <2>3
  <1>10. c \in Seq(Seq(Elements)) /\ e \in Seq(Seq(Elements)) /\ Len(c) = 8 /\ Len(e) = 8 /\ c[8] = HashCode(C, a, 8) /\ e[8] = HashCode(C, b, 8)
    BY <1>7
  <1> HIDE DEF c, e, f
  <1>11. JoinedUpto(c, 7) = JoinedUpto(e, 7) /\ \A i \in 1..7 : c[i] = e[i]
    <2>1. FirstSeparate(Elements, c, e, 7) BY ONLY <1>9, <1>10 DEF FirstSeparate
    <2>2. 7 \in Nat OBVIOUS
    <2> QED BY ONLY <1>8, <1>10, <2>1, <2>2, JoinedApart
  <1>12. c[8] = e[8]
    <2> DEFINE n == 8
               m == 7
    <2>1. n \in Nat \ {0} /\ m = n - 1 OBVIOUS
    <2>2. Len(c) = n /\ Len(e) = n /\ JoinedUpto(c, m) = JoinedUpto(e, m) /\ FlattenSeq(c) = FlattenSeq(e)
      BY ONLY <1>8, <1>10, <1>11
    <2>3. c \in Seq(Seq(Elements)) /\ e \in Seq(Seq(Elements)) BY ONLY <1>10
    <2> HIDE DEF n, m
    <2>4. c[n] = e[n] BY ONLY <2>1, <2>2, <2>3, LastApart
    <2> QED BY ONLY <2>4 DEF n
  <1>13. \A i \in {1, 2, 3, 5, 6} : a[KeyOf(C, i)] = b[KeyOf(C, i)]
    <2>1. \A i \in {1, 2, 3, 5, 6} : ~f(i).hashRemove /\ i \in 1..7 BY HashedKeys DEF f
    <2> QED BY ONLY <1>9, <1>11, <2>1
  <1>14. a.body = b.body
    <2>1. ~f(8).hashRemove BY HashedKeys DEF f
    <2>2. x(a, 8) = x(b, 8) BY ONLY <1>10, <1>12, <2>1 DEF HashCode, x, f
    <2>3. Enc(4, "BlockBody", a.body) = Enc(4, "BlockBody", b.body) BY <1>5, <2>2
    <2>4. PICK l \in Lists : a.body = [transactions |-> l] BY <1>1 DEF Bodies
    <2>5. PICK m \in Lists : b.body = [transactions |-> m] BY <1>1 DEF Bodies
    <2> DEFINE p == Digits(Len(l), PrefixLength)
               q == Digits(Len(m), PrefixLength)
               u == FlattenSeq(Codes(l))
               v == FlattenSeq(Codes(m))
    <2>6. /\ Enc(4, "BlockBody", a.body) = p \o u /\ Enc(4, "BlockBody", b.body) = q \o v
          /\ p \in Seq(Elements) /\ q \in Seq(Elements) /\ u \in Seq(Elements) /\ v \in Seq(Elements)
          /\ Len(p) = PrefixLength /\ Len(q) = PrefixLength
      BY ONLY <2>4, <2>5, BodyCode
    <2> HIDE DEF p, q, u, v
    <2>7. From(p \o u, Len(p)) = u /\ From(q \o v, Len(q)) = v BY ONLY <2>6, PartsOfBoth
    <2>8. u = v BY ONLY <2>3, <2>6, <2>7
    <2>9. l = m BY ONLY <2>4, <2>5, <2>8, ListsSame DEF u, v
    <2> QED BY ONLY <2>4, <2>5, <2>9
  <1> QED BY ONLY <1>3, <1>13, <1>14 DEF BlockKeysAre, HashedBlockKeys

LEMMA KindsOfOriginals ==
    ASSUME NEW o \in Originals
    PROVE  /\ o.kind = "Block" => IsBlock(o.value)
           /\ o.kind = "Transaction" => IsTransaction(o.value)
           /\ o.kind = "Wallet" => o.value \in [version : Words(1), balance : Numbers, nonce : Numbers]
           /\ o.kind = "MinterData" => o.value \in [version : Words(1), stake : Numbers]
           /\ o.kind \in PlainMessages => IsMessage(o.kind, o.value)
           /\ o.kind = "Address32" => o.value \in [ type : [1..2 -> 0..(HalfByte - 1)],
                                                    body : [1..BodyLength -> 0..(HalfByte - 1)] ]
           /\ o.kind = "Endpoint" => o.value \in [host : Seq(Int) \ {<< >>}, port : Int]
           /\ o.kind \in {"Block", "Transaction", "Wallet", "MinterData", "Address32", "Endpoint"} \cup PlainMessages
  <1>1. IsOriginal(o.kind, o.value) BY OriginalsAssumption
  <1>2. PlainMessages \cap {"Block", "Transaction", "Wallet", "MinterData", "Address32", "Endpoint"} = {}
    BY MessageClasses DEF PlainMessages
  <1> QED BY ONLY <1>1, <1>2 DEF IsOriginal

LEMMA TransactionCovered ==
    ASSUME NEW a, NEW b, IsTransaction(a), IsTransaction(b),
           CalculateHash("Transaction", a) = CalculateHash("Transaction", b)
    PROVE  Unsigned(a) = Unsigned(b)
  <1>1. \A key \in HashedTransactionKeys : a[key] = b[key]
    BY TransactionIsRead, TransactionOfHash
  <1>2. a.txid = b.txid
    <2>1. a.txid = <<CalculateHash("Transaction", a)>> /\ b.txid = <<CalculateHash("Transaction", b)>>
      BY TransactionIsRead
    <2> DEFINE h == CalculateHash("Transaction", a)
    <2>2. CalculateHash("Transaction", b) = h OBVIOUS
    <2> HIDE DEF h
    <2> QED BY <2>1, <2>2 DEF h
  <1> DEFINE K == HashedTransactionKeys \cup {"txid"}
  <1>3. DOMAIN a \ {"signature", "minter", "senderAddress"} = K /\ DOMAIN b \ {"signature", "minter", "senderAddress"} = K
    <2>1. \A t : IsTransaction(t) => DOMAIN t = K \cup {"senderAddress", "signature"}
      <3> SUFFICES ASSUME NEW t, IsTransaction(t) PROVE DOMAIN t = K \cup {"senderAddress", "signature"}
        OBVIOUS
      <3> QED BY DEF IsTransaction, HashedTransactionKeys
    <2>2. DOMAIN a = K \cup {"senderAddress", "signature"} /\ DOMAIN b = K \cup {"senderAddress", "signature"}
      BY <2>1
    <2> QED BY ONLY <2>2 DEF HashedTransactionKeys
  <1>4. \A key \in K : a[key] = b[key] BY <1>1, <1>2
  <1> HIDE DEF K
  <1> QED BY ONLY <1>3, <1>4 DEF Unsigned

LEMMA BlockCovered ==
    ASSUME NEW a, NEW b, IsBlock(a), IsBlock(b), CalculateHash("Block", a) = CalculateHash("Block", b)
    PROVE  Unsigned(a) = Unsigned(b)
  <1>1. \A key \in HashedBlockKeys : a[key] = b[key]
    <2>1. a \in ReadBlocks(Lists) /\ b \in ReadBlocks(Lists) BY BlockIsRead
    <2> QED BY ONLY <2>1, BlockOfHash, CalculateHash("Block", a) = CalculateHash("Block", b)
  <1>2. a.hash = b.hash
    <2>1. a.hash = <<CalculateHash("Block", a)>> /\ b.hash = <<CalculateHash("Block", b)>>
      BY BlockIsTyped DEF IsMinted
    <2> DEFINE h == CalculateHash("Block", a)
    <2>2. CalculateHash("Block", b) = h OBVIOUS
    <2> HIDE DEF h
    <2> QED BY <2>1, <2>2 DEF h
  <1> DEFINE K == HashedBlockKeys \cup {"hash"}
  <1>3. DOMAIN a \ {"signature", "minter", "senderAddress"} = K /\ DOMAIN b \ {"signature", "minter", "senderAddress"} = K
    <2>1. ASSUME NEW t, IsBlock(t) PROVE DOMAIN t = K \cup {"minter", "signature"}
      <3>1. t \in [ version : {Digits(0, 1)}, index : Numbers, slotIndex : Numbers, hash : Words(1),
                    previousHash : HashWords, timestamp : Numbers, minter : {t.minter}, signature : Words(1),
                    body : Bodies(Lists) ]
        BY ONLY <2>1, BlockIsTyped
      <3> QED BY ONLY <3>1 DEF HashedBlockKeys
    <2>2. DOMAIN a = K \cup {"minter", "signature"} /\ DOMAIN b = K \cup {"minter", "signature"}
      BY <2>1
    <2> QED BY ONLY <2>2 DEF HashedBlockKeys
  <1>4. \A key \in K : a[key] = b[key] BY <1>1, <1>2
  <1> HIDE DEF K
  <1> QED BY ONLY <1>3, <1>4 DEF Unsigned

LEMMA OneOriginal == Spec => [](original \in Originals)
  <1>1. Init => original \in Originals BY DEF Init
  <1>2. original \in Originals /\ [Next]_vars => (original \in Originals)'
    BY DEF Next, vars, Write, Tear, Put, Send, Show, Read, Get, Receive, Parse
  <1> QED BY <1>1, <1>2, PTL DEF Spec

\* Of two blocks, or of two transactions, with one hash, nothing differs that was decided
\* by whoever signed: calculateHash leaves out only the fields that are marked
\* hashRemove, and what it joins can be taken apart again, the list of the
\* transactions too, whatever its count holds.
THEOREM HashCoversAll == Spec => []HashCovers
  <1>1. ASSUME original \in Originals PROVE HashCovers
    <2> SUFFICES ASSUME original.kind \in {"Block", "Transaction"}, NEW other \in Originals, other.kind = original.kind,
                        CalculateHash(other.kind, other.value) = CalculateHash(original.kind, original.value)
                 PROVE  Unsigned(other.value) = Unsigned(original.value)
      BY DEF HashCovers, Unsigned
    <2>1. CASE original.kind = "Block"
      <3>1. IsBlock(original.value) /\ IsBlock(other.value)
        BY <1>1, <2>1, KindsOfOriginals
      <3>2. CalculateHash("Block", other.value) = CalculateHash("Block", original.value)
        BY <2>1
      <3> QED BY ONLY <3>1, <3>2, BlockCovered
    <2>2. CASE original.kind = "Transaction"
      <3>1. IsTransaction(original.value) /\ IsTransaction(other.value)
        BY <1>1, <2>2, KindsOfOriginals
      <3>2. CalculateHash("Transaction", other.value) = CalculateHash("Transaction", original.value)
        BY <2>2
      <3> QED BY ONLY <3>1, <3>2, TransactionCovered
    <2> QED BY <2>1, <2>2
  <1> QED BY <1>1, OneOriginal, PTL

-------------------------------------------------------------------------------
(***************************************************************************)
(* Hosts.                                                                  *)
(***************************************************************************)

\* Three sequences, one behind the other.
LEMMA ThreeJoined ==
    ASSUME NEW S, NEW a \in Seq(S), NEW b \in Seq(S), NEW c \in Seq(S)
    PROVE  /\ a \o b \o c \in Seq(S) /\ Len(a \o b \o c) = Len(a) + Len(b) + Len(c)
           /\ \A i \in 1..(Len(a) + Len(b) + Len(c)) :
                 (a \o b \o c)[i] = IF i <= Len(a) THEN a[i]
                                    ELSE IF i <= Len(a) + Len(b) THEN b[i - Len(a)]
                                    ELSE c[i - (Len(a) + Len(b))]
  <1> DEFINE u == a \o b
             v == u \o c
  <1>1. /\ u \in Seq(S) /\ Len(u) = Len(a) + Len(b)
        /\ \A i \in 1..(Len(a) + Len(b)) : u[i] = IF i <= Len(a) THEN a[i] ELSE b[i - Len(a)]
    BY ConcatProperties
  <1> HIDE DEF u
  <1>2. /\ v \in Seq(S) /\ Len(v) = Len(u) + Len(c)
        /\ \A i \in 1..(Len(u) + Len(c)) : v[i] = IF i <= Len(u) THEN u[i] ELSE c[i - Len(u)]
    <2>1. u \in Seq(S) /\ c \in Seq(S) BY <1>1
    <2> QED BY ONLY <2>1, ConcatProperties
  <1>3. Len(a) \in Nat /\ Len(b) \in Nat /\ Len(c) \in Nat OBVIOUS
  <1> HIDE DEF v
  <1>4. v \in Seq(S) /\ Len(v) = Len(a) + Len(b) + Len(c) BY ONLY <1>1, <1>2, <1>3
  <1>5. ASSUME NEW i \in 1..(Len(a) + Len(b) + Len(c))
        PROVE  v[i] = IF i <= Len(a) THEN a[i] ELSE IF i <= Len(a) + Len(b) THEN b[i - Len(a)] ELSE c[i - (Len(a) + Len(b))]
    <2>1. v[i] = IF i <= Len(u) THEN u[i] ELSE c[i - Len(u)] BY <1>1, <1>2, <1>3
    <2>2. i <= Len(u) => u[i] = IF i <= Len(a) THEN a[i] ELSE b[i - Len(a)]
      BY <1>1, <1>3
    <2> QED BY ONLY <1>1, <1>3, <2>1, <2>2, i \in 1..(Len(a) + Len(b) + Len(c))
  <1> QED BY <1>4, <1>5 DEF u, v

LEMMA HalvesAre ==
    ASSUME NEW h \in Seq(Int), NEW half \in Halves(h)
    PROVE  /\ half[1] \in Seq(0..FFFF) /\ half[2] \in Seq(0..FFFF) /\ Len(half[1]) + Len(half[2]) < Groups
           /\ h = Shortened(half[1], half[2])
  <1> DEFINE ends == 0..(IF Len(h) < Groups THEN Len(h) ELSE Groups - 1)
             pre == half[1]
             post == half[2]
  <1> DEFINE both(n) == <<SubSeq(h, 1, n[1]), SubSeq(h, Len(h) - n[2] + 1, Len(h))>>
             pairs == {both(n) : n \in ends \X ends}
             Fine(x) == /\ Len(x[1]) + Len(x[2]) < Groups
                        /\ \A i \in DOMAIN (x[1] \o x[2]) : (x[1] \o x[2])[i] \in 0..FFFF
                        /\ h = Shortened(x[1], x[2])
  <1>0. half \in pairs /\ Fine(half)
    <2>1. Halves(h) = {x \in pairs : Fine(x)} BY DEF Halves
    <2> HIDE DEF pairs, Fine
    <2> QED BY <2>1
  <1>1. PICK m \in ends, n \in ends : half = <<SubSeq(h, 1, m), SubSeq(h, Len(h) - n + 1, Len(h))>>
    <2> HIDE DEF ends, both, Fine
    <2>1. PICK k \in ends \X ends : half = both(k) BY <1>0
    <2>2. k[1] \in ends /\ k[2] \in ends BY <2>1
    <2> QED BY <2>1, <2>2 DEF both
  <1>2. /\ Len(pre) + Len(post) < Groups /\ h = Shortened(pre, post)
        /\ \A i \in DOMAIN (pre \o post) : (pre \o post)[i] \in 0..FFFF
    BY <1>0
  <1>3. pre = SubSeq(h, 1, m) /\ post = SubSeq(h, Len(h) - n + 1, Len(h)) BY <1>1
  <1>4. m \in 0..Len(h) /\ n \in 0..Len(h) /\ Len(h) \in Nat BY <1>1, AddressAssumption
  <1> HIDE DEF pre, post
  <1>5. pre \in Seq(Int) /\ Len(pre) = m
    <2>1. 1 \in 1..(Len(h) + 1) /\ m \in (1 - 1)..Len(h) BY <1>4
    <2>2. SubSeq(h, 1, m) \in Seq(Int) /\ Len(SubSeq(h, 1, m)) = m - 1 + 1
      BY ONLY <2>1, h \in Seq(Int), SubSeqProperties
    <2> QED BY ONLY <1>3, <1>4, <2>2
  <1>6. post \in Seq(Int) /\ Len(post) = n
    <2> DEFINE k == Len(h) - n + 1
               l == Len(h)
    <2>1. k \in 1..(Len(h) + 1) /\ l \in (k - 1)..Len(h) /\ l - k + 1 = n BY <1>4
    <2> HIDE DEF k, l
    <2>2. SubSeq(h, k, l) \in Seq(Int) /\ Len(SubSeq(h, k, l)) = l - k + 1
      BY ONLY <2>1, h \in Seq(Int), SubSeqProperties
    <2>3. post = SubSeq(h, k, l) BY <1>3 DEF k, l
    <2> QED BY ONLY <2>1, <2>2, <2>3
  <1>7. /\ pre \o post \in Seq(Int) /\ Len(pre \o post) = m + n
        /\ \A i \in 1..(m + n) : (pre \o post)[i] = IF i <= m THEN pre[i] ELSE post[i - m]
    BY <1>5, <1>6, ConcatProperties
  <1>8. DOMAIN (pre \o post) = 1..(m + n)
    <2> DEFINE u == pre \o post
    <2> HIDE DEF u
    <2> QED BY <1>7 DEF u
  <1>9. \A i \in 1..m : pre[i] \in 0..FFFF
    <2> TAKE i \in 1..m
    <2>1. i \in 1..(m + n) /\ i <= m BY <1>4
    <2> QED BY ONLY <1>2, <1>7, <1>8, <2>1
  <1>10. \A i \in 1..n : post[i] \in 0..FFFF
    <2> TAKE i \in 1..n
    <2>1. i + m \in 1..(m + n) /\ ~(i + m <= m) /\ (i + m) - m = i BY <1>4
    <2> QED BY ONLY <1>2, <1>7, <1>8, <2>1
  <1> DEFINE G == 0..FFFF
  <1> HIDE DEF G
  <1>11. pre \in Seq(G) /\ post \in Seq(G)
    <2>1. pre = [i \in 1..m |-> pre[i]] /\ post = [i \in 1..n |-> post[i]] BY <1>5, <1>6
    <2>2. (\A i \in 1..m : pre[i] \in G) /\ \A i \in 1..n : post[i] \in G
      BY ONLY <1>9, <1>10 DEF G
    <2>3. m \in Nat /\ n \in Nat BY <1>4
    <2>4. [i \in 1..m |-> pre[i]] \in Seq(G) BY ONLY <2>2, <2>3
    <2>5. [i \in 1..n |-> post[i]] \in Seq(G) BY ONLY <2>2, <2>3
    <2> QED BY ONLY <2>1, <2>4, <2>5, Zenon
  <1> QED BY <1>2, <1>11 DEF G, pre, post

\* What the value of the sequence with "::" is at a place, and where the first empty
\* segment is.
LEMMA ShortenedIs ==
    ASSUME NEW pre \in Seq(0..FFFF), NEW post \in Seq(0..FFFF)
    PROVE  LET p == Len(pre)
               q == Len(post)
               a == IF p = 0 THEN 1 ELSE p
               b == IF q = 0 THEN 1 ELSE q
               h == Shortened(pre, post)
           IN  /\ h \in Seq(Int) /\ Len(h) = a + 1 + b
               /\ \A i \in 1..(a + 1 + b) :
                     h[i] = IF i <= p THEN pre[i]
                            ELSE IF i <= a + 1 \/ q = 0 THEN Nil
                            ELSE post[i - (a + 1)]
  <1> DEFINE p == Len(pre)
             q == Len(post)
             a == IF p = 0 THEN 1 ELSE p
             b == IF q = 0 THEN 1 ELSE q
             A == IF pre = << >> THEN <<Nil>> ELSE pre
             B == IF post = << >> THEN <<Nil>> ELSE post
             C == <<Nil>>
             h == Shortened(pre, post)
  <1>1. h = A \o C \o B BY DEF Shortened
  <1>2. C \in Seq(Int) /\ Len(C) = 1 /\ C[1] = Nil BY DEF Nil
  <1>3. 0..FFFF \subseteq Int BY DEF FFFF
  <1>4. pre \in Seq(Int) /\ post \in Seq(Int) /\ p \in Nat /\ q \in Nat
    <2>1. pre \in Seq(Int) /\ post \in Seq(Int)
      BY ONLY <1>3, SeqMonotonic, pre \in Seq(0..FFFF), post \in Seq(0..FFFF)
    <2> QED BY ONLY <2>1
  <1>5. (pre = << >> <=> p = 0) /\ (post = << >> <=> q = 0) BY ONLY <1>4
  <1> HIDE DEF C
  <1>6. A \in Seq(Int) /\ Len(A) = a /\ \A i \in 1..a : A[i] = IF i <= p THEN pre[i] ELSE Nil
    <2>1. CASE p = 0
      <3>1. A = C /\ a = 1 BY <1>5, <2>1 DEF C
      <3>2. \A i \in 1..1 : i = 1 /\ ~(i <= 0) OBVIOUS
      <3> QED BY ONLY <1>2, <2>1, <3>1, <3>2
    <2>2. CASE p # 0
      <3>1. A = pre /\ a = p BY <1>5, <2>2
      <3>2. \A i \in 1..p : i <= p BY ONLY <1>4
      <3> HIDE DEF p
      <3>3. Len(pre) = p BY DEF p
      <3> QED BY ONLY <1>4, <3>1, <3>2, <3>3
    <2> QED BY ONLY <2>1, <2>2
  <1>7. B \in Seq(Int) /\ Len(B) = b /\ \A i \in 1..b : B[i] = IF q = 0 THEN Nil ELSE post[i]
    <2>1. CASE q = 0
      <3>1. B = C /\ b = 1 BY <1>5, <2>1 DEF C
      <3>2. \A i \in 1..1 : i = 1 OBVIOUS
      <3> HIDE DEF B, b, q
      <3> QED BY ONLY <1>2, <2>1, <3>1, <3>2
    <2>2. CASE q # 0
      <3>1. B = post /\ b = q BY <1>5, <2>2
      <3> QED BY ONLY <1>4, <2>2, <3>1
    <2> QED BY ONLY <2>1, <2>2
  <1>8. a \in Nat /\ b \in Nat /\ a >= p /\ (p # 0 => a = p) /\ a >= 1 /\ b >= 1
    BY ONLY <1>4
  <1> HIDE DEF A, B, a, b, h
  <1>9. /\ A \o C \o B \in Seq(Int) /\ Len(A \o C \o B) = Len(A) + Len(C) + Len(B)
        /\ \A i \in 1..(Len(A) + Len(C) + Len(B)) :
              (A \o C \o B)[i] = IF i <= Len(A) THEN A[i]
                                 ELSE IF i <= Len(A) + Len(C) THEN C[i - Len(A)]
                                 ELSE B[i - (Len(A) + Len(C))]
    <2>1. A \in Seq(Int) /\ B \in Seq(Int) /\ C \in Seq(Int) BY <1>2, <1>6, <1>7
    <2> QED BY ONLY <2>1, ThreeJoined
  <1>10. h \in Seq(Int) /\ Len(h) = a + 1 + b BY ONLY <1>1, <1>2, <1>6, <1>7, <1>9
  <1>11. \A i \in 1..(a + 1 + b) : h[i] = IF i <= a THEN A[i] ELSE IF i <= a + 1 THEN C[i - a] ELSE B[i - (a + 1)]
    BY ONLY <1>1, <1>2, <1>6, <1>7, <1>9
  <1>12. ASSUME NEW i \in 1..(a + 1 + b)
         PROVE  h[i] = IF i <= p THEN pre[i] ELSE IF i <= a + 1 \/ q = 0 THEN Nil ELSE post[i - (a + 1)]
    <2>0. h[i] = IF i <= a THEN A[i] ELSE IF i <= a + 1 THEN C[i - a] ELSE B[i - (a + 1)]
      BY <1>11
    <2>01. i \in Nat /\ i >= 1 /\ i <= a + 1 + b BY <1>8
    <2>1. CASE i <= a
      <3>1. i \in 1..a /\ i <= a + 1 BY ONLY <1>8, <2>01, <2>1
      <3> QED BY ONLY <1>6, <2>0, <2>1, <3>1
    <2>2. CASE i = a + 1
      <3>1. ~(i <= a) /\ ~(i <= p) /\ i - a = 1 /\ i <= a + 1
        BY ONLY <1>4, <1>8, <2>01, <2>2
      <3> QED BY ONLY <1>2, <2>0, <3>1
    <2>3. CASE i > a + 1
      <3>1. ~(i <= a) /\ ~(i <= p) /\ ~(i <= a + 1) /\ i - (a + 1) \in 1..b
        BY ONLY <1>4, <1>8, <2>01, <2>3
      <3> QED BY ONLY <1>7, <2>0, <3>1
    <2> QED BY ONLY <1>8, <2>01, <2>1, <2>2, <2>3
  <1> QED BY ONLY <1>10, <1>12 DEF a, b, h

LEMMA GroupsAreNotNil == \A x \in 0..FFFF : x # Nil /\ x # 1000
  BY DEF Nil, FFFF

LEMMA FilledIs ==
    ASSUME NEW pre \in Seq(0..FFFF), NEW post \in Seq(0..FFFF), Len(pre) + Len(post) < Groups
    PROVE  LET f == Filled(pre, post) IN
           /\ f \in Seq(0..FFFF) /\ Len(f) = Groups
           /\ \A i \in 1..Groups : f[i] = IF i <= Len(pre) THEN pre[i]
                                          ELSE IF i <= Groups - Len(post) THEN 0
                                          ELSE post[i - (Groups - Len(post))]
  <1> DEFINE z == Groups - Len(pre) - Len(post)
             zeros == [i \in 1..z |-> 0]
             S == 0..FFFF
             f == pre \o zeros \o post
  <1>1. Len(pre) \in Nat /\ Len(post) \in Nat /\ Groups \in Nat /\ z \in Nat
    BY AddressAssumption
  <1>2. 0 \in S BY DEF FFFF
  <1> HIDE DEF S, z
  <1>3. zeros \in Seq(S) /\ Len(zeros) = z /\ \A i \in 1..z : zeros[i] = 0 BY <1>1, <1>2
  <1>4. pre \in Seq(S) /\ post \in Seq(S) BY DEF S
  <1> HIDE DEF zeros
  <1>5. /\ f \in Seq(S) /\ Len(f) = Len(pre) + Len(zeros) + Len(post)
        /\ \A i \in 1..(Len(pre) + Len(zeros) + Len(post)) :
              f[i] = IF i <= Len(pre) THEN pre[i]
                     ELSE IF i <= Len(pre) + Len(zeros) THEN zeros[i - Len(pre)]
                     ELSE post[i - (Len(pre) + Len(zeros))]
    <2>1. pre \in Seq(S) /\ post \in Seq(S) /\ zeros \in Seq(S) BY ONLY <1>3, <1>4
    <2> QED BY ONLY <2>1, ThreeJoined
  <1>6. Filled(pre, post) = f BY DEF Filled, z, zeros
  <1> HIDE DEF f
  <1>7. Len(pre) + Len(zeros) = Groups - Len(post) /\ Len(pre) + Len(zeros) + Len(post) = Groups
    BY ONLY <1>1, <1>3 DEF z
  <1>8. ASSUME NEW i \in 1..Groups
        PROVE  f[i] = IF i <= Len(pre) THEN pre[i]
                      ELSE IF i <= Groups - Len(post) THEN 0
                      ELSE post[i - (Groups - Len(post))]
    <2>1. f[i] = IF i <= Len(pre) THEN pre[i]
                 ELSE IF i <= Groups - Len(post) THEN zeros[i - Len(pre)]
                 ELSE post[i - (Groups - Len(post))]
      BY <1>5, <1>7
    <2>2. ~(i <= Len(pre)) /\ i <= Groups - Len(post) => i - Len(pre) \in 1..z
      BY <1>1 DEF z
    <2> QED BY ONLY <1>3, <2>1, <2>2
  <1> QED BY ONLY <1>5, <1>6, <1>7, <1>8 DEF S

LEMMA FullIsNormal ==
    ASSUME NEW h \in Seq(0..FFFF), Len(h) = Groups
    PROVE  NormalizeIP(h) = h /\ h # << >> /\ h \in Seq(Int) /\ ~IsIPv4(h)
  <1>1. Groups \in Nat /\ Groups > 3 BY AddressAssumption
  <1>2. \A i \in 1..Groups : h[i] \in 0..FFFF /\ h[i] # Nil
    <2>1. \A i \in 1..Groups : h[i] \in 0..FFFF
      BY ONLY Len(h) = Groups, h \in Seq(0..FFFF), ElementOfSeq
    <2> QED BY ONLY <2>1, GroupsAreNotNil
  <1>3. DOMAIN h = 1..Groups OBVIOUS
  <1>4. ~IsIPv4(h) BY <1>1 DEF IsIPv4
  <1>5. IsIPv6(h) BY <1>2, <1>3 DEF IsIPv6
  <1>6. ~Mapped(h)
    <2>1. 1 \in 1..Groups BY <1>1
    <2> QED BY <1>2, <2>1 DEF Mapped
  <1>7. ~Contains(h, Nil) BY <1>2 DEF Contains
  <1> DEFINE filled == IF ~Contains(h, Nil) THEN h
                       ELSE LET empty == CHOOSE i \in DOMAIN h : h[i] = Nil /\ \A j \in 1..(i - 1) : h[j] # Nil
                            IN  SubSeq(h, 1, empty - 1) \o [i \in 1..ZeroSegments(h) |-> 0]
                                \o SubSeq(h, empty + 1, Len(h))
  <1>8. NormalizeIP(h) = [i \in DOMAIN filled |-> IF filled[i] = Nil THEN 0 ELSE filled[i]]
    BY <1>4, <1>5, <1>6, Zenon DEF NormalizeIP
  <1>9. filled = h BY <1>7, Zenon
  <1> HIDE DEF filled
  <1>10. NormalizeIP(h) = [i \in DOMAIN h |-> IF h[i] = Nil THEN 0 ELSE h[i]]
    BY ONLY <1>8, <1>9
  <1>11. [i \in DOMAIN h |-> IF h[i] = Nil THEN 0 ELSE h[i]] = [i \in DOMAIN h |-> h[i]]
    BY ONLY <1>2, <1>3
  <1>12. h = [i \in DOMAIN h |-> h[i]] BY ONLY h \in Seq(0..FFFF)
  <1>13. 0..FFFF \subseteq Int BY DEF FFFF
  <1>14. h \in Seq(Int) BY ONLY <1>13, SeqMonotonic, h \in Seq(0..FFFF)
  <1>15. h # << >> BY <1>1
  <1> QED BY ONLY <1>4, <1>10, <1>11, <1>12, <1>14, <1>15

LEMMA ShortenedIsFilled ==
    ASSUME NEW pre \in Seq(0..FFFF), NEW post \in Seq(0..FFFF), Len(pre) + Len(post) < Groups,
           Halves(Shortened(pre, post)) # {}
    PROVE  NormalizeIP(Shortened(pre, post)) = Filled(pre, post)
  <1> DEFINE p == Len(pre)
             q == Len(post)
             a == IF p = 0 THEN 1 ELSE p
             b == IF q = 0 THEN 1 ELSE q
             h == Shortened(pre, post)
             n == a + 1 + b
             H(i) == IF i <= p THEN pre[i] ELSE IF i <= a + 1 \/ q = 0 THEN Nil ELSE post[i - (a + 1)]
  <1>1. Groups \in Nat /\ Groups > 3 /\ p \in Nat /\ q \in Nat /\ p + q < Groups
    BY AddressAssumption
  <1>2. h \in Seq(Int) /\ Len(h) = n /\ \A i \in 1..n : h[i] = H(i) BY ShortenedIs
  <1>3. /\ \A i \in 1..p : pre[i] \in 0..FFFF /\ pre[i] # Nil
        /\ \A i \in 1..q : post[i] \in 0..FFFF /\ post[i] # Nil
    <2>1. (\A i \in 1..p : pre[i] \in 0..FFFF) /\ \A i \in 1..q : post[i] \in 0..FFFF
      BY ONLY ElementOfSeq, pre \in Seq(0..FFFF), post \in Seq(0..FFFF)
    <2> QED BY ONLY <2>1, GroupsAreNotNil
  <1>4. IsIPv6(h)
    <2>1. Halves(h) # {} OBVIOUS
    <2> HIDE DEF h
    <2> QED BY ONLY <2>1 DEF IsIPv6
  <1>5. /\ a \in Nat /\ b \in Nat /\ a >= 1 /\ b >= 1 /\ n \in Nat /\ n >= 3 /\ a >= p /\ a <= p + 1 /\ b >= q
        /\ (p # 0 => a = p) /\ (q # 0 => b = q) /\ (q = 0 => b = 1) /\ n = a + 1 + b /\ (p = 0 => a = 1)
        /\ a + b <= Groups
    <2>1. a \in Nat /\ a >= 1 /\ a >= p /\ a <= p + 1 /\ (p # 0 => a = p) /\ (p = 0 => a = 1)
      BY ONLY <1>1
    <2>2. b \in Nat /\ b >= 1 /\ b >= q /\ (q # 0 => b = q) /\ (q = 0 => b = 1)
      BY ONLY <1>1
    <2>3. n = a + 1 + b OBVIOUS
    <2> HIDE DEF p, q, a, b, n
    <2> QED BY ONLY <1>1, <2>1, <2>2, <2>3
  <1>6. ~IsIPv4(h)
    <2>1. Len(h) = n /\ n \in Nat /\ n >= 3 BY ONLY <1>2, <1>5
    <2> HIDE DEF h, n
    <2>2. Len(h) # 1 BY ONLY <2>1
    <2> QED BY ONLY <2>2 DEF IsIPv4
  <1> HIDE DEF p, q, a, b, h, n
  <1>7. ~Mapped(h)
    <2> SUFFICES ASSUME Mapped(h) PROVE FALSE OBVIOUS
    <2>1. n = 4 /\ h[4] \in IPv4 /\ 4 \in 1..n
      <3>1. Len(h) = 4 /\ h[4] \in IPv4 BY DEF Mapped
      <3>2. Len(h) = n BY ONLY <1>2
      <3>3. n = 4 BY ONLY <3>1, <3>2
      <3>4. 4 \in 1..n BY ONLY <3>3
      <3> QED BY ONLY <3>1, <3>3, <3>4
    <2>2. h[4] = H(4) BY <1>2, <2>1
    <2>3. H(4) \in 0..FFFF \/ H(4) = Nil
      <3>1. CASE 4 <= p
        BY <1>3, <3>1, <1>1
      <3>2. CASE ~(4 <= p) /\ (4 <= a + 1 \/ q = 0)
        BY <3>2
      <3>3. CASE ~(4 <= p) /\ ~(4 <= a + 1 \/ q = 0)
        <4>1. 4 - (a + 1) \in 1..q BY <1>1, <1>5, <2>1, <3>3
        <4> QED BY <1>3, <3>3, <4>1
      <3> QED BY ONLY <3>1, <3>2, <3>3
    <2>4. h[4] = 1000 /\ Nil # 1000 BY ONLY <2>1 DEF IPv4, Nil
    <2> QED BY ONLY <2>2, <2>3, <2>4, GroupsAreNotNil
  <1>8. p + 1 \in 1..n /\ h[p + 1] = Nil /\ \A j \in 1..p : h[j] = pre[j] /\ h[j] # Nil
    <2>1. p + 1 \in 1..n /\ ~(p + 1 <= p) /\ p + 1 <= a + 1 BY ONLY <1>1, <1>5
    <2>2. h[p + 1] = Nil BY <1>2, <2>1
    <2>3. ASSUME NEW j \in 1..p PROVE h[j] = pre[j] /\ h[j] # Nil
      <3>1. j \in 1..n /\ j <= p BY <1>1, <1>5
      <3>2. h[j] = pre[j] BY ONLY <1>2, <3>1
      <3> QED BY <1>3, <3>2
    <2> QED BY ONLY <2>1, <2>2, <2>3
  <1>9. DOMAIN h = 1..n BY <1>2
  <1>10. Contains(h, Nil) BY <1>2, <1>8 DEF Contains
  <1> DEFINE empty == CHOOSE i \in DOMAIN h : h[i] = Nil /\ \A j \in 1..(i - 1) : h[j] # Nil
  <1>11. empty = p + 1
    <2> DEFINE P(i) == i \in DOMAIN h /\ h[i] = Nil /\ \A j \in 1..(i - 1) : h[j] # Nil
    <2>1. P(p + 1)
      <3>1. (p + 1) - 1 = p BY <1>1
      <3> QED BY <1>8, <1>9, <3>1
    <2>2. ASSUME NEW i, P(i) PROVE i = p + 1
      <3>1. i \in 1..n /\ h[i] = Nil BY <1>9, <2>2
      <3>2. i <= p => i \in 1..p BY <1>1, <3>1
      <3>3. p + 1 <= i - 1 => h[p + 1] # Nil
        <4> SUFFICES ASSUME p + 1 <= i - 1 PROVE p + 1 \in 1..(i - 1) BY <2>2
        <4> QED BY <1>1, <3>1
      <3> QED BY <1>1, <1>8, <3>1, <3>2, <3>3
    <2>3. empty = CHOOSE i \in DOMAIN h : P(i) BY Zenon
    <2> HIDE DEF P
    <2>4. p + 1 \in DOMAIN h BY <1>8, <1>9
    <2>5. P(CHOOSE i \in DOMAIN h : P(i)) BY ONLY <2>1, <2>4
    <2> QED BY ONLY <2>2, <2>3, <2>5
  <1> DEFINE z == ZeroSegments(h)
             zeros == [i \in 1..z |-> 0]
             u == SubSeq(h, 1, p)
             v == SubSeq(h, p + 2, n)
             filled == u \o zeros \o v
  <1>12. NormalizeIP(h) = [i \in DOMAIN filled |-> IF filled[i] = Nil THEN 0 ELSE filled[i]]
    <2> DEFINE g == SubSeq(h, 1, empty - 1) \o [i \in 1..ZeroSegments(h) |-> 0] \o SubSeq(h, empty + 1, Len(h))
               f == IF ~Contains(h, Nil) THEN h ELSE g
    <2>1. NormalizeIP(h) = [i \in DOMAIN f |-> IF f[i] = Nil THEN 0 ELSE f[i]]
      BY <1>4, <1>6, <1>7, Zenon DEF NormalizeIP
    <2>2. f = g BY <1>10
    <2>3. g = filled
      <3> HIDE DEF empty
      <3>1. empty - 1 = p /\ empty + 1 = p + 2 /\ Len(h) = n BY ONLY <1>1, <1>2, <1>11
      <3> QED BY ONLY <3>1
    <2> HIDE DEF f, g, filled
    <2> QED BY ONLY <2>1, <2>2, <2>3
  <1>13. z = Groups - (a + b) /\ z \in Nat
    <2>1. z = Groups - (n - 1) BY <1>2 DEF ZeroSegments
    <2> QED BY <1>1, <1>5, <2>1
  <1> HIDE DEF empty, z
  <1>14. zeros \in Seq(Int) /\ Len(zeros) = z /\ \A i \in 1..z : zeros[i] = 0 BY <1>13
  <1>15. u \in Seq(Int) /\ Len(u) = p /\ \A i \in 1..p : u[i] = h[i]
    <2>1. 1 \in 1..(Len(h) + 1) /\ p \in (1 - 1)..Len(h) BY ONLY <1>1, <1>2, <1>5
    <2>2. /\ u \in Seq(Int) /\ Len(u) = p - 1 + 1
          /\ \A i \in 1..(p - 1 + 1) : u[i] = h[1 + i - 1]
      BY ONLY <1>2, <2>1, SubSeqProperties
    <2>3. p - 1 + 1 = p /\ \A i \in 1..p : 1 + i - 1 = i BY ONLY <1>1
    <2> HIDE DEF u
    <2> QED BY ONLY <2>2, <2>3
  <1>16. v \in Seq(Int) /\ Len(v) = n - p - 1 /\ \A i \in 1..(n - p - 1) : v[i] = h[p + 1 + i]
    <2> DEFINE s == p + 2
    <2>1. s \in 1..(Len(h) + 1) /\ n \in (s - 1)..Len(h) BY ONLY <1>1, <1>2, <1>5
    <2>2. /\ v \in Seq(Int) /\ Len(v) = n - s + 1
          /\ \A i \in 1..(n - s + 1) : v[i] = h[s + i - 1]
      <3>1. h \in Seq(Int) BY <1>2
      <3>2. v = SubSeq(h, s, n) OBVIOUS
      <3> HIDE DEF s, v
      <3> QED BY ONLY <2>1, <3>1, <3>2, SubSeqProperties
    <2>3. n - s + 1 = n - p - 1 /\ \A i \in 1..(n - p - 1) : s + i - 1 = p + 1 + i
      BY ONLY <1>1, <1>5
    <2> HIDE DEF v, s
    <2> QED BY ONLY <2>2, <2>3
  <1> HIDE DEF zeros, u, v
  <1>17. /\ filled \in Seq(Int) /\ Len(filled) = Len(u) + Len(zeros) + Len(v)
         /\ \A i \in 1..(Len(u) + Len(zeros) + Len(v)) :
               filled[i] = IF i <= Len(u) THEN u[i]
                           ELSE IF i <= Len(u) + Len(zeros) THEN zeros[i - Len(u)]
                           ELSE v[i - (Len(u) + Len(zeros))]
    <2>1. u \in Seq(Int) /\ zeros \in Seq(Int) /\ v \in Seq(Int)
      BY ONLY <1>14, <1>15, <1>16
    <2> QED BY ONLY <2>1, ThreeJoined
  <1> HIDE DEF filled
  <1>18. Len(u) + Len(zeros) + Len(v) = Groups /\ Len(u) + Len(zeros) = p + z
    BY ONLY <1>1, <1>5, <1>13, <1>14, <1>15, <1>16
  <1>19. /\ DOMAIN filled = 1..Groups
         /\ \A i \in 1..Groups : filled[i] = IF i <= p THEN u[i] ELSE IF i <= p + z THEN zeros[i - p] ELSE v[i - (p + z)]
    <2> DEFINE m == Len(u)
               k == Len(u) + Len(zeros)
               all == Len(u) + Len(zeros) + Len(v)
    <2>1. m = p /\ k = p + z /\ all = Groups BY ONLY <1>15, <1>18
    <2>2. /\ filled \in Seq(Int) /\ Len(filled) = all
          /\ \A i \in 1..all : filled[i] = IF i <= m THEN u[i] ELSE IF i <= k THEN zeros[i - m] ELSE v[i - k]
      BY ONLY <1>17
    <2> HIDE DEF m, k, all
    <2> QED BY ONLY <2>1, <2>2
  <1> DEFINE F == Filled(pre, post)
  <1>20. /\ F \in Seq(0..FFFF) /\ Len(F) = Groups
         /\ \A i \in 1..Groups : F[i] = IF i <= p THEN pre[i] ELSE IF i <= Groups - q THEN 0 ELSE post[i - (Groups - q)]
    BY FilledIs DEF p, q
  <1> HIDE DEF F
  <1>21. ASSUME NEW i \in 1..Groups PROVE (IF filled[i] = Nil THEN 0 ELSE filled[i]) = F[i]
    <2>1. CASE i <= p
      <3>1. i \in 1..p BY <1>1, <2>1
      <3>2. filled[i] = u[i] BY ONLY <1>19, <2>1, i \in 1..Groups
      <3>3. F[i] = pre[i] BY ONLY <1>20, <2>1, i \in 1..Groups
      <3> QED BY ONLY <1>8, <1>15, <3>1, <3>2, <3>3
    <2>2. CASE ~(i <= p) /\ i <= p + z
      <3>1. i - p \in 1..z /\ i <= Groups - q BY <1>1, <1>5, <1>13, <2>2
      <3>2. filled[i] = 0 /\ F[i] = 0
        BY ONLY <1>14, <1>19, <1>20, <2>2, <3>1, i \in 1..Groups
      <3> QED BY ONLY <3>2
    <2>3. CASE ~(i <= p) /\ ~(i <= p + z)
      <3> DEFINE j == p + 1 + (i - (p + z))
      <3>1. i - (p + z) \in 1..(n - p - 1) /\ j \in 1..n /\ j = 1 + i - z /\ ~(j <= p)
        BY <1>1, <1>5, <1>13, <2>3
      <3>2. filled[i] = h[j] BY ONLY <1>16, <1>19, <2>3, <3>1, i \in 1..Groups
      <3> HIDE DEF j
      <3>3. filled[i] = IF j <= a + 1 \/ q = 0 THEN Nil ELSE post[j - (a + 1)]
        BY ONLY <1>2, <3>1, <3>2
      <3>4. CASE j <= a + 1 \/ q = 0
        <4>1. i <= Groups - q BY <1>1, <1>5, <1>13, <3>1, <3>4
        <4>2. F[i] = 0 BY <1>20, <2>3, <4>1
        <4> QED BY ONLY <3>3, <3>4, <4>2
      <3>5. CASE ~(j <= a + 1 \/ q = 0)
        <4>1. ~(i <= Groups - q) /\ j - (a + 1) = i - (Groups - q) /\ j - (a + 1) \in 1..q
          BY <1>1, <1>5, <1>13, <3>1, <3>5
        <4>2. F[i] = post[i - (Groups - q)] /\ filled[i] = post[j - (a + 1)]
          BY ONLY <1>20, <2>3, <3>3, <3>5, <4>1, i \in 1..Groups
        <4> QED BY ONLY <1>3, <4>1, <4>2
      <3> QED BY ONLY <3>4, <3>5
    <2> QED BY ONLY <2>1, <2>2, <2>3
  <1>22. F = [i \in 1..Groups |-> F[i]] BY ONLY <1>20
  <1>23. NormalizeIP(h) = F BY ONLY <1>12, <1>19, <1>21, <1>22
  <1> QED BY <1>23 DEF h, F

\* However a host was spelled, it is read in one spelling, and that one stays.
LEMMA HostIs ==
    ASSUME NEW h \in Hosts
    PROVE  /\ Host(h) \in Hosts /\ NormalizeIP(Host(h)) \in {<< >>, Host(h)} /\ Host(Host(h)) = Host(h)
           /\ \A half \in Halves(h) : Host(h) = Filled(half[1], half[2])
  <1>0. h \in Seq(Int) /\ h # << >> /\ Len(h) \in Nat BY DEF Hosts
  <1>00. Groups \in Nat /\ Groups > 3 BY AddressAssumption
  <1>1. ASSUME NEW half \in Halves(h)
        PROVE  /\ half[1] \in Seq(0..FFFF) /\ half[2] \in Seq(0..FFFF) /\ Len(half[1]) + Len(half[2]) < Groups
               /\ h = Shortened(half[1], half[2]) /\ Len(h) >= 3 /\ NormalizeIP(h) = Filled(half[1], half[2])
    <2> DEFINE pre == half[1]
               post == half[2]
    <2>1. pre \in Seq(0..FFFF) /\ post \in Seq(0..FFFF) /\ Len(pre) + Len(post) < Groups /\ h = Shortened(pre, post)
      BY ONLY <1>0, HalvesAre, half \in Halves(h)
    <2>2. Halves(h) # {} OBVIOUS
    <2> HIDE DEF pre, post
    <2>3. NormalizeIP(h) = Filled(pre, post) BY ONLY <2>1, <2>2, ShortenedIsFilled
    <2>4. Len(h) >= 3
      <3>1. Len(h) = (IF Len(pre) = 0 THEN 1 ELSE Len(pre)) + 1 + (IF Len(post) = 0 THEN 1 ELSE Len(post))
        BY ONLY <2>1, ShortenedIs
      <3>2. Len(pre) \in Nat /\ Len(post) \in Nat BY ONLY <2>1
      <3> DEFINE a == IF Len(pre) = 0 THEN 1 ELSE Len(pre)
                 b == IF Len(post) = 0 THEN 1 ELSE Len(post)
      <3>3. a \in Nat /\ a >= 1 BY ONLY <3>2
      <3>4. b \in Nat /\ b >= 1 BY ONLY <3>2
      <3>5. Len(h) = a + 1 + b BY ONLY <3>1
      <3> HIDE DEF a, b
      <3> QED BY ONLY <3>3, <3>4, <3>5
    <2> QED BY ONLY <2>1, <2>3, <2>4 DEF pre, post
  <1>2. CASE IsIPv4(h)
    <2>1. NormalizeIP(h) = h BY <1>2, Zenon DEF NormalizeIP
    <2>2. Host(h) = h BY ONLY <1>0, <2>1 DEF Host, Or
    <2>3. Len(h) = 1 BY <1>2 DEF IsIPv4
    <2> QED BY <1>1, <2>1, <2>2, <2>3
  <1>3. CASE ~IsIPv4(h) /\ ~IsIPv6(h)
    <2>1. NormalizeIP(h) = << >> BY <1>3, Zenon DEF NormalizeIP
    <2>2. Host(h) = h BY ONLY <2>1 DEF Host, Or
    <2>3. Halves(h) = {} BY <1>3 DEF IsIPv6
    <2> QED BY ONLY <2>1, <2>2, <2>3, h \in Hosts
  <1>4. CASE ~IsIPv4(h) /\ Mapped(h)
    <2> DEFINE g == <<h[4]>>
    <2>0. IsIPv6(h) BY <1>4 DEF IsIPv6
    <2>1. NormalizeIP(h) = g BY <1>4, <2>0, Zenon DEF NormalizeIP
    <2>2. h[4] \in IPv4 /\ Len(h) = 4 /\ h[1] = Nil /\ h[2] = Nil /\ h[3] = FFFF
      BY ONLY <1>4 DEF Mapped
    <2>3. g \in Hosts /\ IsIPv4(g) /\ g # << >> BY ONLY <2>2 DEF Hosts, IsIPv4, IPv4
    <2>4. NormalizeIP(g) = g BY ONLY <2>3, Zenon DEF NormalizeIP
    <2>5. Host(h) = g /\ Host(g) = g BY ONLY <2>1, <2>3, <2>4 DEF Host, Or
    <2>6. ASSUME NEW half \in Halves(h) PROVE FALSE
      <3> DEFINE pre == half[1]
                 post == half[2]
      <3>1. pre \in Seq(0..FFFF) /\ post \in Seq(0..FFFF) /\ h = Shortened(pre, post)
        BY <1>1
      <3> HIDE DEF pre, post
      <3> DEFINE a == IF Len(pre) = 0 THEN 1 ELSE Len(pre)
                 b == IF Len(post) = 0 THEN 1 ELSE Len(post)
      <3>2. /\ Len(h) = a + 1 + b
            /\ \A i \in 1..(a + 1 + b) :
                  h[i] = IF i <= Len(pre) THEN pre[i]
                         ELSE IF i <= a + 1 \/ Len(post) = 0 THEN Nil ELSE post[i - (a + 1)]
        BY ONLY <3>1, ShortenedIs
      <3>3. Len(pre) \in Nat /\ Len(post) \in Nat BY ONLY <3>1
      <3>4. a + 1 + b = 4 /\ a \in Nat /\ b \in Nat /\ a >= 1 /\ b >= 1 /\ (Len(post) # 0 => b = Len(post))
        <4>1. a \in Nat /\ a >= 1 BY ONLY <3>3
        <4>2. b \in Nat /\ b >= 1 /\ (Len(post) # 0 => b = Len(post)) BY ONLY <3>3
        <4>3. a + 1 + b = 4 BY ONLY <2>2, <3>2
        <4> HIDE DEF a, b
        <4> QED BY ONLY <4>1, <4>2, <4>3
      <3> HIDE DEF a, b
      <3>5. h[4] = IF 4 <= Len(pre) THEN pre[4]
                   ELSE IF 4 <= a + 1 \/ Len(post) = 0 THEN Nil ELSE post[4 - (a + 1)]
        <4>1. 4 \in 1..(a + 1 + b) BY ONLY <3>4
        <4> QED BY ONLY <3>2, <4>1
      <3>6. h[4] = 1000 BY ONLY <2>2 DEF IPv4
      <3>7. /\ \A i \in 1..Len(pre) : pre[i] \in 0..FFFF
            /\ \A i \in 1..Len(post) : post[i] \in 0..FFFF
        BY ONLY <3>1, ElementOfSeq
      <3>8. 4 <= Len(pre) => 4 \in 1..Len(pre) BY ONLY <3>3
      <3>9. ~(4 <= a + 1 \/ Len(post) = 0) => 4 - (a + 1) \in 1..Len(post)
        BY ONLY <3>3, <3>4
      <3>10. Nil # 1000 BY DEF Nil
      <3> QED BY ONLY <3>5, <3>6, <3>7, <3>8, <3>9, <3>10, GroupsAreNotNil
    <2> QED BY ONLY <2>1, <2>3, <2>4, <2>5, <2>6
  <1>5. CASE Len(h) = Groups /\ \A i \in DOMAIN h : h[i] \in 0..FFFF
    <2>1. h \in Seq(0..FFFF)
      <3> DEFINE G == 0..FFFF
      <3> HIDE DEF G
      <3>1. h = [i \in 1..Groups |-> h[i]] /\ \A i \in 1..Groups : h[i] \in G
        BY <1>0, <1>5 DEF G
      <3>2. [i \in 1..Groups |-> h[i]] \in Seq(G) BY ONLY <1>00, <3>1
      <3> QED BY ONLY <3>1, <3>2 DEF G
    <2>2. NormalizeIP(h) = h BY ONLY <1>5, <2>1, FullIsNormal
    <2>3. Host(h) = h BY ONLY <1>0, <2>2 DEF Host, Or
    <2>4. ASSUME NEW half \in Halves(h) PROVE Host(h) = Filled(half[1], half[2])
      BY <1>1, <2>2, <2>3
    <2> QED BY ONLY <2>2, <2>3, <2>4, h \in Hosts
  <1>6. CASE Halves(h) # {}
    <2>1. PICK half \in Halves(h) : TRUE BY <1>6
    <2> DEFINE g == Filled(half[1], half[2])
    <2>2. NormalizeIP(h) = g BY <1>1
    <2>3. g \in Seq(0..FFFF) /\ Len(g) = Groups
      <3> DEFINE pre == half[1]
                 post == half[2]
      <3>1. pre \in Seq(0..FFFF) /\ post \in Seq(0..FFFF) /\ Len(pre) + Len(post) < Groups
        BY <1>1
      <3> HIDE DEF pre, post
      <3>2. Filled(pre, post) \in Seq(0..FFFF) /\ Len(Filled(pre, post)) = Groups
        BY ONLY <3>1, FilledIs
      <3> QED BY <3>2 DEF pre, post
    <2> HIDE DEF g
    <2>4. NormalizeIP(g) = g /\ g # << >> /\ g \in Seq(Int) BY ONLY <2>3, FullIsNormal
    <2>5. Host(h) = g /\ Host(g) = g BY ONLY <2>2, <2>4 DEF Host, Or
    <2>6. g \in Hosts BY ONLY <2>4 DEF Hosts
    <2>7. ASSUME NEW other \in Halves(h) PROVE Host(h) = Filled(other[1], other[2])
      BY <1>1, <2>2, <2>5
    <2> QED BY ONLY <2>4, <2>5, <2>6, <2>7
  <1> QED BY ONLY <1>2, <1>3, <1>4, <1>5, <1>6 DEF IsIPv6

\* A host and a port are read back from where they were written, the host in its one
\* spelling.
LEMMA EndpointIsBack ==
    ASSUME NEW h \in Hosts, NEW port
    PROVE  SplitHostAndPort(FormatAddress(h, port)) = [host |-> Host(h), port |-> port]
  <1> DEFINE ip == NormalizeIP(h)
             parts == Append(Host(h), port)
             S == Int \cup {port}
             uri == FormatAddress(h, port)
  <1>1. uri = Uri(ip # << >> /\ ~IsIPv4(ip), parts) BY DEF FormatAddress, Host
  <1>2. uri.parts = parts BY <1>1 DEF Uri
  <1>3. Host(h) \in Hosts /\ Host(Host(h)) = Host(h) BY HostIs
  <1> DEFINE g == Host(h)
  <1>4. g \in Seq(S) /\ Len(g) \in Nat /\ Len(g) # 0
    <2>1. g \in Seq(Int) /\ g # << >> BY <1>3 DEF Hosts
    <2>2. g \in Seq(S)
      <3>1. Int \subseteq S OBVIOUS
      <3> HIDE DEF S, g
      <3> QED BY ONLY <2>1, <3>1, SeqMonotonic
    <2> HIDE DEF g
    <2> QED BY ONLY <2>1, <2>2
  <1>5. port \in S OBVIOUS
  <1> HIDE DEF S, g
  <1>6. Append(g, port) \in Seq(S) /\ Len(Append(g, port)) = Len(g) + 1 /\ Append(g, port)[Len(g) + 1] = port
    BY ONLY <1>4, <1>5, AppendProperties
  <1>7. Front(Append(g, port)) = g /\ Last(Append(g, port)) = port
    <2> DEFINE w == Append(g, port)
               f == SubSeq(w, 1, Len(g))
    <2>0. w \in Seq(S) /\ Len(w) = Len(g) + 1 /\ \A i \in 1..Len(g) : w[i] = g[i]
      BY ONLY <1>4, <1>5, AppendProperties
    <2>00. Last(w) = port BY ONLY <1>6, <2>0 DEF Last
    <2> HIDE DEF w
    <2>1. 1 \in 1..(Len(w) + 1) /\ Len(g) \in (1 - 1)..Len(w) /\ Len(w) - 1 = Len(g)
      BY ONLY <1>4, <2>0
    <2>2. f \in Seq(S) /\ Len(f) = Len(g) - 1 + 1 /\ \A i \in 1..(Len(g) - 1 + 1) : f[i] = w[1 + i - 1]
      BY ONLY <2>0, <2>1, SubSeqProperties
    <2>3. Len(g) - 1 + 1 = Len(g) /\ \A i \in 1..Len(g) : 1 + i - 1 = i BY ONLY <1>4
    <2>4. Front(w) = f BY ONLY <2>1 DEF Front
    <2> HIDE DEF f
    <2>5. Len(f) = Len(g) /\ \A i \in 1..Len(g) : f[i] = g[i] BY ONLY <2>0, <2>2, <2>3
    <2>6. f = g BY ONLY <1>4, <2>2, <2>5, SeqEqual
    <2> QED BY ONLY <2>00, <2>4, <2>6 DEF w
  <1>8. parts = Append(g, port) BY DEF g
  <1> HIDE DEF parts, uri
  <1>9. Len(parts) # 1 BY ONLY <1>4, <1>6, <1>8
  <1>10. SplitHostAndPort(uri) = [host |-> Or(NormalizeIP(Front(parts)), Front(parts)), port |-> Last(parts)]
    BY ONLY <1>2, <1>9 DEF SplitHostAndPort
  <1>11. SplitHostAndPort(uri) = [host |-> Host(g), port |-> port]
    BY ONLY <1>7, <1>8, <1>10 DEF Host
  <1> QED BY ONLY <1>3, <1>11 DEF g, uri

-------------------------------------------------------------------------------
(***************************************************************************)
(* Addresses.                                                              *)
(***************************************************************************)

LEMMA NumberBehindOne ==
    ASSUME NEW f \in Seq(Nat), NEW base \in Nat
    PROVE  /\ NumberUpto(1, f, base, 0) = 1
           /\ \A i \in 0..Len(f) : NumberUpto(1, f, base, i) \in Nat
           /\ \A i \in 1..Len(f) : NumberUpto(1, f, base, i) = NumberUpto(1, f, base, i - 1) * base + f[i]
           /\ Number(1, f, base) = NumberUpto(1, f, base, Len(f))
  <1> DEFINE one == 1
  <1>1. one \in Nat OBVIOUS
  <1> HIDE DEF one
  <1>2. /\ NumberUpto(one, f, base, 0) = one
        /\ \A i \in 0..Len(f) : NumberUpto(one, f, base, i) \in Nat
        /\ \A i \in 1..Len(f) : NumberUpto(one, f, base, i) = NumberUpto(one, f, base, i - 1) * base + f[i]
        /\ Number(one, f, base) = NumberUpto(one, f, base, Len(f))
    BY ONLY <1>1, NumberSteps, f \in Seq(Nat), base \in Nat
  <1> QED BY <1>2 DEF one

\* The number behind a 1 with as many zeros is at most doubled by the figures.
LEMMA BetweenZeros ==
    ASSUME NEW base \in Nat \ {0, 1}, NEW f \in Seq(0..(base - 1))
    PROVE  /\ Number(1, Zeros(Len(f)), base) <= Number(1, f, base)
           /\ Number(1, f, base) <= 2 * Number(1, Zeros(Len(f)), base) - 1
           /\ Number(1, f, base) \in Nat
  <1> DEFINE n == Len(f)
             g == Zeros(n)
             F(i) == NumberUpto(1, f, base, i)
             G(i) == NumberUpto(1, g, base, i)
  <1>1. n \in Nat /\ base \in Nat /\ base >= 2 OBVIOUS
  <1>2. f \in Seq(Nat) /\ \A i \in 1..n : f[i] \in 0..(base - 1)
    <2>1. 0..(base - 1) \subseteq Nat BY <1>1
    <2>2. f \in Seq(Nat) BY ONLY <2>1, SeqMonotonic, f \in Seq(0..(base - 1))
    <2> QED BY ONLY <2>2, ElementOfSeq, f \in Seq(0..(base - 1))
  <1>3. g \in Seq(Nat) /\ Len(g) = n /\ \A i \in 1..n : g[i] = 0 BY <1>1 DEF Zeros
  <1> HIDE DEF g
  <1>4. /\ F(0) = 1 /\ (\A i \in 0..n : F(i) \in Nat) /\ (\A i \in 1..n : F(i) = F(i - 1) * base + f[i])
        /\ Number(1, f, base) = F(n)
    BY ONLY <1>1, <1>2, NumberBehindOne
  <1>5. /\ G(0) = 1 /\ (\A i \in 0..n : G(i) \in Nat) /\ (\A i \in 1..n : G(i) = G(i - 1) * base + g[i])
        /\ Number(1, g, base) = G(n)
    BY ONLY <1>1, <1>3, NumberBehindOne
  <1> HIDE DEF F, G, n
  <1> DEFINE Between == {i \in Nat : i <= n => G(i) <= F(i) /\ F(i) <= 2 * G(i) - 1}
  <1>6. 0 \in Between BY ONLY <1>4, <1>5
  <1>7. ASSUME NEW i \in Nat, i \in Between PROVE i + 1 \in Between
    <2> SUFFICES ASSUME i + 1 <= n PROVE G(i + 1) <= F(i + 1) /\ F(i + 1) <= 2 * G(i + 1) - 1
      OBVIOUS
    <2>1. i + 1 \in 1..n /\ (i + 1) - 1 = i /\ i \in 0..n
      BY ONLY <1>1, i + 1 <= n, i \in Nat
    <2>2. F(i + 1) = F(i) * base + f[i + 1] /\ G(i + 1) = G(i) * base + 0 /\ F(i) \in Nat /\ G(i) \in Nat
      BY ONLY <1>3, <1>4, <1>5, <2>1
    <2>3. f[i + 1] \in 0..(base - 1) BY ONLY <1>2, <2>1
    <2>4. G(i) <= F(i) /\ F(i) <= 2 * G(i) - 1 BY ONLY <2>1, i \in Between
    <2> DEFINE x == F(i)
               z == G(i)
               d == f[i + 1]
    <2>5. x \in Nat /\ z \in Nat /\ d \in 0..(base - 1) /\ z <= x /\ x <= 2 * z - 1
      BY ONLY <2>2, <2>3, <2>4
    <2> HIDE DEF x, z, d
    <2>6. x * base >= z * base /\ x * base <= (2 * z - 1) * base BY ONLY <1>1, <2>5
    <2>7. (2 * z - 1) * base = 2 * (z * base) - base BY ONLY <1>1, <2>5
    <2>8. z * base <= x * base + d /\ x * base + d <= 2 * (z * base) - 1
      BY ONLY <1>1, <2>5, <2>6, <2>7
    <2> QED BY ONLY <2>2, <2>8, <1>1, <2>5 DEF x, z, d
  <1> HIDE DEF Between
  <1>8. n \in Between BY ONLY <1>1, <1>6, <1>7, SetInduction
  <1>9. G(n) <= F(n) /\ F(n) <= 2 * G(n) - 1 /\ F(n) \in Nat
    BY ONLY <1>1, <1>4, <1>8 DEF Between
  <1> QED BY ONLY <1>4, <1>5, <1>9 DEF g, n

\* Such a number has a 1 in front of as many figures.
LEMMA OneIsLeft ==
    ASSUME NEW base \in Nat \ {0, 1}, NEW n \in Nat, NEW m \in Nat,
           Number(1, Zeros(n), base) <= m, m <= 2 * Number(1, Zeros(n), base) - 1
    PROVE  Cut(m, base, n) = 1
  <1> DEFINE g == Zeros(n)
             G(i) == NumberUpto(1, g, base, i)
             C(i) == Cut(m, base, i)
  <1>1. base \in Nat /\ base >= 2 OBVIOUS
  <1>2. g \in Seq(Nat) /\ Len(g) = n /\ \A i \in 1..n : g[i] = 0 BY DEF Zeros
  <1>3. G(n) <= m /\ m <= 2 * G(n) - 1 /\ Number(1, g, base) = G(n)
    <2>1. Number(1, g, base) <= m /\ m <= 2 * Number(1, g, base) - 1 OBVIOUS
    <2> HIDE DEF g
    <2>2. Number(1, g, base) = G(n) BY ONLY <1>1, <1>2, NumberBehindOne
    <2> QED BY ONLY <2>1, <2>2
  <1> HIDE DEF g
  <1>4. G(0) = 1 /\ (\A i \in 0..n : G(i) \in Nat) /\ \A i \in 1..n : G(i) = G(i - 1) * base + g[i]
    BY ONLY <1>1, <1>2, NumberBehindOne
  <1>5. C(0) = m /\ \A i \in Nat : C(i) \in Nat /\ C(i + 1) = C(i) \div base
    BY ONLY <1>1, CutSteps, m \in Nat
  <1> HIDE DEF C, G
  <1> DEFINE Between == {i \in Nat : i <= n => G(n - i) <= C(i) /\ C(i) <= 2 * G(n - i) - 1}
  <1>6. 0 \in Between
    <2>1. n - 0 = n OBVIOUS
    <2> QED BY ONLY <1>3, <1>5, <2>1
  <1>7. ASSUME NEW i \in Nat, i \in Between PROVE i + 1 \in Between
    <2> SUFFICES ASSUME i + 1 <= n PROVE G(n - (i + 1)) <= C(i + 1) /\ C(i + 1) <= 2 * G(n - (i + 1)) - 1
      OBVIOUS
    <2> DEFINE j == n - (i + 1)
    <2>1. j \in 0..n /\ n - i \in 1..n /\ (n - i) - 1 = j /\ i <= n
      BY ONLY i + 1 <= n, i \in Nat, n \in Nat
    <2> DEFINE z == G(j)
               c == C(i)
    <2>2. z \in Nat /\ c \in Nat BY ONLY <1>4, <1>5, <2>1, i \in Nat
    <2>3. G(n - i) = z * base + 0 BY ONLY <1>2, <1>4, <2>1
    <2>4. G(n - i) <= c /\ c <= 2 * G(n - i) - 1 BY ONLY <2>1, i \in Between
    <2>5. C(i + 1) = c \div base BY ONLY <1>5, i \in Nat
    <2> HIDE DEF z, c, j
    <2> DEFINE q == c \div base
               r == c % base
    <2>6. q \in Nat /\ r \in 0..(base - 1) /\ c = q * base + r
      BY ONLY <1>1, <2>2, Quotient
    <2> HIDE DEF q, r
    <2>7. z * base <= c /\ c <= 2 * (z * base) - 1 BY ONLY <1>1, <2>2, <2>3, <2>4
    <2>8. z <= q
      <3> SUFFICES ASSUME q + 1 <= z PROVE FALSE BY <2>2, <2>6
      <3>1. (q + 1) * base <= z * base BY ONLY <1>1, <2>2, <2>6, q + 1 <= z
      <3>2. (q + 1) * base = q * base + base BY ONLY <1>1, <2>6
      <3> QED BY ONLY <1>1, <2>2, <2>6, <2>7, <3>1, <3>2
    <2>9. q <= 2 * z - 1
      <3> SUFFICES ASSUME 2 * z <= q PROVE FALSE BY <2>2, <2>6
      <3>1. (2 * z) * base <= q * base BY ONLY <1>1, <2>2, <2>6, 2 * z <= q
      <3>2. (2 * z) * base = 2 * (z * base) BY ONLY <1>1, <2>2
      <3> QED BY ONLY <1>1, <2>2, <2>6, <2>7, <3>1, <3>2
    <2>10. C(i + 1) = q BY ONLY <2>5 DEF q
    <2> QED BY ONLY <2>8, <2>9, <2>10 DEF j, z
  <1> HIDE DEF Between
  <1>8. n \in Between BY ONLY <1>6, <1>7, SetInduction, n \in Nat
  <1>9. n - n = 0 /\ n <= n OBVIOUS
  <1>10. 1 <= C(n) /\ C(n) <= 2 * 1 - 1 /\ C(n) \in Nat
    BY ONLY <1>4, <1>5, <1>8, <1>9, n \in Nat DEF Between
  <1>11. C(n) = 1 BY ONLY <1>10
  <1> QED BY ONLY <1>11 DEF C

\* The figures behind the 1.
LEMMA OneInFront ==
    ASSUME NEW base \in Nat \ {0, 1}, NEW k \in Nat, NEW m \in Nat, Cut(m, base, k) = 1
    PROVE  Tail(InBase(m, base)) = Figures(m, base, k)
  <1> DEFINE w == Width(m, base)
             S == 0..(base - 1)
             b == base - 1
  <1>1. base \in Nat \ {0} /\ base >= 2 OBVIOUS
  <1>2. Cut(m, base, k + 1) = 0
    <2>1. Cut(m, base, k + 1) = 1 \div base
      BY ONLY <1>1, CutSteps, k \in Nat, m \in Nat, Cut(m, base, k) = 1
    <2>2. (0 * base + 1) \div base = 0
      <3>1. 0 \in Nat /\ 1 \in 0..(base - 1) BY ONLY <1>1
      <3> QED BY ONLY <1>1, <3>1, Division
    <2>3. 0 * base + 1 = 1 BY ONLY <1>1
    <2> QED BY ONLY <2>1, <2>2, <2>3
  <1>3. w = k + 1
    <2>1. w \in Nat /\ \A j \in Nat : j < w <=> Cut(m, base, j) # 0 BY WidthIs
    <2> HIDE DEF w
    <2>2. k < w /\ ~(k + 1 < w) BY ONLY <1>2, <2>1, k \in Nat, Cut(m, base, k) = 1
    <2> QED BY ONLY <2>1, <2>2, k \in Nat
  <1> DEFINE f == Figures(m, base, k + 1)
             g == Figures(m, base, k)
  <1>4. InBase(m, base) = f BY <1>3 DEF InBase
  <1>5. f \in Seq(S) /\ Len(f) = k + 1 /\ g \in Seq(S) /\ Len(g) = k
    <2>1. k + 1 \in Nat OBVIOUS
    <2> QED BY ONLY <1>1, <2>1, k \in Nat, m \in Nat, NumberOfFigures
  <1>6. /\ \A i \in 1..(k + 1) : f[i] = Cut(m, base, (k + 1) - i) % base
        /\ \A i \in 1..k : g[i] = Cut(m, base, k - i) % base
    BY DEF Figures
  <1> HIDE DEF f, g, S
  <1>7. Tail(f) \in Seq(S) /\ Len(Tail(f)) = k /\ \A i \in 1..k : Tail(f)[i] = f[i + 1]
    <2>1. f # << >> BY ONLY <1>5, k \in Nat
    <2>2. Tail(f) \in Seq(S) /\ Len(Tail(f)) = Len(f) - 1 /\ \A i \in 1..(Len(f) - 1) : Tail(f)[i] = f[i + 1]
      BY ONLY <1>5, <2>1, HeadTailProperties
    <2>3. Len(f) - 1 = k BY ONLY <1>5, k \in Nat
    <2> QED BY ONLY <2>2, <2>3
  <1>8. ASSUME NEW i \in 1..k PROVE Tail(f)[i] = g[i]
    <2>1. i + 1 \in 1..(k + 1) /\ (k + 1) - (i + 1) = k - i OBVIOUS
    <2> QED BY ONLY <1>6, <1>7, <2>1, i \in 1..k
  <1>9. Tail(f) = g
    <2>1. \A i \in 1..Len(Tail(f)) : Tail(f)[i] = g[i] BY ONLY <1>7, <1>8
    <2> QED BY ONLY <1>5, <1>7, <2>1, SeqEqual
  <1> QED BY <1>4, <1>9 DEF g

\* The body of an address is read back from its characters.
LEMMA BodyOfAddressIsBack ==
    ASSUME NEW body \in Seq(0..(HalfByte - 1)), Len(body) = BodyLength
    PROVE  Tail(InBase(Number(1, Tail(InBase(Number(1, body, HalfByte), Char32)), Char32), HalfByte)) = body
  <1> DEFINE h == HalfByte
             c == Char32
             k == BodyLength
             m == Number(1, body, h)
  <1>1. h \in Nat \ {0, 1} /\ c \in Nat \ {0, 1} /\ k \in Nat BY AddressAssumption
  <1>2. PICK length \in 1..k : Number(1, Zeros(k), h) = Number(1, Zeros(length), c)
    BY AddressAssumption
  <1>3. body \in Seq(0..(h - 1)) /\ Len(body) = k OBVIOUS
  <1> HIDE DEF h, c, k
  <1>4. m \in Nat /\ Cut(m, h, k) = 1 /\ Figures(m, h, k) = body
    <2>1. h \in Nat \ {0} /\ 1 \in Nat BY ONLY <1>1
    <2> QED BY ONLY <1>3, <2>1, FiguresOfNumber
  <1>5. Number(1, Zeros(k), h) <= m /\ m <= 2 * Number(1, Zeros(k), h) - 1
    BY ONLY <1>1, <1>3, BetweenZeros
  <1> HIDE DEF m
  <1>6. length \in Nat BY ONLY <1>1, length \in 1..k
  <1>7. Cut(m, c, length) = 1 BY ONLY <1>1, <1>2, <1>4, <1>5, <1>6, OneIsLeft
  <1> DEFINE chars == Figures(m, c, length)
  <1>8. Tail(InBase(m, c)) = chars BY ONLY <1>1, <1>4, <1>6, <1>7, OneInFront
  <1>9. Number(1, chars, c) = m
    <2>1. Number(Cut(m, c, length), Figures(m, c, length), c) = m
      BY ONLY <1>1, <1>4, <1>6, NumberOfFigures
    <2> QED BY ONLY <1>7, <2>1
  <1> HIDE DEF chars
  <1>10. Tail(InBase(m, h)) = body BY ONLY <1>1, <1>4, OneInFront
  <1> QED BY ONLY <1>8, <1>9, <1>10 DEF m, h, c, k

\* The 0 of the type that is written as x is a 0 again.
LEMMA TypeOfAddressIsBack ==
    ASSUME NEW type \in [1..2 -> 0..(HalfByte - 1)]
    PROVE  ReplaceAtIndex(ReplaceAtIndex(type, 0, X, 1), X, 0, 0) = type
  <1> DEFINE t == ReplaceAtIndex(type, 0, X, 1)
             u == [type EXCEPT ![2] = X]
  <1>1. Len(type) = 2 /\ DOMAIN type = 1..2 /\ type[1] \in 0..(HalfByte - 1) /\ type[2] \in 0..(HalfByte - 1)
    OBVIOUS
  <1>2. HalfByte \in Nat /\ X = HalfByte BY AddressAssumption DEF X
  <1>3. type[1] # X /\ type[2] # X BY ONLY <1>1, <1>2
  <1>4. CASE type[2] # 0
    <2>1. ~\E i \in (1 + 1)..Len(type) : type[i] = 0
      <3>1. \A i \in (1 + 1)..2 : i = 2 OBVIOUS
      <3> QED BY ONLY <1>1, <1>4, <3>1
    <2>2. t = type BY ONLY <2>1 DEF ReplaceAtIndex
    <2>3. ~\E i \in (0 + 1)..Len(type) : type[i] = X
      <3>1. \A i \in (0 + 1)..2 : i = 1 \/ i = 2 OBVIOUS
      <3> QED BY ONLY <1>1, <1>3, <3>1
    <2>4. ReplaceAtIndex(type, X, 0, 0) = type BY ONLY <2>3 DEF ReplaceAtIndex
    <2> QED BY ONLY <2>2, <2>4
  <1>5. CASE type[2] = 0
    <2> DEFINE P(i) == type[i] = 0 /\ \A j \in (1 + 1)..(i - 1) : type[j] # 0
               next == CHOOSE i \in (1 + 1)..Len(type) : P(i)
               Q(i) == u[i] = X /\ \A j \in (0 + 1)..(i - 1) : u[j] # X
               back == CHOOSE i \in (0 + 1)..Len(u) : Q(i)
    <2>1. next = 2
      <3>1. \A i : i \in (1 + 1)..Len(type) <=> i = 2 BY ONLY <1>1
      <3>2. P(2) BY ONLY <1>5
      <3> HIDE DEF P
      <3> QED BY ONLY <3>1, <3>2
    <2>2. t = IF 1 < 0 \/ 1 >= Len(type) \/ ~\E i \in (1 + 1)..Len(type) : type[i] = 0 THEN type
              ELSE [type EXCEPT ![next] = X]
      BY ONLY DEF ReplaceAtIndex
    <2>3. ~(1 < 0 \/ 1 >= Len(type) \/ ~\E i \in (1 + 1)..Len(type) : type[i] = 0)
      <3>1. 2 \in (1 + 1)..Len(type) /\ ~(1 >= Len(type)) BY ONLY <1>1
      <3> QED BY ONLY <1>5, <3>1
    <2> HIDE DEF next
    <2>4. t = u BY ONLY <2>1, <2>2, <2>3
    <2>5. Len(u) = 2 /\ DOMAIN u = 1..2 /\ u[1] = type[1] /\ u[2] = X
      <3>1. u = [i \in 1..2 |-> u[i]] OBVIOUS
      <3> QED BY <1>1
    <2> HIDE DEF u
    <2>6. back = 2
      <3>1. \A i : i \in (0 + 1)..Len(u) => i = 1 \/ i = 2 BY ONLY <2>5
      <3>2. Q(2) /\ ~Q(1) /\ 2 \in (0 + 1)..Len(u)
        <4>1. \A j \in (0 + 1)..(2 - 1) : j = 1 OBVIOUS
        <4> QED BY ONLY <1>3, <2>5, <4>1
      <3> HIDE DEF Q
      <3> QED BY ONLY <3>1, <3>2
    <2>7. ReplaceAtIndex(u, X, 0, 0) =
              IF 0 < 0 \/ 0 >= Len(u) \/ ~\E i \in (0 + 1)..Len(u) : u[i] = X THEN u ELSE [u EXCEPT ![back] = 0]
      BY ONLY DEF ReplaceAtIndex
    <2>8. ~(0 < 0 \/ 0 >= Len(u) \/ ~\E i \in (0 + 1)..Len(u) : u[i] = X)
      <3>1. 2 \in (0 + 1)..Len(u) /\ ~(0 >= Len(u)) BY ONLY <2>5
      <3> QED BY ONLY <2>5, <3>1
    <2> HIDE DEF back
    <2>9. ReplaceAtIndex(u, X, 0, 0) = [u EXCEPT ![2] = 0] BY ONLY <2>6, <2>7, <2>8
    <2>10. [u EXCEPT ![2] = 0] = type BY <1>1, <1>5, <2>5 DEF u
    <2> HIDE DEF t
    <2> QED BY <2>4, <2>9, <2>10 DEF t
  <1> QED BY ONLY <1>4, <1>5

\* An address is read back from its text.
LEMMA AddressIsBack ==
    ASSUME NEW v \in AddressTexts
    PROVE  ToAddressHex(FromAddressHex(v)) = v
  <1> DEFINE h == 0..(HalfByte - 1)
             b == v.body
  <1>1. /\ v.type \in [1..2 -> h] /\ b \in [1..BodyLength -> h]
        /\ v = [type |-> v.type, body |-> b]
    BY DEF AddressTexts
  <1>2. b \in Seq(h) /\ Len(b) = BodyLength
    <2>1. BodyLength \in Nat BY AddressAssumption
    <2>2. b = [i \in 1..BodyLength |-> b[i]] /\ \A i \in 1..BodyLength : b[i] \in h
      BY <1>1
    <2> HIDE DEF b, h
    <2> QED BY ONLY <2>1, <2>2
  <1>3. ReplaceAtIndex(ReplaceAtIndex(v.type, 0, X, 1), X, 0, 0) = v.type
    BY <1>1, TypeOfAddressIsBack
  <1>4. Tail(InBase(Number(1, Tail(InBase(Number(1, b, HalfByte), Char32)), Char32), HalfByte)) = b
    <2> HIDE DEF b
    <2> QED BY ONLY <1>2, BodyOfAddressIsBack
  <1> DEFINE text == FromAddressHex(v)
  <1>5. /\ text.type = ReplaceAtIndex(v.type, 0, X, 1)
        /\ text.chars = Tail(InBase(Number(1, b, HalfByte), Char32))
    BY DEF FromAddressHex
  <1> HIDE DEF text
  <1>6. ToAddressHex(text) = [type |-> v.type, body |-> b]
    BY <1>3, <1>4, <1>5 DEF ToAddressHex
  <1> QED BY <1>1, <1>6 DEF text

-------------------------------------------------------------------------------
(***************************************************************************)
(* What is read of any bytes at all.                                       *)
(***************************************************************************)

LEMMA FailedIsNothing ==
    ASSUME NEW w, NEW len
    PROVE  Failed # Decoded(w, len)
  BY Outcomes

LEMMA SameDecoded ==
    ASSUME NEW a, NEW b, NEW m, NEW n, Decoded(a, m) = Decoded(b, n)
    PROVE  a = b /\ m = n
  BY Outcomes

LEMMA NextItemGives ==
    ASSUME NEW d, Reads(d), NEW class \in Classes, NEW p \in Seq(Elements), NEW v, NEW l \in Nat
    PROVE  LET next == NextItem(d, class, p, Decoded(v, l)) IN
           next = Failed \/ \E w : \E k \in Nat : /\ d[<<class, From(p, l)>>] = Decoded(w, k)
                                                  /\ next = Decoded(Append(v, w), l + k)
  <1> DEFINE r == Decoded(v, l)
             next == NextItem(d, class, p, r)
             value == d[<<class, From(p, l)>>]
  <1>1. r.ok /\ r.length = l BY Outcomes
  <1>2. Outcome(value)
    <2>1. << >> \in Seq(Elements) /\ From(p, l) \in Seq(Elements) BY FromTyped
    <2> QED BY <2>1 DEF Reads, Parted
  <1>3. next = WithItem(r, value) BY <1>1, Zenon DEF NextItem
  <1>4. CASE value = Failed
    <2>1. ~value.ok BY <1>4, Outcomes
    <2> HIDE DEF next, value
    <2>2. next = Failed BY ONLY <1>3, <2>1, Zenon DEF WithItem
    <2> QED BY ONLY <2>2 DEF next, r
  <1>5. CASE \E w : \E k \in Nat : value = Decoded(w, k)
    <2>1. PICK w, k : k \in Nat /\ value = Decoded(w, k) BY <1>5
    <2>2. next = Decoded(Append(v, w), l + k)
      <3>1. d[<<class, From(p, l)>>] = Decoded(w, k) BY ONLY <2>1 DEF value
      <3>2. NextItem(d, class, p, Decoded(v, l)) = Decoded(Append(v, w), l + k)
        BY ONLY <3>1, NextItemIs
      <3> QED BY ONLY <3>2 DEF next, r
    <2> QED BY ONLY <2>1, <2>2 DEF value, next, r
  <1> QED BY ONLY <1>2, <1>4, <1>5 DEF Outcome

LEMMA NextFieldGives ==
    ASSUME NEW d, NEW field, FieldReads(d, field), NEW p \in Seq(Elements), NEW v, NEW l \in Nat
    PROVE  \/ NextField(d, field, p, Decoded(v, l)) = Failed
           \/ \E w : \E k \in Nat : /\ DecodeField(d, field, From(p, l)) = Decoded(w, k)
                                    /\ NextField(d, field, p, Decoded(v, l)) = Decoded(Updated(v, field.key, w), l + k)
  <1> DEFINE r == Decoded(v, l)
             next == NextField(d, field, p, r)
             value == DecodeField(d, field, From(p, l))
  <1>1. r.ok /\ r.length = l BY Outcomes
  <1>2. Outcome(value)
    <2>1. << >> \in Seq(Elements) /\ From(p, l) \in Seq(Elements) BY FromTyped
    <2> QED BY <2>1 DEF FieldReads, Parted
  <1>3. next = WithField(r, field.key, value) BY <1>1, Zenon DEF NextField
  <1>4. CASE value = Failed
    <2>1. ~value.ok BY <1>4, Outcomes
    <2> HIDE DEF next, value
    <2>2. next = Failed BY ONLY <1>3, <2>1, Zenon DEF WithField
    <2> QED BY ONLY <2>2 DEF next, r
  <1>5. CASE \E w : \E k \in Nat : value = Decoded(w, k)
    <2>1. PICK w, k : k \in Nat /\ value = Decoded(w, k) BY <1>5
    <2>2. next = Decoded(Updated(v, field.key, w), l + k)
      BY ONLY <2>1, NextFieldIs DEF value, next, r, Updated
    <2> QED BY ONLY <2>1, <2>2 DEF value, next, r
  <1> QED BY ONLY <1>2, <1>4, <1>5 DEF Outcome

LEMMA GivesList ==
    ASSUME NEW d, Reads(d), NEW class \in Classes, NEW S \in SUBSET Elements, NEW W, Gives(d, class, S, W),
           NEW q \in Seq(S), NEW len \in Nat, NEW list, NEW length, DecodeArray(d, q, len, class) = Decoded(list, length)
    PROVE  list \in Counted(W, len)
  <1> DEFINE u == Upto(q, len)
             n == ToInt(u)
             L(i) == Loop(ItemsOf(d, class, q), Decoded(<< >>, len), i)
  <1>0. q \in Seq(Elements) BY SeqOfElements
  <1>1. n \in Nat /\ Cut(n, Base, len) = 0
    <2>1. u \in Seq(Elements) /\ Len(u) \in Nat /\ Len(u) <= len
      <3>1. u \in Seq(Elements) /\ Len(u) = (IF len < Len(q) THEN len ELSE Len(q))
        BY ONLY <1>0, PartsOf, len \in Nat
      <3>2. Len(q) \in Nat BY <1>0
      <3> HIDE DEF u
      <3> QED BY ONLY <3>1, <3>2, len \in Nat
    <2> HIDE DEF u
    <2>2. ToInt(u) \in Nat /\ Cut(ToInt(u), Base, Len(u)) = 0 BY ONLY <2>1, ToIntOf
    <2>3. Base \in Nat \ {0, 1} BY BaseFacts
    <2>4. Cut(ToInt(u), Base, len) = 0 BY ONLY <2>1, <2>2, <2>3, CutDown, len \in Nat
    <2> QED BY ONLY <2>2, <2>4 DEF n
  <1>2. DecodeArray(d, q, len, class) = L(n) BY <1>1, ItemsLoop
  <1>3. L(0) = Decoded(<< >>, len) /\ \A i \in Nat : L(i + 1) = NextItem(d, class, q, L(i))
    <2>1. \A i, r : Step(ItemsOf(d, class, q), i, r) = NextItem(d, class, q, r)
      BY DEF Step, ItemsOf
    <2> QED BY <2>1, LoopSteps
  <1> HIDE DEF n, L
  <1> DEFINE Got(i) == \E v \in Seq(W) : \E l \in Nat : Len(v) = i /\ L(i) = Decoded(v, l)
             I == {i \in Nat : L(i) = Failed \/ Got(i)}
  <1>4. 0 \in I
    <2>1. << >> \in Seq(W) /\ Len(<< >>) = 0 OBVIOUS
    <2> QED BY <1>3, <2>1
  <1>5. ASSUME NEW i \in Nat, i \in I PROVE i + 1 \in I
    <2>1. L(i + 1) = NextItem(d, class, q, L(i)) BY <1>3
    <2>2. CASE L(i) = Failed
      <3>1. ~L(i).ok BY <2>2, Outcomes
      <3>2. L(i + 1) = Failed BY ONLY <2>1, <3>1, Zenon DEF NextItem
      <3> QED BY <3>2
    <2>3. CASE Got(i)
      <3>1. PICK v \in Seq(W), l \in Nat : Len(v) = i /\ L(i) = Decoded(v, l) BY <2>3
      <3>2. \/ L(i + 1) = Failed
            \/ \E w : \E k \in Nat : /\ d[<<class, From(q, l)>>] = Decoded(w, k)
                                     /\ L(i + 1) = Decoded(Append(v, w), l + k)
        <4>1. LET next == NextItem(d, class, q, Decoded(v, l)) IN
              next = Failed \/ \E w : \E k \in Nat : /\ d[<<class, From(q, l)>>] = Decoded(w, k)
                                                     /\ next = Decoded(Append(v, w), l + k)
          BY ONLY <1>0, NextItemGives, Reads(d), class \in Classes, l \in Nat
        <4> QED BY ONLY <2>1, <3>1, <4>1
      <3>3. CASE L(i + 1) = Failed
        BY <3>3
      <3>4. CASE L(i + 1) # Failed
        <4>1. PICK w, k : k \in Nat /\ d[<<class, From(q, l)>>] = Decoded(w, k) /\ L(i + 1) = Decoded(Append(v, w), l + k)
          BY ONLY <3>2, <3>4
        <4>2. From(q, l) \in Seq(S) BY FromTyped
        <4>3. w \in W BY ONLY <4>1, <4>2, Gives(d, class, S, W) DEF Gives
        <4>4. Append(v, w) \in Seq(W) /\ Len(Append(v, w)) = i + 1
          BY ONLY <3>1, <4>3, AppendProperties
        <4>5. l + k \in Nat BY <4>1
        <4>6. Got(i + 1) BY ONLY <4>1, <4>4, <4>5
        <4> HIDE DEF Got
        <4> QED BY ONLY <4>6, i \in Nat
      <3> QED BY ONLY <3>3, <3>4
    <2> HIDE DEF Got
    <2> QED BY ONLY <2>2, <2>3, i \in I
  <1> HIDE DEF I
  <1>6. n \in I BY ONLY <1>1, <1>4, <1>5, SetInduction
  <1>7. L(n) = Decoded(list, length) BY <1>2
  <1>8. L(n) # Failed BY <1>7, Outcomes
  <1>9. PICK v \in Seq(W), l \in Nat : Len(v) = n /\ L(n) = Decoded(v, l)
    BY ONLY <1>6, <1>8 DEF I
  <1>10. v = list
    <2>1. Decoded(v, l) = Decoded(list, length) BY ONLY <1>7, <1>9
    <2> QED BY ONLY <2>1, SameDecoded
  <1> QED BY ONLY <1>1, <1>9, <1>10 DEF Counted

LEMMA FieldsGive ==
    ASSUME NEW d, Reads(d), NEW S \in SUBSET Elements, NEW field, IsField(field)
    PROVE  /\ field.kind = "fixed" => GivesField(d, field, S, {w \in Seq(S) : Len(w) = field.len})
           /\ field.kind = "bigint" => GivesField(d, field, S, Numbers)
           /\ field.kind = "custom" => GivesField(d, field, S, Seq(S))
           /\ \A W : field.kind = "object" /\ Gives(d, field.target, S, W) => GivesField(d, field, S, W)
           /\ \A W : field.kind = "array" /\ Gives(d, field.target, S, W) => GivesField(d, field, S, Counted(W, field.len))
  <1>1. field.kind \in Kinds /\ field.len \in Nat /\ (field.kind \in {"array", "object"} => field.target \in Classes)
    BY DEF IsField
  <1>2. ASSUME field.kind = "fixed", NEW q \in Seq(S), NEW w, NEW len, DecodeField(d, field, q) = Decoded(w, len)
        PROVE  w \in {v \in Seq(S) : Len(v) = field.len}
    <2>1. DecodeField(d, field, q) = Taken(q, 0, field.len)
      BY <1>2 DEF DecodeField, DecodeFixed
    <2>2. Taken(q, 0, field.len) = Failed
          \/ \E v \in Seq(S) : Len(v) = field.len /\ Taken(q, 0, field.len) = Decoded(v, 0 + field.len)
      <3>1. << >> \in Seq(S) /\ 0 \in Nat OBVIOUS
      <3> QED BY ONLY <1>1, <3>1, TakenStays, q \in Seq(S)
    <2>3. Failed # Decoded(w, len) BY FailedIsNothing
    <2>4. PICK v \in Seq(S) : Len(v) = field.len /\ Decoded(v, 0 + field.len) = Decoded(w, len)
      BY ONLY <1>2, <2>1, <2>2, <2>3
    <2>5. v = w BY ONLY <2>4, SameDecoded
    <2> QED BY ONLY <2>4, <2>5
  <1>3. ASSUME field.kind = "bigint", NEW q \in Seq(S), NEW w, NEW len, DecodeField(d, field, q) = Decoded(w, len)
        PROVE  w \in Numbers
    <2>1. DecodeField(d, field, q) = DecodeBigInt(q) BY <1>3 DEF DecodeField
    <2>2. DecodeBigInt(q) = Failed \/ \E n \in Numbers, l \in Nat : DecodeBigInt(q) = Decoded(n, l)
      <3>1. q \in Seq(Elements) BY SeqOfElements
      <3> QED BY ONLY <3>1, BigIntStays
    <2>3. Failed # Decoded(w, len) BY FailedIsNothing
    <2>4. PICK n \in Numbers, l \in Nat : Decoded(n, l) = Decoded(w, len)
      BY ONLY <1>3, <2>1, <2>2, <2>3
    <2>5. n = w BY ONLY <2>4, SameDecoded
    <2> QED BY ONLY <2>4, <2>5
  <1>4. ASSUME field.kind = "custom", NEW q \in Seq(S), NEW w, NEW len, DecodeField(d, field, q) = Decoded(w, len)
        PROVE  w \in Seq(S)
    <2>1. DecodeField(d, field, q) = DecodeCustom(q) BY <1>4 DEF DecodeField
    <2>2. DecodeCustom(q) = Failed \/ \E v \in Seq(S), l \in Nat : DecodeCustom(q) = Decoded(v, l)
      <3>1. << >> \in Seq(Elements) OBVIOUS
      <3> QED BY ONLY <3>1, CustomStays, q \in Seq(S), S \in SUBSET Elements
    <2>3. Failed # Decoded(w, len) BY FailedIsNothing
    <2>4. PICK v \in Seq(S), l \in Nat : Decoded(v, l) = Decoded(w, len)
      BY ONLY <1>4, <2>1, <2>2, <2>3
    <2>5. v = w BY ONLY <2>4, SameDecoded
    <2> QED BY ONLY <2>4, <2>5
  <1>5. ASSUME NEW W, field.kind = "object", Gives(d, field.target, S, W),
               NEW q \in Seq(S), NEW w, NEW len, DecodeField(d, field, q) = Decoded(w, len)
        PROVE  w \in W
    <2>1. DecodeField(d, field, q) = d[<<field.target, q>>] BY <1>5 DEF DecodeField
    <2> QED BY ONLY <1>5, <2>1 DEF Gives
  <1>6. ASSUME NEW W, field.kind = "array", Gives(d, field.target, S, W),
               NEW q \in Seq(S), NEW w, NEW len, DecodeField(d, field, q) = Decoded(w, len)
        PROVE  w \in Counted(W, field.len)
    <2>1. DecodeField(d, field, q) = DecodeArray(d, q, field.len, field.target)
      BY <1>6 DEF DecodeField
    <2>2. DecodeArray(d, q, field.len, field.target) = Decoded(w, len)
      BY ONLY <1>6, <2>1
    <2>3. field.target \in Classes BY ONLY <1>1, <1>6
    <2> QED BY ONLY <1>1, <1>6, <2>2, <2>3, Reads(d), S \in SUBSET Elements, GivesList
  <1> QED BY ONLY <1>2, <1>3, <1>4, <1>5, <1>6 DEF GivesField

LEMMA OneMoreTyped ==
    ASSUME NEW class \in Classes, KeysDiffer(class), NEW V, NEW o, NEW i \in Nat, i + 1 <= Len(Settings(class)),
           Typed(class, V, o, i), NEW w \in V[i + 1]
    PROVE  Typed(class, V, [o EXCEPT ![KeyOf(class, i + 1)] = w], i + 1)
  <1> DEFINE K == DOMAIN Blank(class)
             n == Len(Settings(class))
             key(j) == KeyOf(class, j)
             new == key(i + 1)
             P(m, k) == \E j \in 1..m : key(j) = k
             u == [o EXCEPT ![new] = w]
  <1>1. n \in Nat /\ i + 1 \in 1..n /\ new \in K
    <2>1. n \in Nat BY FieldsOfSettings
    <2>2. i + 1 \in 1..n BY <2>1
    <2> QED BY <2>1, <2>2, BlankIs
  <1>2. o = [k \in K |-> IF P(i, k) THEN o[k] ELSE << >>] BY DEF Typed, FirstFields
  <1>3. \A k : P(i + 1, k) <=> P(i, k) \/ k = new
    <2>1. 1..(i + 1) = (1..i) \cup {i + 1} OBVIOUS
    <2> HIDE DEF key
    <2> QED BY ONLY <2>1
  <1>4. FirstFields(class, u, i + 1) = [k \in K |-> IF P(i + 1, k) THEN u[k] ELSE << >>]
    BY DEF FirstFields
  <1>5. \A j \in 1..i : j \in 1..n /\ j # i + 1 BY ONLY <1>1, i \in Nat
  <1>6. \A j \in 1..i : key(j) # new
    BY ONLY <1>1, <1>5, KeysDiffer(class) DEF KeysDiffer
  <1>7. \A j \in 1..i : key(j) \in K /\ o[key(j)] \in V[j]
    <2>1. \A j \in 1..n : key(j) \in K BY BlankIs
    <2>2. \A j \in 1..i : o[key(j)] \in V[j] BY DEF Typed
    <2> QED BY ONLY <1>5, <2>1, <2>2
  <1> HIDE DEF K, n, new, P, key
  <1>8. u = [k \in K |-> IF k = new THEN w ELSE o[k]] BY ONLY <1>1, <1>2
  <1>9. [k \in K |-> IF P(i + 1, k) THEN u[k] ELSE << >>] = u
    <2>1. \A k \in K : ~P(i, k) => o[k] = << >> BY ONLY <1>2
    <2>2. \A k \in K : u[k] = IF k = new THEN w ELSE o[k] BY ONLY <1>8
    <2>3. \A k \in K : (IF P(i + 1, k) THEN u[k] ELSE << >>) = u[k]
      BY ONLY <1>3, <2>1, <2>2
    <2>4. [k \in K |-> IF P(i + 1, k) THEN u[k] ELSE << >>] = [k \in K |-> u[k]]
      BY ONLY <2>3
    <2>5. u = [k \in K |-> u[k]] BY ONLY <1>8
    <2> QED BY ONLY <2>4, <2>5
  <1>10. ASSUME NEW j \in 1..(i + 1) PROVE u[key(j)] \in V[j]
    <2>1. j = i + 1 \/ j \in 1..i BY ONLY i \in Nat, j \in 1..(i + 1)
    <2>2. CASE j = i + 1
      BY ONLY <1>1, <1>8, <2>2, w \in V[i + 1] DEF new
    <2>3. CASE j \in 1..i
      BY ONLY <1>6, <1>7, <1>8, <2>3
    <2> QED BY ONLY <2>1, <2>2, <2>3
  <1>11. FirstFields(class, u, i + 1) = u BY ONLY <1>4, <1>9
  <1> QED BY ONLY <1>10, <1>11 DEF Typed, u, new, key

LEMMA FieldsFound ==
    ASSUME NEW d, Reads(d), NEW class \in Classes, KeysDiffer(class), NEW S \in SUBSET Elements,
           NEW V, \A i \in 1..Len(Settings(class)) : GivesField(d, Settings(class)[i], S, V[i]),
           NEW p \in Seq(S), NEW o, NEW len, DecodeFields(d, class, p) = Decoded(o, len)
    PROVE  Typed(class, V, o, Len(Settings(class)))
  <1> DEFINE n    == Len(Settings(class))
             field(i) == Settings(class)[i]
             L(i) == Loop(FieldsOf(d, class, p), Decoded(Blank(class), 0), i)
  <1>0. p \in Seq(Elements) BY SeqOfElements
  <1>1. n \in Nat /\ \A i \in 1..n : FieldReads(d, field(i)) /\ field(i).key = KeyOf(class, i)
    BY FieldsOfSettings, EveryFieldReads DEF KeyOf
  <1>2. DecodeFields(d, class, p) = L(n) BY <1>1, FieldsLoop
  <1>3. L(0) = Decoded(Blank(class), 0) /\ \A i \in Nat : L(i + 1) = NextField(d, field(i + 1), p, L(i))
    <2>1. \A i, r : Step(FieldsOf(d, class, p), i, r) = NextField(d, field(i), p, r)
      BY DEF Step, FieldsOf
    <2> HIDE DEF field
    <2> QED BY <2>1, LoopSteps
  <1> DEFINE Gained(i, v, l) ==
            \/ NextField(d, field(i), p, Decoded(v, l)) = Failed
            \/ \E w : \E k \in Nat : /\ DecodeField(d, field(i), From(p, l)) = Decoded(w, k)
                                     /\ NextField(d, field(i), p, Decoded(v, l)) = Decoded(Updated(v, field(i).key, w), l + k)
  <1>4. \A i \in 1..n : \A v : \A l \in Nat : Gained(i, v, l)
    <2> TAKE i \in 1..n
    <2> TAKE v
    <2> TAKE l \in Nat
    <2> DEFINE f == field(i)
    <2>1. FieldReads(d, f) BY <1>1
    <2> HIDE DEF f
    <2>2. \/ NextField(d, f, p, Decoded(v, l)) = Failed
          \/ \E w : \E k \in Nat : /\ DecodeField(d, f, From(p, l)) = Decoded(w, k)
                                   /\ NextField(d, f, p, Decoded(v, l)) = Decoded(Updated(v, f.key, w), l + k)
      BY ONLY <1>0, <2>1, NextFieldGives, l \in Nat
    <2> QED BY ONLY <2>2 DEF f
  <1>5. \A i \in 1..n : \A q \in Seq(S) : \A w, k : DecodeField(d, field(i), q) = Decoded(w, k) => w \in V[i]
    BY DEF GivesField
  <1>6. Typed(class, V, Blank(class), 0)
    <2>1. FirstFields(class, Blank(class), 0) = Blank(class) BY BlankIs DEF FirstFields
    <2> QED BY <2>1 DEF Typed
  <1> DEFINE T(v, i) == Typed(class, V, v, i)
             Got(i) == \E v : \E l \in Nat : T(v, i) /\ L(i) = Decoded(v, l)
  <1>7. \A i \in Nat : i + 1 <= n => \A v : \A w \in V[i + 1] : T(v, i) => T(Updated(v, KeyOf(class, i + 1), w), i + 1)
    BY OneMoreTyped DEF Updated
  <1> HIDE DEF n, L, field, T, Gained
  <1> DEFINE I == {i \in Nat : i <= n => L(i) = Failed \/ Got(i)}
  <1>8. 0 \in I
    <2>1. T(Blank(class), 0) BY <1>6 DEF T
    <2> QED BY ONLY <1>3, <2>1
  <1>9. ASSUME NEW i \in Nat, i \in I PROVE i + 1 \in I
    <2> SUFFICES ASSUME i + 1 <= n PROVE L(i + 1) = Failed \/ Got(i + 1) OBVIOUS
    <2>0. i <= n /\ i + 1 \in 1..n BY <1>1
    <2>1. L(i + 1) = NextField(d, field(i + 1), p, L(i)) BY <1>3
    <2>2. CASE L(i) = Failed
      <3>1. ~L(i).ok BY <2>2, Outcomes
      <3>2. L(i + 1) = Failed BY ONLY <2>1, <3>1, Zenon DEF NextField
      <3> QED BY <3>2
    <2>3. CASE Got(i)
      <3>1. PICK v, l : l \in Nat /\ T(v, i) /\ L(i) = Decoded(v, l) BY <2>3
      <3> DEFINE f == field(i + 1)
      <3>2. \/ L(i + 1) = Failed
            \/ \E w : \E k \in Nat : /\ DecodeField(d, f, From(p, l)) = Decoded(w, k)
                                     /\ L(i + 1) = Decoded(Updated(v, f.key, w), l + k)
        <4> DEFINE j == i + 1
        <4>1. j \in 1..n /\ L(j) = NextField(d, field(j), p, Decoded(v, l)) /\ l \in Nat
          BY ONLY <2>0, <2>1, <3>1
        <4> HIDE DEF j
        <4>2. \/ NextField(d, field(j), p, Decoded(v, l)) = Failed
              \/ \E w : \E k \in Nat : /\ DecodeField(d, field(j), From(p, l)) = Decoded(w, k)
                                       /\ NextField(d, field(j), p, Decoded(v, l)) = Decoded(Updated(v, field(j).key, w), l + k)
          <5>1. j \in 1..n /\ l \in Nat BY ONLY <4>1
          <5>2. Gained(j, v, l) BY ONLY <1>4, <5>1
          <5> QED BY ONLY <5>2 DEF Gained
        <4> QED BY ONLY <4>1, <4>2 DEF j
      <3>3. CASE L(i + 1) # Failed
        <4> HIDE DEF f
        <4>1. PICK w, k : /\ k \in Nat /\ DecodeField(d, f, From(p, l)) = Decoded(w, k)
                          /\ L(i + 1) = Decoded(Updated(v, f.key, w), l + k)
          BY ONLY <3>2, <3>3
        <4>2. From(p, l) \in Seq(S) BY <3>1, FromTyped
        <4>3. w \in V[i + 1] BY ONLY <1>5, <2>0, <4>1, <4>2 DEF f
        <4>4. f.key = KeyOf(class, i + 1) BY ONLY <1>1, <2>0 DEF f
        <4>5. T(Updated(v, f.key, w), i + 1)
          BY ONLY <1>7, <3>1, <4>3, <4>4, i \in Nat, i + 1 <= n
        <4>6. l + k \in Nat BY <3>1, <4>1
        <4> DEFINE data == Updated(v, f.key, w)
                   at == l + k
        <4>7. T(data, i + 1) /\ at \in Nat /\ L(i + 1) = Decoded(data, at)
          BY ONLY <4>1, <4>5, <4>6
        <4> HIDE DEF data, at
        <4> QED BY ONLY <4>7
      <3> QED BY ONLY <3>3
    <2>4. L(i) = Failed \/ Got(i) BY <2>0, <1>9
    <2> HIDE DEF Got
    <2> QED BY ONLY <2>2, <2>3, <2>4
  <1> HIDE DEF I
  <1>10. n \in I BY ONLY <1>1, <1>8, <1>9, SetInduction
  <1>11. L(n) = Decoded(o, len) BY <1>2
  <1>12. L(n) # Failed BY <1>11, Outcomes
  <1>13. n <= n BY ONLY <1>1
  <1>14. PICK v, l : l \in Nat /\ T(v, n) /\ L(n) = Decoded(v, l)
    BY ONLY <1>10, <1>12, <1>13 DEF I
  <1>15. Decoded(v, l) = Decoded(o, len) BY ONLY <1>11, <1>14
  <1>16. v = o BY ONLY <1>15, SameDecoded
  <1> QED BY ONLY <1>14, <1>16 DEF T, n

\* An object of a class is what its fields make of it.
LEMMA PartFound ==
    ASSUME NEW d, Reads(d), NEW class \in Classes, NEW p \in Seq(Elements), NEW w, NEW len,
           Decoder(d)[<<class, p>>] = Decoded(w, len)
    PROVE  \E o, l : DecodeFields(d, class, p) = Decoded(o, l) /\ FromDict(class, o) = Decoded(w, 0)
  <1> DEFINE fields == DecodeFields(d, class, p)
             r == FromFields(class, fields)
  <1>1. r = Decoded(w, len) BY DecoderIs
  <1>2. Outcome(fields)
    <2>1. << >> \in Seq(Elements) OBVIOUS
    <2> QED BY <2>1, FieldsReads DEF Parted
  <1> HIDE DEF fields
  <1>3. fields # Failed
    <2> SUFFICES ASSUME fields = Failed PROVE FALSE OBVIOUS
    <2>1. ~fields.ok BY Outcomes
    <2>2. r = Failed BY ONLY <2>1, Zenon DEF FromFields
    <2> QED BY ONLY <1>1, <2>2, FailedIsNothing
  <1>4. PICK o, l : l \in Nat /\ fields = Decoded(o, l) BY ONLY <1>2, <1>3 DEF Outcome
  <1>5. fields.ok /\ fields.data = o /\ fields.length = l BY <1>4, Outcomes
  <1>6. r = Completed(FromDict(class, o), l) BY <1>5, Zenon DEF FromFields
  <1>7. FromDict(class, o) # Failed
    <2> SUFFICES ASSUME FromDict(class, o) = Failed PROVE FALSE OBVIOUS
    <2>1. r = Failed
      BY ONLY <1>6, FromDict(class, o) = Failed, Outcomes, Zenon DEF Completed
    <2> QED BY ONLY <1>1, <2>1, FailedIsNothing
  <1>8. PICK v : FromDict(class, o) = Decoded(v, 0) BY <1>7, FromDictIs
  <1>9. r = Decoded(v, l)
    <2>1. Decoded(v, 0).ok /\ Decoded(v, 0).data = v BY Outcomes
    <2> QED BY ONLY <1>6, <1>8, <2>1, Zenon DEF Completed
  <1>10. v = w
    <2>1. Decoded(v, l) = Decoded(w, len) BY ONLY <1>1, <1>9
    <2> QED BY ONLY <2>1, SameDecoded
  <1> QED BY ONLY <1>4, <1>8, <1>10 DEF fields

LEMMA OneOfIsWord ==
    ASSUME NEW S \in SUBSET Elements
    PROVE  OneOf(S) \subseteq Words(1) /\ Seq(S) \subseteq Seq(Elements)
  BY SeqOfElements DEF OneOf, Words

LEMMA KeysOfTransactionsDiffer == KeysDiffer("Transaction") /\ KeysDiffer("Block")
  <1>1. /\ KeyOf("Transaction", 1) = "version" /\ KeyOf("Transaction", 2) = "txid"
        /\ KeyOf("Transaction", 3) = "recipientAddress" /\ KeyOf("Transaction", 4) = "amount"
        /\ KeyOf("Transaction", 5) = "nonce" /\ KeyOf("Transaction", 6) = "timestamp"
        /\ KeyOf("Transaction", 7) = "input" /\ KeyOf("Transaction", 8) = "signature"
        /\ Len(Settings("Transaction")) = 8
    BY TransactionFieldsAre, KeysOfFields DEF KeyOf
  <1>2. /\ KeyOf("Block", 1) = "version" /\ KeyOf("Block", 2) = "index" /\ KeyOf("Block", 3) = "slotIndex"
        /\ KeyOf("Block", 4) = "hash" /\ KeyOf("Block", 5) = "previousHash" /\ KeyOf("Block", 6) = "timestamp"
        /\ KeyOf("Block", 7) = "signature" /\ KeyOf("Block", 8) = "body" /\ Len(Settings("Block")) = 8
    BY BlockFieldsAre, KeysOfFields DEF KeyOf
  <1>3. \A i \in 1..8 : i = 1 \/ i = 2 \/ i = 3 \/ i = 4 \/ i = 5 \/ i = 6 \/ i = 7 \/ i = 8
    OBVIOUS
  <1>4. KeysDiffer("Transaction") BY ONLY <1>1, <1>3 DEF KeysDiffer
  <1>5. KeysDiffer("Block") BY ONLY <1>2, <1>3 DEF KeysDiffer
  <1> QED BY <1>4, <1>5

LEMMA FieldsOfClass ==
    ASSUME NEW class \in Classes, NEW i \in 1..Len(Settings(class))
    PROVE  IsField(Settings(class)[i])
  BY FieldsOfSettings

LEMMA TransactionsGiven ==
    ASSUME NEW d, Reads(d), NEW S \in SUBSET Elements
    PROVE  Gives(Decoder(d), "Transaction", S, ReadTransactions)
  <1> DEFINE c == "Transaction"
             f(i) == Settings(c)[i]
             W == OneOf(S)
             V == <<W, W, W, Numbers, Numbers, Numbers, Seq(S), W>>
  <1> SUFFICES ASSUME NEW q \in Seq(S), NEW w, NEW len, Decoder(d)[<<c, q>>] = Decoded(w, len)
               PROVE  w \in ReadTransactions
    BY DEF Gives
  <1>0. c \in Classes /\ q \in Seq(Elements) /\ Len(Settings(c)) = 8
    BY SeqOfElements, TransactionFieldsAre DEF Classes
  <1>1. /\ f(1).kind = "fixed" /\ f(1).len = 1 /\ f(2).kind = "fixed" /\ f(2).len = 1
        /\ f(3).kind = "fixed" /\ f(3).len = 1 /\ f(4).kind = "bigint" /\ f(5).kind = "bigint"
        /\ f(6).kind = "bigint" /\ f(7).kind = "custom" /\ f(8).kind = "fixed" /\ f(8).len = 1
    BY TransactionFieldsAre, KeysOfFields
  <1>2. \A i \in 1..8 : /\ f(i).kind = "fixed" => GivesField(d, f(i), S, {v \in Seq(S) : Len(v) = f(i).len})
                        /\ f(i).kind = "bigint" => GivesField(d, f(i), S, Numbers)
                        /\ f(i).kind = "custom" => GivesField(d, f(i), S, Seq(S))
    <2> TAKE i \in 1..8
    <2> DEFINE g == f(i)
    <2>1. IsField(g) BY <1>0, FieldsOfClass
    <2> HIDE DEF g
    <2>2. /\ g.kind = "fixed" => GivesField(d, g, S, {v \in Seq(S) : Len(v) = g.len})
          /\ g.kind = "bigint" => GivesField(d, g, S, Numbers)
          /\ g.kind = "custom" => GivesField(d, g, S, Seq(S))
      BY ONLY <2>1, FieldsGive, Reads(d), S \in SUBSET Elements
    <2> QED BY ONLY <2>2 DEF g
  <1> HIDE DEF f
  <1>3. \A i \in 1..8 : GivesField(d, f(i), S, V[i])
    <2>1. \A i \in 1..8 : f(i).kind = "fixed" /\ f(i).len = 1 => GivesField(d, f(i), S, W)
      BY ONLY <1>2 DEF OneOf
    <2>2. /\ GivesField(d, f(1), S, W) /\ GivesField(d, f(2), S, W) /\ GivesField(d, f(3), S, W)
          /\ GivesField(d, f(4), S, Numbers) /\ GivesField(d, f(5), S, Numbers) /\ GivesField(d, f(6), S, Numbers)
          /\ GivesField(d, f(7), S, Seq(S)) /\ GivesField(d, f(8), S, W)
      BY ONLY <1>1, <1>2, <2>1
    <2>3. \A i \in 1..8 : i = 1 \/ i = 2 \/ i = 3 \/ i = 4 \/ i = 5 \/ i = 6 \/ i = 7 \/ i = 8
      OBVIOUS
    <2> HIDE DEF W
    <2> QED BY ONLY <2>2, <2>3
  <1>4. PICK o, l : DecodeFields(d, c, q) = Decoded(o, l) /\ FromDict(c, o) = Decoded(w, 0)
    BY ONLY <1>0, PartFound, Reads(d), Decoder(d)[<<c, q>>] = Decoded(w, len)
  <1>5. Typed(c, V, o, 8)
    <2>1. \A i \in 1..Len(Settings(c)) : GivesField(d, Settings(c)[i], S, V[i])
      BY ONLY <1>0, <1>3 DEF f
    <2>2. KeysDiffer(c) BY KeysOfTransactionsDiffer
    <2> HIDE DEF V, c
    <2>3. Typed(c, V, o, Len(Settings(c)))
      BY ONLY <1>0, <1>4, <2>1, <2>2, FieldsFound, Reads(d), S \in SUBSET Elements, q \in Seq(S)
    <2> QED BY ONLY <1>0, <2>3
  <1>6. /\ o.version \in W /\ o.txid \in W /\ o.recipientAddress \in W /\ o.amount \in Numbers
        /\ o.nonce \in Numbers /\ o.timestamp \in Numbers /\ o.input \in Seq(S) /\ o.signature \in W
    <2>1. \A i \in 1..8 : o[KeyOf(c, i)] \in V[i] BY ONLY <1>5 DEF Typed
    <2>2. /\ KeyOf(c, 1) = "version" /\ KeyOf(c, 2) = "txid" /\ KeyOf(c, 3) = "recipientAddress" /\ KeyOf(c, 4) = "amount"
          /\ KeyOf(c, 5) = "nonce" /\ KeyOf(c, 6) = "timestamp" /\ KeyOf(c, 7) = "input" /\ KeyOf(c, 8) = "signature"
      BY TransactionFieldsAre, KeysOfFields DEF KeyOf
    <2>3. /\ V[1] = W /\ V[2] = W /\ V[3] = W /\ V[4] = Numbers /\ V[5] = Numbers /\ V[6] = Numbers /\ V[7] = Seq(S) /\ V[8] = W
      OBVIOUS
    <2>4. 1 \in 1..8 /\ 2 \in 1..8 /\ 3 \in 1..8 /\ 4 \in 1..8 /\ 5 \in 1..8 /\ 6 \in 1..8 /\ 7 \in 1..8 /\ 8 \in 1..8
      OBVIOUS
    <2> HIDE DEF c, V, W
    <2> QED BY ONLY <2>1, <2>2, <2>3, <2>4
  <1>7. o = [key \in TransactionKeys \cup {"senderAddress"} |-> IF key = "senderAddress" THEN << >> ELSE o[key]]
    <2>1. FirstFields(c, o, 8) = o BY ONLY <1>5 DEF Typed
    <2>2. Written(c, o) = FirstFields(c, o, 8) BY ONLY <1>0 DEF Written
    <2> QED BY ONLY <2>1, <2>2, WrittenTransaction
  <1>8. o.version = Digits(0, 1) /\ FromDict(c, o) = TransactionFromDict(o)
    <2>1. FromDict(c, o) # Failed BY <1>4, FailedIsNothing
    <2>2. o.version = Digits(0, 1) BY <2>1 DEF FromDict, Versioned
    <2>3. FromDict(c, o) = TransactionFromDict(o) BY <2>2 DEF FromDict
    <2> QED BY <2>2, <2>3
  <1>9. o \in TransactionData
    <2>1. W \subseteq Words(1) /\ Seq(S) \subseteq Seq(Elements) BY OneOfIsWord
    <2>2. o.senderAddress = << >> BY ONLY <1>7
    <2>3. {o.txid, o.recipientAddress, o.signature} \subseteq Words(1) /\ o.input \in Seq(Elements)
      BY ONLY <1>6, <2>1
    <2>4. o = [ version |-> o.version, txid |-> o.txid, senderAddress |-> o.senderAddress,
                recipientAddress |-> o.recipientAddress, amount |-> o.amount, nonce |-> o.nonce,
                timestamp |-> o.timestamp, input |-> o.input, signature |-> o.signature ]
      BY ONLY <1>7 DEF TransactionKeys
    <2> HIDE DEF W
    <2> QED BY ONLY <1>6, <1>8, <2>2, <2>3, <2>4 DEF TransactionData
  <1>10. w = TransactionFromDict(o).data
    <2>1. TransactionFromDict(o) = Decoded(w, 0) BY ONLY <1>4, <1>8
    <2> QED BY ONLY <2>1, Outcomes
  <1> QED BY ONLY <1>9, <1>10 DEF ReadTransactions

LEMMA BodiesGiven ==
    ASSUME NEW d, Reads(d), NEW S \in SUBSET Elements
    PROVE  Gives(Decoder(Decoder(d)), "BlockBody", S, Bodies(ShortLists))
  <1> DEFINE c == "BlockBody"
             e == Decoder(d)
             f == Settings(c)[1]
             V == <<ShortLists>>
  <1> SUFFICES ASSUME NEW q \in Seq(S), NEW w, NEW len, Decoder(e)[<<c, q>>] = Decoded(w, len)
               PROVE  w \in Bodies(ShortLists)
    BY DEF Gives
  <1>1. Len(Settings(c)) = 1 /\ f.kind = "array" /\ f.len = PrefixLength /\ f.target = "Transaction"
        /\ KeyOf(c, 1) = "transactions"
    BY SettingsAre, KeysOfFields DEF BodySettings, KeyOf
  <1>2. c \in Classes /\ q \in Seq(Elements) BY SeqOfElements DEF Classes
  <1>3. Reads(e) /\ Gives(e, "Transaction", S, ReadTransactions)
    BY DecoderReads, TransactionsGiven
  <1>4. GivesField(e, f, S, ShortLists)
    <2>1. IsField(f) BY <1>1, <1>2, FieldsOfClass
    <2>2. ShortLists = Counted(ReadTransactions, PrefixLength)
      BY DEF ShortLists, Lists, Counted
    <2> HIDE DEF e, f
    <2>3. GivesField(e, f, S, Counted(ReadTransactions, f.len))
      <3>1. \A W : f.kind = "array" /\ Gives(e, f.target, S, W) => GivesField(e, f, S, Counted(W, f.len))
        BY ONLY <1>3, <2>1, FieldsGive, S \in SUBSET Elements
      <3> QED BY ONLY <1>1, <1>3, <3>1
    <2> QED BY ONLY <1>1, <2>2, <2>3
  <1> HIDE DEF e
  <1>5. PICK o, l : DecodeFields(e, c, q) = Decoded(o, l) /\ FromDict(c, o) = Decoded(w, 0)
    BY ONLY <1>2, <1>3, PartFound, Decoder(e)[<<c, q>>] = Decoded(w, len)
  <1>6. Typed(c, V, o, 1)
    <2>1. \A i \in 1..Len(Settings(c)) : GivesField(e, Settings(c)[i], S, V[i])
      <3>1. \A i \in 1..1 : i = 1 OBVIOUS
      <3> QED BY ONLY <1>1, <1>4, <3>1
    <2>2. KeysDiffer(c)
      <3>1. \A i, j \in 1..1 : i = j OBVIOUS
      <3> QED BY ONLY <1>1, <3>1 DEF KeysDiffer
    <2> HIDE DEF V, c
    <2>3. Typed(c, V, o, Len(Settings(c)))
      BY ONLY <1>2, <1>3, <1>5, <2>1, <2>2, FieldsFound, S \in SUBSET Elements, q \in Seq(S)
    <2> QED BY ONLY <1>1, <2>3
  <1>7. o.transactions \in ShortLists
    <2>1. 1 \in 1..1 /\ V[1] = ShortLists OBVIOUS
    <2> HIDE DEF V
    <2> QED BY ONLY <1>1, <1>6, <2>1 DEF Typed
  <1>8. o = [transactions |-> o.transactions]
    <2>1. FirstFields(c, o, 1) = o BY ONLY <1>6 DEF Typed
    <2>2. DOMAIN Blank(c) = {"transactions"}
      <3>1. DOMAIN Blank(c) = {KeyOf(c, i) : i \in 1..1}
        <4>1. c \in Classes \ {"Block", "Transaction"} /\ Len(Settings(c)) = 1
          BY ONLY <1>1, <1>2
        <4> HIDE DEF c
        <4> QED BY ONLY <4>1, KeysOfBlank
      <3>2. KeyOf(c, 1) = "transactions" /\ 1..1 = {1} BY <1>1
      <3> QED BY ONLY <3>1, <3>2
    <2>3. DOMAIN o = {"transactions"} BY ONLY <2>1, <2>2 DEF FirstFields
    <2>4. o = [key \in DOMAIN o |-> o[key]] BY ONLY <2>1 DEF FirstFields
    <2> QED BY ONLY <2>3, <2>4
  <1>9. w = o
    <2>1. FromDict(c, o) = Decoded(o, 0) BY DEF FromDict, Versioned
    <2>2. Decoded(o, 0) = Decoded(w, 0) BY ONLY <1>5, <2>1
    <2> QED BY ONLY <2>2, SameDecoded
  <1> QED BY ONLY <1>7, <1>8, <1>9 DEF Bodies

LEMMA BlocksFound ==
    ASSUME NEW d, Reads(d), NEW S \in SUBSET Elements, NEW q \in Seq(S), NEW w, NEW o, NEW l,
           DecodeFields(Decoder(Decoder(d)), "Block", q) = Decoded(o, l), FromDict("Block", o) = Decoded(w, 0)
    PROVE  w \in FoundBlocks(S)
  <1> DEFINE c == "Block"
             e == Decoder(Decoder(d))
             f(i) == Settings(c)[i]
             W == OneOf(S)
             B == Bodies(ShortLists)
             V == <<W, Numbers, Numbers, W, W, Numbers, W, B>>
  <1>0. c \in Classes /\ Len(Settings(c)) = 8 BY BlockFieldsAre DEF Classes
  <1>1. /\ f(1).kind = "fixed" /\ f(1).len = 1 /\ f(2).kind = "bigint" /\ f(3).kind = "bigint"
        /\ f(4).kind = "fixed" /\ f(4).len = 1 /\ f(5).kind = "fixed" /\ f(5).len = 1 /\ f(6).kind = "bigint"
        /\ f(7).kind = "fixed" /\ f(7).len = 1 /\ f(8).kind = "object" /\ f(8).target = "BlockBody"
    BY BlockFieldsAre, KeysOfFields
  <1>2. Reads(e) /\ Gives(e, "BlockBody", S, B) BY DecoderReads, BodiesGiven
  <1>3. DecodeFields(e, c, q) = Decoded(o, l) OBVIOUS
  <1> HIDE DEF e
  <1>4. \A i \in 1..8 : /\ f(i).kind = "fixed" => GivesField(e, f(i), S, {v \in Seq(S) : Len(v) = f(i).len})
                        /\ f(i).kind = "bigint" => GivesField(e, f(i), S, Numbers)
                        /\ \A G : f(i).kind = "object" /\ Gives(e, f(i).target, S, G) => GivesField(e, f(i), S, G)
    <2> TAKE i \in 1..8
    <2> DEFINE g == f(i)
    <2>1. IsField(g) BY <1>0, FieldsOfClass
    <2> HIDE DEF g
    <2>2. /\ g.kind = "fixed" => GivesField(e, g, S, {v \in Seq(S) : Len(v) = g.len})
          /\ g.kind = "bigint" => GivesField(e, g, S, Numbers)
          /\ \A G : g.kind = "object" /\ Gives(e, g.target, S, G) => GivesField(e, g, S, G)
      BY ONLY <1>2, <2>1, FieldsGive, S \in SUBSET Elements
    <2> QED BY ONLY <2>2 DEF g
  <1> HIDE DEF f
  <1>5. \A i \in 1..8 : GivesField(e, f(i), S, V[i])
    <2>1. \A i \in 1..8 : f(i).kind = "fixed" /\ f(i).len = 1 => GivesField(e, f(i), S, W)
      BY ONLY <1>4 DEF OneOf
    <2>2. 8 \in 1..8 OBVIOUS
    <2>3. GivesField(e, f(8), S, B) BY ONLY <1>1, <1>2, <1>4, <2>2
    <2>4. /\ GivesField(e, f(1), S, W) /\ GivesField(e, f(2), S, Numbers) /\ GivesField(e, f(3), S, Numbers)
          /\ GivesField(e, f(4), S, W) /\ GivesField(e, f(5), S, W) /\ GivesField(e, f(6), S, Numbers)
          /\ GivesField(e, f(7), S, W)
      BY ONLY <1>1, <1>4, <2>1
    <2>5. \A i \in 1..8 : i = 1 \/ i = 2 \/ i = 3 \/ i = 4 \/ i = 5 \/ i = 6 \/ i = 7 \/ i = 8
      OBVIOUS
    <2> HIDE DEF W, B
    <2> QED BY ONLY <2>3, <2>4, <2>5
  <1>6. Typed(c, V, o, 8)
    <2>1. \A i \in 1..Len(Settings(c)) : GivesField(e, Settings(c)[i], S, V[i])
      BY ONLY <1>0, <1>5 DEF f
    <2>2. KeysDiffer(c) BY KeysOfTransactionsDiffer
    <2> HIDE DEF V, c
    <2>3. Typed(c, V, o, Len(Settings(c)))
      BY ONLY <1>0, <1>2, <1>3, <2>1, <2>2, FieldsFound, S \in SUBSET Elements, q \in Seq(S)
    <2> QED BY ONLY <1>0, <2>3
  <1>7. /\ o.version \in W /\ o.index \in Numbers /\ o.slotIndex \in Numbers /\ o.hash \in W
        /\ o.previousHash \in W /\ o.timestamp \in Numbers /\ o.signature \in W /\ o.body \in B
    <2>1. \A i \in 1..8 : o[KeyOf(c, i)] \in V[i] BY ONLY <1>6 DEF Typed
    <2>2. /\ KeyOf(c, 1) = "version" /\ KeyOf(c, 2) = "index" /\ KeyOf(c, 3) = "slotIndex" /\ KeyOf(c, 4) = "hash"
          /\ KeyOf(c, 5) = "previousHash" /\ KeyOf(c, 6) = "timestamp" /\ KeyOf(c, 7) = "signature" /\ KeyOf(c, 8) = "body"
      BY BlockFieldsAre, KeysOfFields DEF KeyOf
    <2>3. /\ V[1] = W /\ V[2] = Numbers /\ V[3] = Numbers /\ V[4] = W /\ V[5] = W /\ V[6] = Numbers /\ V[7] = W /\ V[8] = B
      OBVIOUS
    <2>4. 1 \in 1..8 /\ 2 \in 1..8 /\ 3 \in 1..8 /\ 4 \in 1..8 /\ 5 \in 1..8 /\ 6 \in 1..8 /\ 7 \in 1..8 /\ 8 \in 1..8
      OBVIOUS
    <2> HIDE DEF c, V, W, B
    <2> QED BY ONLY <2>1, <2>2, <2>3, <2>4
  <1>8. o = [key \in BlockKeys \cup {"minter"} |-> IF key = "minter" THEN << >> ELSE o[key]]
    <2>1. FirstFields(c, o, 8) = o BY ONLY <1>6 DEF Typed
    <2>2. Written(c, o) = FirstFields(c, o, 8) BY ONLY <1>0 DEF Written
    <2> QED BY ONLY <2>1, <2>2, WrittenBlock
  <1>9. o.version = Digits(0, 1) /\ FromDict(c, o) = BlockFromDict(o)
    <2>1. FromDict(c, o) # Failed BY FailedIsNothing
    <2>2. o.version = Digits(0, 1) BY <2>1 DEF FromDict, Versioned
    <2>3. FromDict(c, o) = BlockFromDict(o) BY <2>2 DEF FromDict
    <2> QED BY <2>2, <2>3
  <1>10. o \in BlockData(ShortLists)
    <2>1. W \subseteq Words(1) BY OneOfIsWord
    <2>2. o.minter = << >> BY ONLY <1>8
    <2>3. {o.hash, o.previousHash, o.signature} \subseteq Words(1) BY ONLY <1>7, <2>1
    <2>4. o = [ version |-> o.version, index |-> o.index, slotIndex |-> o.slotIndex, hash |-> o.hash,
                previousHash |-> o.previousHash, timestamp |-> o.timestamp, minter |-> o.minter,
                signature |-> o.signature, body |-> o.body ]
      BY ONLY <1>8 DEF BlockKeys
    <2> HIDE DEF W
    <2> QED BY ONLY <1>7, <1>9, <2>2, <2>3, <2>4 DEF BlockData
  <1>11. BlockFromDict(o) = Decoded(w, 0) /\ w = BlockFromDict(o).data
    <2>1. BlockFromDict(o) = Decoded(w, 0) BY <1>9
    <2> QED BY ONLY <2>1, Outcomes
  <1>12. w \in ReadBlocks(ShortLists) BY ONLY <1>10, <1>11 DEF ReadBlocks
  <1>13. w.signature = o.signature
    <2> DEFINE minter == FromSignature(CalculateHash("Block", o), o.signature[1])
    <2> HIDE DEF minter
    <2>1. BlockFromDict(o) = Decoded([o EXCEPT !.minter = minter], 0)
      BY DEF BlockFromDict, minter
    <2>2. Decoded(w, 0) = Decoded([o EXCEPT !.minter = minter], 0) BY ONLY <1>11, <2>1
    <2>3. w = [o EXCEPT !.minter = minter] BY ONLY <2>2, SameDecoded
    <2> QED BY ONLY <1>8, <2>3 DEF BlockKeys
  <1> QED BY ONLY <1>7, <1>12, <1>13 DEF FoundBlocks

\* Also as a part of something else.
LEMMA BlocksGiven ==
    ASSUME NEW d, Reads(d), NEW S \in SUBSET Elements
    PROVE  Gives(Decoder(Decoder(Decoder(d))), "Block", S, FoundBlocks(S))
  <1> DEFINE e == Decoder(Decoder(d))
  <1> SUFFICES ASSUME NEW q \in Seq(S), NEW w, NEW len, Decoder(e)[<<"Block", q>>] = Decoded(w, len)
               PROVE  w \in FoundBlocks(S)
    BY DEF Gives
  <1>1. "Block" \in Classes /\ q \in Seq(Elements) BY SeqOfElements DEF Classes
  <1>2. Reads(e) BY DecoderReads
  <1> HIDE DEF e
  <1>3. PICK o, l : DecodeFields(e, "Block", q) = Decoded(o, l) /\ FromDict("Block", o) = Decoded(w, 0)
    BY ONLY <1>1, <1>2, PartFound, Decoder(e)[<<"Block", q>>] = Decoded(w, len)
  <1> QED BY ONLY <1>3, BlocksFound, Reads(d), S \in SUBSET Elements, q \in Seq(S) DEF e

LEMMA OneFieldFound ==
    ASSUME NEW d, Reads(d), NEW class \in Classes \ {"Block", "Transaction"}, Len(Settings(class)) = 1,
           class \notin Versioned \cup {"GET_TRANSACTIONS", "GET_CHAINSTATE"},
           NEW S \in SUBSET Elements, NEW G, GivesField(d, Settings(class)[1], S, G),
           NEW q \in Seq(S), NEW w, NEW len, Decoder(d)[<<class, q>>] = Decoded(w, len)
    PROVE  w[KeyOf(class, 1)] \in G
  <1> DEFINE V == <<G>>
  <1>1. class \in Classes /\ q \in Seq(Elements) BY SeqOfElements
  <1>2. PICK o, l : DecodeFields(d, class, q) = Decoded(o, l) /\ FromDict(class, o) = Decoded(w, 0)
    BY ONLY <1>1, PartFound, Reads(d), Decoder(d)[<<class, q>>] = Decoded(w, len)
  <1>3. Typed(class, V, o, 1)
    <2>0. \A i \in 1..1 : i = 1 OBVIOUS
    <2>1. \A i \in 1..Len(Settings(class)) : GivesField(d, Settings(class)[i], S, V[i])
      BY ONLY <2>0, Len(Settings(class)) = 1, GivesField(d, Settings(class)[1], S, G)
    <2>2. KeysDiffer(class)
      <3>1. \A i, j \in 1..1 : i = j OBVIOUS
      <3> QED BY ONLY <3>1, Len(Settings(class)) = 1 DEF KeysDiffer
    <2> HIDE DEF V
    <2>3. Typed(class, V, o, Len(Settings(class)))
      BY ONLY <1>1, <1>2, <2>1, <2>2, FieldsFound, Reads(d), S \in SUBSET Elements, q \in Seq(S)
    <2> QED BY ONLY <2>3, Len(Settings(class)) = 1
  <1>4. o[KeyOf(class, 1)] \in G
    <2>1. 1 \in 1..1 /\ V[1] = G OBVIOUS
    <2> HIDE DEF V
    <2> QED BY ONLY <1>3, <2>1 DEF Typed
  <1>5. FromDict(class, o) = Decoded(o, 0) BY DEF FromDict
  <1>6. Decoded(o, 0) = Decoded(w, 0) BY ONLY <1>2, <1>5
  <1>7. o = w BY ONLY <1>6, SameDecoded
  <1> QED BY ONLY <1>4, <1>7

LEMMA ForksGiven ==
    ASSUME NEW d, Reads(d), NEW S \in SUBSET Elements
    PROVE  Gives(Decoder(Decoder(Decoder(Decoder(d)))), "ForkChainstateData", S, FoundForks(S))
  <1> DEFINE c == "ForkChainstateData"
             e == Decoder(Decoder(Decoder(d)))
             f(i) == Settings(c)[i]
             W == OneOf(S)
             B == FoundBlocks(S)
             V == <<W, W, B, B>>
  <1> SUFFICES ASSUME NEW q \in Seq(S), NEW w, NEW len, Decoder(e)[<<c, q>>] = Decoded(w, len)
               PROVE  w \in FoundForks(S)
    BY DEF Gives
  <1>0. c \in Classes /\ q \in Seq(Elements) /\ c \in Classes \ {"Block", "Transaction"}
    BY SeqOfElements DEF Classes
  <1>1. /\ Len(Settings(c)) = 4
        /\ f(1).kind = "fixed" /\ f(1).len = 1 /\ f(2).kind = "fixed" /\ f(2).len = 1
        /\ f(3).kind = "object" /\ f(3).target = "Block" /\ f(4).kind = "object" /\ f(4).target = "Block"
        /\ KeyOf(c, 1) = "stateHash" /\ KeyOf(c, 2) = "parentChain" /\ KeyOf(c, 3) = "base" /\ KeyOf(c, 4) = "latestBlock"
    BY SettingsAre, KeysOfFields DEF ForkSettings, KeyOf
  <1>2. Reads(e) /\ Gives(e, "Block", S, B) BY DecoderReads, BlocksGiven
  <1>3. \A i \in 1..4 : i = 1 \/ i = 2 \/ i = 3 \/ i = 4 OBVIOUS
  <1> HIDE DEF e
  <1>4. \A i \in 1..4 : /\ f(i).kind = "fixed" => GivesField(e, f(i), S, {v \in Seq(S) : Len(v) = f(i).len})
                        /\ \A G : f(i).kind = "object" /\ Gives(e, f(i).target, S, G) => GivesField(e, f(i), S, G)
    <2> TAKE i \in 1..4
    <2> DEFINE g == f(i)
    <2>1. IsField(g) BY <1>0, <1>1, FieldsOfClass
    <2> HIDE DEF g
    <2>2. /\ g.kind = "fixed" => GivesField(e, g, S, {v \in Seq(S) : Len(v) = g.len})
          /\ \A G : g.kind = "object" /\ Gives(e, g.target, S, G) => GivesField(e, g, S, G)
      BY ONLY <1>2, <2>1, FieldsGive, S \in SUBSET Elements
    <2> QED BY ONLY <2>2 DEF g
  <1> HIDE DEF f
  <1>5. \A i \in 1..4 : GivesField(e, f(i), S, V[i])
    <2>1. 1 \in 1..4 /\ 2 \in 1..4 /\ 3 \in 1..4 /\ 4 \in 1..4 OBVIOUS
    <2>2. GivesField(e, f(1), S, W) /\ GivesField(e, f(2), S, W)
      BY ONLY <1>1, <1>4, <2>1 DEF OneOf
    <2>3. GivesField(e, f(3), S, B) /\ GivesField(e, f(4), S, B)
      BY ONLY <1>1, <1>2, <1>4, <2>1
    <2> HIDE DEF W, B
    <2> QED BY ONLY <1>3, <2>2, <2>3
  <1>6. PICK o, l : DecodeFields(e, c, q) = Decoded(o, l) /\ FromDict(c, o) = Decoded(w, 0)
    BY ONLY <1>0, <1>2, PartFound, Decoder(e)[<<c, q>>] = Decoded(w, len)
  <1>7. Typed(c, V, o, 4)
    <2>1. \A i \in 1..Len(Settings(c)) : GivesField(e, Settings(c)[i], S, V[i])
      BY ONLY <1>1, <1>5 DEF f
    <2>2. KeysDiffer(c) BY ONLY <1>1, <1>3 DEF KeysDiffer
    <2> HIDE DEF V, c
    <2>3. Typed(c, V, o, Len(Settings(c)))
      BY ONLY <1>0, <1>2, <1>6, <2>1, <2>2, FieldsFound, S \in SUBSET Elements, q \in Seq(S)
    <2>4. Len(Settings(c)) = 4 BY ONLY <1>1
    <2> QED BY ONLY <2>3, <2>4
  <1>8. o.stateHash \in W /\ o.parentChain \in W /\ o.base \in B /\ o.latestBlock \in B
    <2>1. \A i \in 1..4 : o[KeyOf(c, i)] \in V[i] BY ONLY <1>7 DEF Typed
    <2>2. V[1] = W /\ V[2] = W /\ V[3] = B /\ V[4] = B OBVIOUS
    <2>3. 1 \in 1..4 /\ 2 \in 1..4 /\ 3 \in 1..4 /\ 4 \in 1..4 OBVIOUS
    <2> HIDE DEF V, W, B
    <2> QED BY ONLY <1>1, <2>1, <2>2, <2>3
  <1>9. o = [stateHash |-> o.stateHash, parentChain |-> o.parentChain, base |-> o.base, latestBlock |-> o.latestBlock]
    <2>1. FirstFields(c, o, 4) = o BY ONLY <1>7 DEF Typed
    <2>2. DOMAIN Blank(c) = {"stateHash", "parentChain", "base", "latestBlock"}
      <3>1. DOMAIN Blank(c) = {KeyOf(c, i) : i \in 1..Len(Settings(c))}
        BY <1>0, KeysOfBlank
      <3>2. Len(Settings(c)) = 4 BY ONLY <1>1
      <3>3. 1..4 = {1, 2, 3, 4} OBVIOUS
      <3>4. KeyOf(c, 1) = "stateHash" /\ KeyOf(c, 2) = "parentChain" /\ KeyOf(c, 3) = "base" /\ KeyOf(c, 4) = "latestBlock"
        BY ONLY <1>1
      <3>5. DOMAIN Blank(c) = {KeyOf(c, i) : i \in {1, 2, 3, 4}}
        BY ONLY <3>1, <3>2, <3>3
      <3> QED BY ONLY <3>4, <3>5
    <2>3. o = [key \in DOMAIN o |-> o[key]] /\ DOMAIN o = {"stateHash", "parentChain", "base", "latestBlock"}
      BY ONLY <2>1, <2>2 DEF FirstFields
    <2> QED BY ONLY <2>3
  <1>10. w = o
    <2>1. FromDict(c, o) = Decoded(o, 0) BY DEF FromDict, Versioned
    <2>2. Decoded(o, 0) = Decoded(w, 0) BY ONLY <1>6, <2>1
    <2> QED BY ONLY <2>2, SameDecoded
  <1> HIDE DEF W, B
  <1>11. o \in [stateHash : W, parentChain : W, base : B, latestBlock : B]
    BY ONLY <1>8, <1>9
  <1> QED BY ONLY <1>10, <1>11 DEF FoundForks, W, B

\* The block in a message, whatever its bytes were.
LEMMA MessagesGive ==
    ASSUME NEW S \in SUBSET Elements, NEW q \in Seq(S), NEW class \in {"NEW_BLOCK", "BLOCKS", "CHAINSTATE"},
           NEW w, NEW len, DecodePart(class, q) = Decoded(w, len)
    PROVE  Copy(class, w) = Failed \/ \E g \in FoundBlocks(S) : Copy(class, w) = Decoded(g, 0)
  <1> DEFINE d == DecodeInner
             B == FoundBlocks(S)
             f == Settings(class)[1]
  <1>1. Reads(d) /\ Gives(d, "Block", S, B) /\ Gives(d, "ForkChainstateData", S, FoundForks(S))
    <2>1. Reads(NoDecoder) /\ Reads(Decoder(NoDecoder)) /\ Reads(d)
      BY NoDecoderReads, DecoderReads, DecodersRead
    <2>2. d = Decoder(Decoder(Decoder(Decoder(NoDecoder)))) BY DEF DecodeInner
    <2>3. Gives(Decoder(Decoder(Decoder(Decoder(NoDecoder)))), "Block", S, B)
      BY ONLY <2>1, BlocksGiven, S \in SUBSET Elements
    <2>4. Gives(Decoder(Decoder(Decoder(Decoder(NoDecoder)))), "ForkChainstateData", S, FoundForks(S))
      BY ONLY <2>1, ForksGiven, S \in SUBSET Elements
    <2> QED BY ONLY <2>1, <2>2, <2>3, <2>4
  <1>2. Decoder(d)[<<class, q>>] = Decoded(w, len) BY DEF DecodePart
  <1>3. /\ class \in Classes \ {"Block", "Transaction"} /\ class \notin Versioned \cup {"GET_TRANSACTIONS", "GET_CHAINSTATE"}
        /\ class \in Classes
    BY MessageClasses DEF Classes, Versioned
  <1>4. /\ Len(Settings(class)) = 1
        /\ class = "NEW_BLOCK" => f.kind = "object" /\ f.target = "Block" /\ KeyOf(class, 1) = "block"
        /\ class = "BLOCKS" => f.kind = "array" /\ f.target = "Block" /\ KeyOf(class, 1) = "blocks"
        /\ class = "CHAINSTATE" => f.kind = "object" /\ f.target = "ForkChainstateData" /\ KeyOf(class, 1) = "chainstate"
    BY SettingsAre, KeysOfFields DEF NewBlockMsg, BlocksMsg, ChainstateMsg, KeyOf
  <1> HIDE DEF d
  <1>5. /\ \A G : f.kind = "object" /\ Gives(d, f.target, S, G) => GivesField(d, f, S, G)
        /\ \A G : f.kind = "array" /\ Gives(d, f.target, S, G) => GivesField(d, f, S, Counted(G, f.len))
    <2>1. IsField(f) BY <1>3, <1>4, FieldsOfClass
    <2> HIDE DEF f
    <2> QED BY ONLY <1>1, <2>1, FieldsGive, S \in SUBSET Elements
  <1>6. ASSUME NEW G, GivesField(d, f, S, G) PROVE w[KeyOf(class, 1)] \in G
    BY ONLY <1>1, <1>2, <1>3, <1>4, <1>6, OneFieldFound, S \in SUBSET Elements, q \in Seq(S)
  <1> HIDE DEF B
  <1>7. CASE class = "NEW_BLOCK"
    <2>1. GivesField(d, f, S, B) BY ONLY <1>1, <1>4, <1>5, <1>7
    <2>2. w.block \in B BY ONLY <1>4, <1>6, <1>7, <2>1
    <2>3. Copy(class, w) = Decoded(w.block, 0) BY <1>7 DEF Copy
    <2> QED BY ONLY <2>2, <2>3 DEF B
  <1>8. CASE class = "BLOCKS"
    <2>1. GivesField(d, f, S, Counted(B, f.len)) BY ONLY <1>1, <1>4, <1>5, <1>8
    <2>2. w.blocks \in Counted(B, f.len) BY ONLY <1>4, <1>6, <1>8, <2>1
    <2>3. w.blocks \in Seq(B) BY ONLY <2>2 DEF Counted
    <2>4. Copy(class, w) = IF w.blocks = << >> THEN Failed ELSE Decoded(w.blocks[1], 0)
      BY <1>8 DEF Copy
    <2>5. w.blocks # << >> => w.blocks[1] \in B BY ONLY <2>3
    <2> QED BY ONLY <2>4, <2>5 DEF B
  <1>9. CASE class = "CHAINSTATE"
    <2>1. GivesField(d, f, S, FoundForks(S)) BY ONLY <1>1, <1>4, <1>5, <1>9
    <2>2. w.chainstate \in FoundForks(S) BY ONLY <1>4, <1>6, <1>9, <2>1
    <2>3. w.chainstate.latestBlock \in B BY ONLY <2>2 DEF FoundForks, B
    <2>4. Copy(class, w) = Decoded(w.chainstate.latestBlock, 0) BY <1>9 DEF Copy
    <2> QED BY ONLY <2>3, <2>4 DEF B
  <1> QED BY ONLY <1>7, <1>8, <1>9, class \in {"NEW_BLOCK", "BLOCKS", "CHAINSTATE"}

LEMMA WholeFound ==
    ASSUME NEW class, NEW q
    PROVE  \/ DecodeWhole(class, q) = Failed
           \/ \E o, l, w : /\ DecodeFields(DecodeInner, class, q).ok /\ DecodeFields(DecodeInner, class, q).data = o
                           /\ FromDict(class, o) = Decoded(w, 0) /\ DecodeWhole(class, q) = Decoded(w, 0)
  <1> DEFINE fields == DecodeFields(DecodeInner, class, q)
  <1>1. DecodeWhole(class, q) = WholeOf(class, fields, q) BY DEF DecodeWhole
  <1> HIDE DEF fields
  <1>2. \/ WholeOf(class, fields, q) = Failed
        \/ fields.ok /\ WholeOf(class, fields, q) = FromDict(class, fields.data)
    BY Zenon DEF WholeOf
  <1> QED BY ONLY <1>1, <1>2, FromDictIs DEF fields

\* The block in a file, whatever its bytes were.
LEMMA FilesGive ==
    ASSUME NEW S \in SUBSET Elements, NEW q \in Seq(S), NEW class \in {"Block", "ChainstateData"}
    PROVE  ReadFile(class, q) = Failed \/ \E g \in FoundBlocks(S) : ReadFile(class, q) = Decoded(g, 0)
  <1> DEFINE d == DecodeInner
             B == FoundBlocks(S)
             read == DecodeWhole(class, q)
  <1>0. class \in Classes /\ q \in Seq(Elements) BY SeqOfElements DEF Classes
  <1>1. ReadFile(class, q) = IF read.ok THEN Copy(class, read.data) ELSE Failed
    BY Zenon DEF ReadFile
  <1>2. CASE read = Failed
    <2>1. ~read.ok BY <1>2, Outcomes
    <2> HIDE DEF read
    <2> QED BY ONLY <1>1, <2>1
  <1>3. CASE read # Failed
    <2>1. PICK o, w : /\ DecodeFields(d, class, q).ok /\ DecodeFields(d, class, q).data = o
                      /\ FromDict(class, o) = Decoded(w, 0) /\ read = Decoded(w, 0)
      BY ONLY <1>3, WholeFound
    <2>2. PICK l : DecodeFields(d, class, q) = Decoded(o, l)
      <3>1. Outcome(DecodeFields(d, class, q))
        <4>1. << >> \in Seq(Elements) OBVIOUS
        <4> QED BY <1>0, <4>1, FieldsReads, DecodersRead DEF Parted
      <3>2. DecodeFields(d, class, q) # Failed BY <2>1, Outcomes
      <3>3. PICK v, l : DecodeFields(d, class, q) = Decoded(v, l)
        BY ONLY <3>1, <3>2 DEF Outcome
      <3>4. v = o BY ONLY <2>1, <3>3, Outcomes
      <3> QED BY ONLY <3>3, <3>4
    <2>3. read.ok /\ read.data = w BY <2>1, Outcomes
    <2>4. ReadFile(class, q) = Copy(class, w)
      <3> HIDE DEF read
      <3> QED BY ONLY <1>1, <2>3
    <2>5. Reads(NoDecoder) /\ Reads(Decoder(NoDecoder)) /\ Reads(Decoder(Decoder(NoDecoder))) /\ Reads(d)
      BY NoDecoderReads, DecoderReads, DecodersRead
    <2>6. d = Decoder(Decoder(Decoder(Decoder(NoDecoder)))) BY DEF DecodeInner
    <2> HIDE DEF d, read, B
    <2>7. CASE class = "Block"
      <3>1. DecodeFields(Decoder(Decoder(Decoder(Decoder(NoDecoder)))), "Block", q) = Decoded(o, l) /\ FromDict("Block", o) = Decoded(w, 0)
        BY ONLY <2>1, <2>2, <2>6, <2>7
      <3> DEFINE e == Decoder(Decoder(NoDecoder))
      <3>2. Reads(e) BY ONLY <2>5
      <3> HIDE DEF e
      <3>3. DecodeFields(Decoder(Decoder(e)), "Block", q) = Decoded(o, l) /\ FromDict("Block", o) = Decoded(w, 0)
        BY ONLY <3>1 DEF e
      <3>4. w \in B
        BY ONLY <3>2, <3>3, BlocksFound, S \in SUBSET Elements, q \in Seq(S) DEF B
      <3>5. Copy(class, w) = Decoded(w, 0) BY <2>7 DEF Copy
      <3> QED BY ONLY <2>4, <3>4, <3>5 DEF B
    <2>8. CASE class = "ChainstateData"
      <3> DEFINE c == "ChainstateData"
                 f(i) == Settings(c)[i]
                 V == <<OneOf(S), Counted(FoundForks(S), PrefixLength)>>
      <3>1. /\ Len(Settings(c)) = 2 /\ f(1).kind = "fixed" /\ f(1).len = 1
            /\ f(2).kind = "array" /\ f(2).target = "ForkChainstateData" /\ f(2).len = PrefixLength
            /\ KeyOf(c, 1) = "version" /\ KeyOf(c, 2) = "chains"
        BY SettingsAre, KeysOfFields DEF ChainstateSettings, KeyOf
      <3>2. c \in Classes /\ IsField(f(1)) /\ IsField(f(2))
        <4>1. c \in Classes BY DEF Classes
        <4>2. 1 \in 1..Len(Settings(c)) /\ 2 \in 1..Len(Settings(c)) BY <3>1
        <4> QED BY ONLY <4>1, <4>2, FieldsOfClass
      <3>3. Gives(d, "ForkChainstateData", S, FoundForks(S))
        BY ONLY <2>5, <2>6, ForksGiven, S \in SUBSET Elements
      <3> HIDE DEF f
      <3>4. GivesField(d, f(1), S, OneOf(S)) /\ GivesField(d, f(2), S, Counted(FoundForks(S), PrefixLength))
        <4> DEFINE g == f(1)
                   h == f(2)
        <4>1. IsField(g) /\ IsField(h) BY ONLY <3>2
        <4> HIDE DEF g, h
        <4>2. g.kind = "fixed" => GivesField(d, g, S, {v \in Seq(S) : Len(v) = g.len})
          BY ONLY <2>5, <4>1, FieldsGive, S \in SUBSET Elements
        <4>3. \A G : h.kind = "array" /\ Gives(d, h.target, S, G) => GivesField(d, h, S, Counted(G, h.len))
          BY ONLY <2>5, <4>1, FieldsGive, S \in SUBSET Elements
        <4>4. g.kind = "fixed" /\ g.len = 1 /\ h.kind = "array" /\ h.target = "ForkChainstateData" /\ h.len = PrefixLength
          BY ONLY <3>1 DEF g, h
        <4>5. GivesField(d, g, S, OneOf(S)) BY ONLY <4>2, <4>4 DEF OneOf
        <4>6. GivesField(d, h, S, Counted(FoundForks(S), PrefixLength))
          BY ONLY <3>3, <4>3, <4>4
        <4> QED BY ONLY <4>5, <4>6 DEF g, h
      <3>5. \A i \in 1..2 : i = 1 \/ i = 2 OBVIOUS
      <3>6. Typed(c, V, o, 2)
        <4>1. \A i \in 1..Len(Settings(c)) : GivesField(d, Settings(c)[i], S, V[i])
          BY ONLY <3>1, <3>4, <3>5 DEF f
        <4>2. KeysDiffer(c) BY ONLY <3>1, <3>5 DEF KeysDiffer
        <4>3. DecodeFields(d, c, q) = Decoded(o, l) BY ONLY <2>2, <2>8
        <4> HIDE DEF V, c
        <4>4. Typed(c, V, o, Len(Settings(c)))
          BY ONLY <2>5, <3>2, <4>1, <4>2, <4>3, FieldsFound, S \in SUBSET Elements, q \in Seq(S)
        <4>5. Len(Settings(c)) = 2 BY ONLY <3>1
        <4> QED BY ONLY <4>4, <4>5
      <3>7. o.chains \in Seq(FoundForks(S))
        <4>1. 2 \in 1..2 /\ V[2] = Counted(FoundForks(S), PrefixLength) OBVIOUS
        <4> HIDE DEF V
        <4>2. o.chains \in Counted(FoundForks(S), PrefixLength)
          BY ONLY <3>1, <3>6, <4>1 DEF Typed
        <4> QED BY ONLY <4>2 DEF Counted
      <3>8. w = o
        <4>1. FromDict(class, o) = Failed \/ FromDict(class, o) = Decoded(o, 0)
          BY <2>8 DEF FromDict
        <4>2. Decoded(w, 0) = Decoded(o, 0) BY ONLY <2>1, <4>1, FailedIsNothing
        <4> QED BY ONLY <4>2, SameDecoded
      <3>9. Copy(class, w) = IF w.chains = << >> THEN Failed ELSE Decoded(w.chains[1].latestBlock, 0)
        BY <2>8 DEF Copy
      <3>10. o.chains # << >> => o.chains[1] \in FoundForks(S) BY ONLY <3>7
      <3>11. o.chains # << >> => o.chains[1].latestBlock \in B
        BY ONLY <3>10 DEF FoundForks, B
      <3> QED BY ONLY <2>4, <3>8, <3>9, <3>11 DEF B
    <2> QED BY ONLY <2>7, <2>8, class \in {"Block", "ChainstateData"}
  <1> QED BY ONLY <1>2, <1>3

-------------------------------------------------------------------------------
(***************************************************************************)
(* What the bytes of a block consist of: no signature of a minter is among *)
(* them but the block's own.                                               *)
(***************************************************************************)

LEMMA UnforgedHas ==
    ASSUME NEW b
    PROVE  /\ Unforged(b) \in SUBSET Elements /\ Digit \subseteq Unforged(b)
           /\ \A w \in Words(1) : Len(w[1]) \in {2, 4} \/ w[1][1] = 0 \/ w = b.signature => w \in Seq(Unforged(b))
  <1>1. Digit \subseteq Unforged(b)
    <2>1. \A e \in Digit : e \in Elements /\ Len(e) = 1 BY ElementFacts
    <2> QED BY ONLY <2>1 DEF Unforged
  <1>2. ASSUME NEW w \in Words(1), Len(w[1]) \in {2, 4} \/ w[1][1] = 0 \/ w = b.signature PROVE w \in Seq(Unforged(b))
    <2> DEFINE e == w[1]
    <2>1. w \in Seq(Elements) /\ Len(w) = 1 /\ w = <<e>> /\ e \in Elements BY DEF Words
    <2>2. Len(e) \in {2, 4} \/ e[1] = 0 \/ w = b.signature BY <1>2
    <2>3. w = b.signature => b.signature[1] = e OBVIOUS
    <2> HIDE DEF e
    <2>4. e \in Unforged(b) BY ONLY <2>1, <2>2, <2>3 DEF Unforged, MinterType
    <2> QED BY ONLY <2>1, <2>4
  <1> QED BY <1>1, <1>2 DEF Unforged

LEMMA FieldsIn ==
    ASSUME NEW S \in SUBSET Elements, Digit \subseteq S, NEW k, NEW field, NEW v
    PROVE  /\ field.kind = "fixed" /\ v \in Seq(S) => EncField(k, field, v) \in Seq(S)
           /\ field.kind = "bigint" /\ v \in Numbers => EncField(k, field, v) \in Seq(S)
           /\ field.kind = "custom" /\ v \in Seq(S) => EncField(k, field, v) \in Seq(S)
           /\ field.kind = "object" /\ Enc(k, field.target, v) \in Seq(S) => EncField(k, field, v) \in Seq(S)
  <1>1. Seq(Digit) \subseteq Seq(S) BY SeqMonotonic
  <1>2. ASSUME field.kind = "fixed", v \in Seq(S) PROVE EncField(k, field, v) \in Seq(S)
    BY ONLY <1>2 DEF EncField
  <1>3. ASSUME field.kind = "bigint", v \in Numbers PROVE EncField(k, field, v) \in Seq(S)
    <2>1. << >> \in Seq(Elements) OBVIOUS
    <2>2. EncodeBigInt(v) \in Seq(Digit) BY ONLY <1>3, <2>1, BigIntBack
    <2>3. EncField(k, field, v) = EncodeBigInt(v) BY ONLY <1>3 DEF EncField
    <2> QED BY ONLY <1>1, <2>2, <2>3
  <1>4. ASSUME field.kind = "custom", v \in Seq(S) PROVE EncField(k, field, v) \in Seq(S)
    <2>1. << >> \in Seq(Elements) /\ v \in Seq(Elements) BY <1>4, SeqMonotonic
    <2>2. EncodeLength(Len(v)) \in Seq(Digit) BY ONLY <2>1, CustomBack
    <2>3. EncField(k, field, v) = EncodeLength(Len(v)) \o v
      BY ONLY <1>4 DEF EncField, EncodeCustom
    <2>4. EncodeLength(Len(v)) \in Seq(S) BY ONLY <1>1, <2>2
    <2> QED BY ONLY <1>4, <2>3, <2>4, Concats
  <1>5. ASSUME field.kind = "object", Enc(k, field.target, v) \in Seq(S) PROVE EncField(k, field, v) \in Seq(S)
    BY ONLY <1>5 DEF EncField
  <1> QED BY ONLY <1>2, <1>3, <1>4, <1>5

LEMMA ListIn ==
    ASSUME NEW S \in SUBSET Elements, Digit \subseteq S, NEW k, NEW field, field.kind = "array", field.len \in Nat,
           NEW T, NEW v \in Seq(T), \A i \in 1..Len(v) : Enc(k, field.target, v[i]) \in Seq(S)
    PROVE  EncField(k, field, v) \in Seq(S)
  <1> DEFINE Q == Seq(S)
             e(i) == Enc(k, field.target, v[i])
             n == Len(v)
             codes == [i \in DOMAIN v |-> e(i)]
             count == Digits(n, field.len)
  <1>1. DOMAIN v = 1..n /\ n \in Nat /\ \A i \in 1..n : e(i) \in Q OBVIOUS
  <1>2. EncField(k, field, v) = count \o FlattenSeq(codes) BY DEF EncField
  <1>3. count \in Seq(S)
    <2>1. count \in Seq(Digit) BY ONLY <1>1, field.len \in Nat, DigitsOf
    <2> HIDE DEF count
    <2> QED BY ONLY <2>1, Digit \subseteq S, SeqMonotonic
  <1>4. codes \in Seq(Q)
    <2> HIDE DEF Q, e, n
    <2> QED BY ONLY <1>1
  <1>5. FlattenSeq(codes) \in Seq(S)
    <2> HIDE DEF codes
    <2>1. Len(codes) \in Nat /\ FlattenSeq(codes) = JoinedUpto(codes, Len(codes))
          /\ \A i \in 0..Len(codes) : JoinedUpto(codes, i) \in Seq(S)
      BY ONLY <1>4, JoinSteps DEF Q
    <2> QED BY ONLY <2>1
  <1> HIDE DEF codes, count
  <1> QED BY ONLY <1>2, <1>3, <1>5, Concats

LEMMA ObjectIn ==
    ASSUME NEW S \in SUBSET Elements, NEW k \in 0..4, NEW class \in Classes, NEW o,
           \A i \in 1..Len(Settings(class)) : EncField(k, Settings(class)[i], o[KeyOf(class, i)]) \in Seq(S)
    PROVE  Enc(k + 1, class, o) \in Seq(S)
  <1> DEFINE Q == Seq(S)
             e(i) == EncField(k, Settings(class)[i], o[KeyOf(class, i)])
             n == Len(Settings(class))
             codes == EncFields(k, class, o)
  <1>1. n \in Nat /\ DOMAIN Settings(class) = 1..n /\ \A i \in 1..n : e(i) \in Q
    BY FieldsOfSettings
  <1>2. codes = [i \in 1..n |-> e(i)] BY <1>1 DEF EncFields, KeyOf
  <1>3. Enc(k + 1, class, o) = FlattenSeq(codes) BY EncIs
  <1> HIDE DEF codes, Q, e, n
  <1>4. codes \in Seq(Q) BY ONLY <1>1, <1>2
  <1>5. Len(codes) \in Nat /\ FlattenSeq(codes) = JoinedUpto(codes, Len(codes))
        /\ \A i \in 0..Len(codes) : JoinedUpto(codes, i) \in Seq(S)
    BY ONLY <1>4, JoinSteps DEF Q
  <1> QED BY ONLY <1>3, <1>5

LEMMA TransactionIn ==
    ASSUME NEW b, NEW k \in 0..4, NEW o, IsTransaction(o)
    PROVE  Enc(k + 1, "Transaction", o) \in Seq(Unforged(b))
  <1> DEFINE S == Unforged(b)
             C == "Transaction"
             F(i) == EncField(k, Settings(C)[i], o[KeyOf(C, i)]) \in Seq(S)
             f(i) == Settings(C)[i]
  <1>1. /\ o \in ReadTransactions /\ o.txid = <<CalculateHash(C, o)>> /\ o.input \in Seq(Digit)
        /\ o.recipientAddress \in AddressWords
    BY TransactionIsRead
  <1>2. /\ {o.txid, o.recipientAddress, o.signature} \subseteq Words(1) /\ o.version = Digits(0, 1)
        /\ {o.amount, o.nonce, o.timestamp} \subseteq Numbers
    BY ONLY <1>1, ReadTransaction
  <1>3. S \in SUBSET Elements /\ Digit \subseteq S
        /\ \A w \in Words(1) : Len(w[1]) \in {2, 4} \/ w[1][1] = 0 \/ w = b.signature => w \in Seq(S)
    BY ONLY UnforgedHas
  <1> HIDE DEF S
  <1>4. Seq(Digit) \subseteq Seq(S) BY ONLY <1>3, SeqMonotonic
  <1>5. o.version \in Seq(S)
    <2>1. 0 \in Nat /\ 1 \in Nat OBVIOUS
    <2>2. Digits(0, 1) \in Seq(Digit) BY ONLY <2>1, DigitsOf
    <2> QED BY ONLY <1>2, <1>4, <2>2
  <1>6. o.txid \in Seq(S)
    <2> DEFINE w == o.txid
    <2>1. w[1] = CalculateHash(C, o) /\ w \in Words(1) BY <1>1, <1>2
    <2>2. \A x : Len(Sha256(x)) = 4 BY DEF Sha256
    <2>3. Len(CalculateHash(C, o)) = 4 BY ONLY <2>2 DEF CalculateHash
    <2> HIDE DEF w
    <2>4. Len(w[1]) \in {2, 4} BY ONLY <2>1, <2>3
    <2>5. w \in Seq(S) BY ONLY <1>3, <2>1, <2>4
    <2> QED BY ONLY <2>5 DEF w
  <1>7. o.recipientAddress \in Seq(S) BY ONLY <1>1, <1>3 DEF AddressWords
  <1>8. o.signature \in Seq(S)
    <2> DEFINE w == o.signature
    <2>1. PICK key : w = <<<<0, key, o.txid[1]>>>> BY TransactionIsRead
    <2>2. w[1][1] = 0 BY ONLY <2>1
    <2>3. w \in Words(1) BY <1>2
    <2> HIDE DEF w
    <2>4. w \in Seq(S) BY ONLY <1>3, <2>2, <2>3
    <2> QED BY ONLY <2>4 DEF w
  <1>9. /\ f(1).kind = "fixed" /\ KeyOf(C, 1) = "version"
        /\ f(2).kind = "fixed" /\ KeyOf(C, 2) = "txid"
        /\ f(3).kind = "fixed" /\ KeyOf(C, 3) = "recipientAddress"
        /\ f(4).kind = "bigint" /\ KeyOf(C, 4) = "amount"
        /\ f(5).kind = "bigint" /\ KeyOf(C, 5) = "nonce"
        /\ f(6).kind = "bigint" /\ KeyOf(C, 6) = "timestamp"
        /\ f(7).kind = "custom" /\ KeyOf(C, 7) = "input"
        /\ f(8).kind = "fixed" /\ KeyOf(C, 8) = "signature"
    BY KeysOfFields, TransactionFieldsAre DEF KeyOf
  <1>10. o.input \in Seq(S) BY ONLY <1>1, <1>4
  <1> HIDE DEF f
  <1>11. F(1) /\ F(2) /\ F(3) /\ F(8)
    BY ONLY <1>3, <1>5, <1>6, <1>7, <1>8, <1>9, FieldsIn DEF f
  <1>12. F(4) /\ F(5) /\ F(6) /\ F(7) BY ONLY <1>2, <1>3, <1>9, <1>10, FieldsIn DEF f
  <1> HIDE DEF F
  <1>13. \A i \in 1..8 : F(i)
    <2>1. 1..8 = {1, 2, 3, 4, 5, 6, 7, 8} OBVIOUS
    <2> QED BY ONLY <1>11, <1>12, <2>1
  <1>14. \A i \in 1..Len(Settings(C)) : EncField(k, Settings(C)[i], o[KeyOf(C, i)]) \in Seq(S)
    BY ONLY <1>13, TransactionFieldsAre DEF F
  <1>15. C \in Classes BY DEF Classes
  <1>16. Enc(k + 1, C, o) \in Seq(S) BY ONLY <1>3, <1>14, <1>15, k \in 0..4, ObjectIn
  <1> QED BY ONLY <1>16 DEF S, C

LEMMA BodyIn ==
    ASSUME NEW b, NEW k \in 1..4, NEW list \in Lists, \A i \in 1..Len(list) : IsTransaction(list[i])
    PROVE  Enc(k + 1, "BlockBody", [transactions |-> list]) \in Seq(Unforged(b))
  <1> DEFINE S == Unforged(b)
             C == "BlockBody"
             f == Settings(C)[1]
             o == [transactions |-> list]
  <1>1. Len(Settings(C)) = 1 /\ f.kind = "array" /\ f.len = PrefixLength /\ f.target = "Transaction"
        /\ KeyOf(C, 1) = "transactions"
    BY SettingsAre, KeysOfFields DEF BodySettings, KeyOf
  <1>2. C \in Classes /\ PrefixLength \in Nat BY EncodingAssumption DEF Classes
  <1>3. S \in SUBSET Elements /\ Digit \subseteq S BY ONLY UnforgedHas
  <1> HIDE DEF S, f
  <1>4. ASSUME NEW i \in 1..Len(list) PROVE Enc(k, f.target, list[i]) \in Seq(S)
    <2>1. k - 1 \in 0..4 /\ (k - 1) + 1 = k OBVIOUS
    <2>2. IsTransaction(list[i]) OBVIOUS
    <2>3. Enc((k - 1) + 1, "Transaction", list[i]) \in Seq(Unforged(b))
      BY ONLY <2>1, <2>2, TransactionIn
    <2> QED BY ONLY <1>1, <2>1, <2>3 DEF S
  <1>5. EncField(k, f, list) \in Seq(S)
    <2>1. list \in Seq(ReadTransactions) /\ f.len \in Nat BY <1>1, <1>2 DEF Lists
    <2> QED BY ONLY <1>1, <1>3, <1>4, <2>1, ListIn
  <1>6. \A i \in 1..Len(Settings(C)) : EncField(k, Settings(C)[i], o[KeyOf(C, i)]) \in Seq(S)
    <2>1. o[KeyOf(C, 1)] = list BY <1>1
    <2>2. \A i \in 1..1 : i = 1 OBVIOUS
    <2> HIDE DEF o
    <2> QED BY ONLY <1>1, <1>5, <2>1, <2>2 DEF f
  <1>7. k \in 0..4 OBVIOUS
  <1>8. Enc(k + 1, C, o) \in Seq(S) BY ONLY <1>2, <1>3, <1>6, <1>7, ObjectIn
  <1> QED BY ONLY <1>8 DEF S

LEMMA BlockIn ==
    ASSUME NEW b, IsBlock(b), NEW k \in 2..4
    PROVE  Enc(k + 1, "Block", b) \in Seq(Unforged(b))
  <1> DEFINE S == Unforged(b)
             C == "Block"
             F(i) == EncField(k, Settings(C)[i], b[KeyOf(C, i)]) \in Seq(S)
             f(i) == Settings(C)[i]
  <1>1. /\ b \in [ version : {Digits(0, 1)}, index : Numbers, slotIndex : Numbers, hash : Words(1),
                   previousHash : HashWords, timestamp : Numbers, minter : {b.minter}, signature : Words(1),
                   body : Bodies(Lists) ]
        /\ \A i \in 1..Len(b.body.transactions) : IsTransaction(b.body.transactions[i])
        /\ \E key : IsMinted(b, key)
    BY ONLY IsBlock(b), BlockIsTyped
  <1>2. S \in SUBSET Elements /\ Digit \subseteq S
        /\ \A w \in Words(1) : Len(w[1]) \in {2, 4} \/ w[1][1] = 0 \/ w = b.signature => w \in Seq(S)
    BY ONLY UnforgedHas
  <1> HIDE DEF S
  <1>3. b.version \in Seq(S)
    <2>1. 0 \in Nat /\ 1 \in Nat OBVIOUS
    <2>2. Digits(0, 1) \in Seq(Digit) BY ONLY <2>1, DigitsOf
    <2>3. b.version = Digits(0, 1) BY ONLY <1>1
    <2> QED BY ONLY <1>2, <2>2, <2>3, SeqMonotonic
  <1>4. b.hash \in Seq(S)
    <2> DEFINE w == b.hash
    <2>1. w[1] = CalculateHash(C, b) /\ w \in Words(1) BY ONLY <1>1 DEF IsMinted
    <2>2. \A x : Len(Sha256(x)) = 4 BY DEF Sha256
    <2>3. Len(CalculateHash(C, b)) = 4 BY ONLY <2>2 DEF CalculateHash
    <2> HIDE DEF w
    <2>4. Len(w[1]) \in {2, 4} BY ONLY <2>1, <2>3
    <2>5. w \in Seq(S) BY ONLY <1>2, <2>1, <2>4
    <2> QED BY ONLY <2>5 DEF w
  <1>5. b.previousHash \in Seq(S)
    <2>1. b.previousHash \in HashWords BY ONLY <1>1
    <2> QED BY ONLY <1>2, <2>1 DEF HashWords
  <1>6. b.signature \in Seq(S)
    <2>1. b.signature \in Words(1) BY ONLY <1>1
    <2> QED BY ONLY <1>2, <2>1
  <1>7. /\ f(1).kind = "fixed" /\ KeyOf(C, 1) = "version"
        /\ f(2).kind = "bigint" /\ KeyOf(C, 2) = "index"
        /\ f(3).kind = "bigint" /\ KeyOf(C, 3) = "slotIndex"
        /\ f(4).kind = "fixed" /\ KeyOf(C, 4) = "hash"
        /\ f(5).kind = "fixed" /\ KeyOf(C, 5) = "previousHash"
        /\ f(6).kind = "bigint" /\ KeyOf(C, 6) = "timestamp"
        /\ f(7).kind = "fixed" /\ KeyOf(C, 7) = "signature"
        /\ f(8).kind = "object" /\ f(8).target = "BlockBody" /\ KeyOf(C, 8) = "body"
    BY KeysOfFields, BlockFieldsAre DEF KeyOf
  <1>8. Enc(k, "BlockBody", b.body) \in Seq(S)
    <2> DEFINE list == b.body.transactions
    <2>1. b.body = [transactions |-> list] /\ list \in Lists BY ONLY <1>1 DEF Bodies
    <2>2. k - 1 \in 1..4 /\ (k - 1) + 1 = k OBVIOUS
    <2>3. \A i \in 1..Len(list) : IsTransaction(list[i]) BY ONLY <1>1
    <2> HIDE DEF list
    <2>4. Enc((k - 1) + 1, "BlockBody", [transactions |-> list]) \in Seq(Unforged(b))
      BY ONLY <2>1, <2>2, <2>3, BodyIn
    <2> QED BY ONLY <2>1, <2>2, <2>4 DEF S
  <1>9. {b.index, b.slotIndex, b.timestamp} \subseteq Numbers BY ONLY <1>1
  <1> HIDE DEF f
  <1>10. F(1) /\ F(4) /\ F(5) /\ F(7)
    BY ONLY <1>2, <1>3, <1>4, <1>5, <1>6, <1>7, FieldsIn DEF f
  <1>11. F(2) /\ F(3) /\ F(6) /\ F(8) BY ONLY <1>2, <1>7, <1>8, <1>9, FieldsIn DEF f
  <1> HIDE DEF F
  <1>12. \A i \in 1..8 : F(i)
    <2>1. 1..8 = {1, 2, 3, 4, 5, 6, 7, 8} OBVIOUS
    <2> QED BY ONLY <1>10, <1>11, <2>1
  <1>13. \A i \in 1..Len(Settings(C)) : EncField(k, Settings(C)[i], b[KeyOf(C, i)]) \in Seq(S)
    BY ONLY <1>12, BlockFieldsAre DEF F
  <1>14. C \in Classes /\ k \in 0..4 BY DEF Classes
  <1>15. Enc(k + 1, C, b) \in Seq(S) BY ONLY <1>2, <1>13, <1>14, ObjectIn
  <1> QED BY ONLY <1>15 DEF S, C

LEMMA ForkIn ==
    ASSUME NEW b, IsBlock(b), NEW k \in 3..4
    PROVE  Enc(k + 1, "ForkChainstateData", Fork(b)) \in Seq(Unforged(b))
  <1> DEFINE S == Unforged(b)
             C == "ForkChainstateData"
             o == Fork(b)
             f(i) == Settings(C)[i]
             F(i) == EncField(k, f(i), o[KeyOf(C, i)]) \in Seq(S)
  <1>1. S \in SUBSET Elements /\ Digit \subseteq S
        /\ \A w \in Words(1) : Len(w[1]) \in {2, 4} \/ w[1][1] = 0 \/ w = b.signature => w \in Seq(S)
    BY ONLY UnforgedHas
  <1>2. <<ZeroHash>> \in Seq(S)
    <2>1. ZeroHash \in Elements /\ Len(ZeroHash) = 4
      BY FormatsAssumption DEF Elements, ZeroHash, Sha256
    <2> HIDE DEF ZeroHash, S
    <2> DEFINE w == <<ZeroHash>>
    <2>2. w \in Words(1) /\ Len(w[1]) = 4 BY <2>1 DEF Words
    <2> HIDE DEF w
    <2>3. w \in Seq(S) BY ONLY <1>1, <2>2
    <2> QED BY ONLY <2>3 DEF w
  <1>3. /\ Len(Settings(C)) = 4
        /\ f(1).kind = "fixed" /\ KeyOf(C, 1) = "stateHash"
        /\ f(2).kind = "fixed" /\ KeyOf(C, 2) = "parentChain"
        /\ f(3).kind = "object" /\ f(3).target = "Block" /\ KeyOf(C, 3) = "base"
        /\ f(4).kind = "object" /\ f(4).target = "Block" /\ KeyOf(C, 4) = "latestBlock"
    BY SettingsAre, KeysOfFields DEF ForkSettings, KeyOf
  <1>4. Enc(k, "Block", b) \in Seq(S)
    <2>1. k - 1 \in 2..4 /\ (k - 1) + 1 = k OBVIOUS
    <2>2. Enc((k - 1) + 1, "Block", b) \in Seq(Unforged(b))
      BY ONLY <2>1, IsBlock(b), BlockIn
    <2> QED BY ONLY <2>1, <2>2 DEF S
  <1> HIDE DEF S
  <1>5. o.stateHash = <<ZeroHash>> /\ o.parentChain = <<ZeroHash>> /\ o.base = b /\ o.latestBlock = b
    <2> HIDE DEF ZeroHash
    <2> QED BY DEF Fork
  <1> HIDE DEF f, o
  <1>6. F(1) /\ F(2) BY ONLY <1>1, <1>2, <1>3, <1>5, FieldsIn DEF f
  <1>7. F(3) /\ F(4) BY ONLY <1>1, <1>3, <1>4, <1>5, FieldsIn DEF f
  <1> HIDE DEF F
  <1>8. \A i \in 1..Len(Settings(C)) : F(i)
    <2>1. 1..4 = {1, 2, 3, 4} OBVIOUS
    <2> QED BY ONLY <1>3, <1>6, <1>7, <2>1
  <1>9. \A i \in 1..Len(Settings(C)) : EncField(k, Settings(C)[i], o[KeyOf(C, i)]) \in Seq(S)
    BY ONLY <1>8 DEF F, f
  <1>10. C \in Classes /\ k \in 0..4 BY DEF Classes
  <1>11. Enc(k + 1, C, o) \in Seq(S) BY ONLY <1>1, <1>9, <1>10, ObjectIn
  <1> QED BY ONLY <1>11 DEF S, o

LEMMA OneFieldIn ==
    ASSUME NEW S \in SUBSET Elements, NEW class \in Classes, Len(Settings(class)) = 1, NEW o,
           EncField(4, Settings(class)[1], o[KeyOf(class, 1)]) \in Seq(S)
    PROVE  EncodeObject(class, o, FALSE) \in Seq(S)
  <1>1. \A i \in 1..Len(Settings(class)) : EncField(4, Settings(class)[i], o[KeyOf(class, i)]) \in Seq(S)
    <2>1. \A i \in 1..1 : i = 1 OBVIOUS
    <2> QED BY ONLY <2>1, Len(Settings(class)) = 1, EncField(4, Settings(class)[1], o[KeyOf(class, 1)]) \in Seq(S)
  <1>2. 4 \in 0..4 /\ 4 + 1 = 5 OBVIOUS
  <1>3. Enc(4 + 1, class, o) \in Seq(S)
    BY ONLY <1>1, <1>2, S \in SUBSET Elements, class \in Classes, ObjectIn
  <1>4. EncodeObject(class, o, FALSE) = Enc(5, class, o) BY ONLY EncIs
  <1> QED BY ONLY <1>2, <1>3, <1>4

\* What a block is in, written.
LEMMA BlockCarriersIn ==
    ASSUME NEW b, IsBlock(b), NEW c \in Files(b) \cup BlockMessages(b)
    PROVE  EncodeObject(c.class, c.object, FALSE) \in Seq(Unforged(b))
  <1> DEFINE S == Unforged(b)
             InS(class, o) == EncodeObject(class, o, FALSE) \in Seq(S)
             chainstate == [version |-> Digits(0, 1), chains |-> <<Fork(b)>>]
  <1>1. S \in SUBSET Elements /\ Digit \subseteq S BY ONLY UnforgedHas
  <1>2. Enc(4, "Block", b) \in Seq(S) /\ Enc(5, "Block", b) \in Seq(S) /\ Enc(4, "ForkChainstateData", Fork(b)) \in Seq(S)
    <2>1. 3 \in 2..4 /\ 4 \in 2..4 /\ 3 \in 3..4 /\ 3 + 1 = 4 /\ 4 + 1 = 5 OBVIOUS
    <2>2. Enc(3 + 1, "Block", b) \in Seq(S) /\ Enc(4 + 1, "Block", b) \in Seq(S)
      BY ONLY <2>1, IsBlock(b), BlockIn
    <2>3. Enc(3 + 1, "ForkChainstateData", Fork(b)) \in Seq(S)
      BY ONLY <2>1, IsBlock(b), ForkIn
    <2> QED BY ONLY <2>1, <2>2, <2>3
  <1> HIDE DEF S
  <1>3. InS("Block", b) BY ONLY <1>2, EncIs
  <1>4. InS("NEW_BLOCK", [block |-> b])
    <2> DEFINE C == "NEW_BLOCK"
               o == [block |-> b]
               f == Settings(C)[1]
    <2>1. Len(Settings(C)) = 1 /\ f.kind = "object" /\ f.target = "Block" /\ KeyOf(C, 1) = "block"
      BY SettingsAre, KeysOfFields DEF NewBlockMsg, KeyOf
    <2>2. C \in Classes /\ o.block = b BY MessageClasses DEF Classes
    <2> HIDE DEF o, f
    <2>3. EncField(4, f, o[KeyOf(C, 1)]) \in Seq(S)
      BY ONLY <1>1, <1>2, <2>1, <2>2, FieldsIn
    <2>4. EncodeObject(C, o, FALSE) \in Seq(S)
      BY ONLY <1>1, <2>1, <2>2, <2>3, OneFieldIn DEF f
    <2> QED BY ONLY <2>4 DEF o
  <1>5. InS("BLOCKS", [blocks |-> <<b>>])
    <2> DEFINE C == "BLOCKS"
               o == [blocks |-> <<b>>]
               v == <<b>>
               f == Settings(C)[1]
    <2>1. Len(Settings(C)) = 1 /\ f.kind = "array" /\ f.target = "Block" /\ f.len = PrefixLength /\ KeyOf(C, 1) = "blocks"
      BY SettingsAre, KeysOfFields DEF BlocksMsg, KeyOf
    <2>2. C \in Classes /\ o.blocks = v /\ PrefixLength \in Nat
      BY MessageClasses, EncodingAssumption DEF Classes
    <2>3. v \in Seq({b}) /\ \A i \in 1..Len(v) : v[i] = b OBVIOUS
    <2> HIDE DEF o, f, v
    <2>4. \A i \in 1..Len(v) : Enc(4, f.target, v[i]) \in Seq(S)
      BY ONLY <1>2, <2>1, <2>3
    <2>5. f.len \in Nat /\ o[KeyOf(C, 1)] = v BY ONLY <2>1, <2>2
    <2>6. EncField(4, f, v) \in Seq(S) BY ONLY <1>1, <2>1, <2>3, <2>4, <2>5, ListIn
    <2>7. EncodeObject(C, o, FALSE) \in Seq(S)
      BY ONLY <1>1, <2>1, <2>2, <2>5, <2>6, OneFieldIn DEF f
    <2> QED BY ONLY <2>7 DEF o
  <1>6. InS("CHAINSTATE", [chainstate |-> Fork(b)])
    <2> DEFINE C == "CHAINSTATE"
               o == [chainstate |-> Fork(b)]
               f == Settings(C)[1]
    <2>1. Len(Settings(C)) = 1 /\ f.kind = "object" /\ f.target = "ForkChainstateData" /\ KeyOf(C, 1) = "chainstate"
      BY SettingsAre, KeysOfFields DEF ChainstateMsg, KeyOf
    <2>2. C \in Classes /\ o.chainstate = Fork(b) BY MessageClasses DEF Classes
    <2> HIDE DEF o, f
    <2>3. EncField(4, f, o[KeyOf(C, 1)]) \in Seq(S)
      BY ONLY <1>1, <1>2, <2>1, <2>2, FieldsIn
    <2>4. EncodeObject(C, o, FALSE) \in Seq(S)
      BY ONLY <1>1, <2>1, <2>2, <2>3, OneFieldIn DEF f
    <2> QED BY ONLY <2>4 DEF o
  <1>7. InS("ChainstateData", chainstate)
    <2> DEFINE C == "ChainstateData"
               v == <<Fork(b)>>
               f(i) == Settings(C)[i]
               F(i) == EncField(4, f(i), chainstate[KeyOf(C, i)]) \in Seq(S)
    <2>1. /\ Len(Settings(C)) = 2 /\ f(1).kind = "fixed" /\ f(1).len = 1 /\ KeyOf(C, 1) = "version"
          /\ f(2).kind = "array" /\ f(2).target = "ForkChainstateData" /\ f(2).len = PrefixLength /\ KeyOf(C, 2) = "chains"
      BY SettingsAre, KeysOfFields DEF ChainstateSettings, KeyOf
    <2>2. C \in Classes /\ PrefixLength \in Nat BY EncodingAssumption DEF Classes
    <2>3. v \in Seq({Fork(b)}) /\ \A i \in 1..Len(v) : v[i] = Fork(b) OBVIOUS
    <2>4. chainstate.version = Digits(0, 1) /\ chainstate.chains = v OBVIOUS
    <2> HIDE DEF chainstate, f, v
    <2>5. \A i \in 1..Len(v) : Enc(4, f(2).target, v[i]) \in Seq(S)
      BY ONLY <1>2, <2>1, <2>3
    <2>6. EncField(4, f(2), v) \in Seq(S)
      <3>1. f(2).len \in Nat BY ONLY <2>1, <2>2
      <3> QED BY ONLY <1>1, <2>1, <2>3, <2>5, <3>1, ListIn
    <2>7. Digits(0, 1) \in Seq(S)
      <3>1. 0 \in Nat /\ 1 \in Nat OBVIOUS
      <3>2. Digits(0, 1) \in Seq(Digit) BY ONLY <3>1, DigitsOf
      <3> QED BY ONLY <1>1, <3>2, SeqMonotonic
    <2>8. EncField(4, f(1), Digits(0, 1)) \in Seq(S) BY ONLY <1>1, <2>1, <2>7, FieldsIn
    <2>9. F(1) /\ F(2) BY ONLY <2>1, <2>4, <2>6, <2>8
    <2> HIDE DEF F
    <2>10. \A i \in 1..Len(Settings(C)) : F(i)
      <3>1. 1..2 = {1, 2} OBVIOUS
      <3> QED BY ONLY <2>1, <2>9, <3>1
    <2>11. \A i \in 1..Len(Settings(C)) : EncField(4, Settings(C)[i], chainstate[KeyOf(C, i)]) \in Seq(S)
      BY ONLY <2>10 DEF F, f
    <2>12. 4 \in 0..4 /\ 4 + 1 = 5 OBVIOUS
    <2>13. Enc(4 + 1, C, chainstate) \in Seq(S)
      BY ONLY <1>1, <2>2, <2>11, <2>12, ObjectIn
    <2> QED BY ONLY <2>12, <2>13, EncIs
  <1> HIDE DEF InS, chainstate
  <1>8. InS(c.class, c.object)
    <2>1. \A m, class, o : Carrier(m, class, o).class = class /\ Carrier(m, class, o).object = o
      BY DEF Carrier
    <2>2. c \in { Carrier("file", "Block", b), Carrier("file", "ChainstateData", chainstate),
                  Carrier("wire", "NEW_BLOCK", [block |-> b]), Carrier("wire", "BLOCKS", [blocks |-> <<b>>]),
                  Carrier("wire", "CHAINSTATE", [chainstate |-> Fork(b)]) }
      BY DEF Files, BlockMessages, chainstate
    <2> QED BY ONLY <1>3, <1>4, <1>5, <1>6, <1>7, <2>1, <2>2
  <1> QED BY ONLY <1>8 DEF InS, S

-------------------------------------------------------------------------------
\* Whoever reads another list in the bytes of a block finds another minter.
LEMMA ForeignBlock ==
    ASSUME NEW b, IsBlock(b), Cut(Len(b.body.transactions), Base, PrefixLength) # 0, NEW g \in FoundBlocks(Unforged(b))
    PROVE  g.minter # b.minter
  <1> SUFFICES ASSUME g.minter = b.minter PROVE FALSE OBVIOUS
  <1> DEFINE w == Written("Block", g)
             h == CalculateHash("Block", w)
             s == g.signature[1]
             own == CalculateHash("Block", b)
  <1>1. PICK key : IsMinted(b, key) BY BlockIsTyped
  <1>2. g \in ReadBlocks(ShortLists) /\ g.signature \in OneOf(Unforged(b))
    BY DEF FoundBlocks
  <1>3. /\ w \in BlockData(ShortLists)
        /\ g = [w EXCEPT !.minter = FromSignature(h, s)]
    BY ONLY <1>2, ReadBlock
  <1>4. g.minter = FromSignature(h, s)
    <2> DEFINE m == FromSignature(h, s)
    <2> HIDE DEF w, h, s, m
    <2>1. g = [w EXCEPT !.minter = m] /\ w \in BlockData(ShortLists) BY ONLY <1>3 DEF m
    <2>2. "minter" \in DOMAIN w BY ONLY <2>1 DEF BlockData
    <2>3. g.minter = m BY ONLY <2>1, <2>2
    <2> QED BY ONLY <2>3 DEF m
  <1>5. \A k \in HashedBlockKeys : g[k] = w[k]
    <2> DEFINE m == FromSignature(h, s)
    <2> HIDE DEF w, h, s, m
    <2>1. g = [w EXCEPT !.minter = m] /\ w \in BlockData(ShortLists) BY ONLY <1>3 DEF m
    <2> QED BY ONLY <2>1 DEF BlockData, HashedBlockKeys
  <1>6. h = CalculateHash("Block", g) BY ONLY <1>5, HashSame
  <1>7. s \in Elements /\ (Len(s) = 3 /\ s[1] = MinterType => s = b.signature[1])
    <2>1. s \in Unforged(b) BY ONLY <1>2 DEF OneOf
    <2> HIDE DEF s
    <2> QED BY ONLY <2>1 DEF Unforged
  <1>8. b.signature[1] = <<MinterType, key, own>> /\ key \in Keys /\ b.minter = Address(MinterType, key)
    BY ONLY <1>1 DEF IsMinted
  <1>9. key # 0 BY <1>8, EncodingAssumption
  <1>10. b.minter = <<MinterType, <<key>>>>
    BY ONLY <1>8, <1>9 DEF Address, FromPublicKey, GetPublicKeyFromPrivateKey, GetPublic, FromPrivate
  <1>11. FromSignature(h, s) = <<GetSignerType(s), GetPublicKeyFromSignature(h, s)>>
    BY DEF FromSignature, FromPublicKey
  <1> HIDE DEF w, h, s, own
  <1>12. GetSignerType(s) = MinterType /\ GetPublicKeyFromSignature(h, s) = <<key>>
    BY ONLY <1>4, <1>10, <1>11, g.minter = b.minter
  <1>13. IsSignature(s) /\ s[1] = MinterType BY ONLY <1>12 DEF GetSignerType, MinterType
  <1>14. s = <<MinterType, key, own>> BY ONLY <1>7, <1>8, <1>13 DEF IsSignature
  <1>15. GetElliptic(s) = <<key, own>> BY ONLY <1>14 DEF GetElliptic
  <1>16. own = h
    <2> SUFFICES ASSUME own # h PROVE FALSE OBVIOUS
    <2>1. GetPublicKeyFromSignature(h, s) = <<0>>
      BY ONLY <1>13, <1>15, own # h DEF GetPublicKeyFromSignature
    <2> QED BY ONLY <1>9, <1>12, <2>1
  <1>17. \A k \in HashedBlockKeys : g[k] = b[k]
    <2>1. g \in ReadBlocks(Lists)
      <3>1. BlockData(ShortLists) \subseteq BlockData(Lists)
        BY DEF BlockData, Bodies, ShortLists
      <3> QED BY ONLY <1>2, <3>1 DEF ReadBlocks
    <2>2. b \in ReadBlocks(Lists) BY ONLY IsBlock(b), BlockIsRead
    <2>3. CalculateHash("Block", g) = CalculateHash("Block", b)
      BY ONLY <1>6, <1>16 DEF own
    <2> QED BY ONLY <2>1, <2>2, <2>3, BlockOfHash
  <1>18. g.body = b.body BY ONLY <1>17 DEF HashedBlockKeys
  <1>19. Cut(Len(g.body.transactions), Base, PrefixLength) = 0
    <2>1. g.body \in Bodies(ShortLists) BY ONLY <1>2, ReadBlock
    <2> QED BY ONLY <2>1 DEF Bodies, ShortLists
  <1> QED BY <1>18, <1>19

-------------------------------------------------------------------------------
(***************************************************************************)
(* What is read of each carrier.                                           *)
(***************************************************************************)

LEMMA CarrierParts ==
    \A m, class, o : /\ Carrier(m, class, o).medium = m /\ Carrier(m, class, o).class = class
                     /\ Carrier(m, class, o).object = o
  BY DEF Carrier

LEMMA WholeFileIsRead ==
    ASSUME NEW class \in {"Block", "ChainstateData"}, NEW o, NEW b, Copy(class, o) = Decoded(b, 0), WholeIsBack(class, o)
    PROVE  /\ ReadFile(class, EncodeObject(class, o, FALSE)) = Decoded(b, 0)
           /\ \A q : StrictPrefix(q, EncodeObject(class, o, FALSE)) => ReadFile(class, q) = Failed
  <1> DEFINE code == EncodeObject(class, o, FALSE)
             Read1(q, read) == ReadFile(class, q) = IF read.ok THEN Copy(class, read.data) ELSE Failed
  <1>1. /\ DecodeWhole(class, code) = Decoded(o, 0)
        /\ \A n \in 0..(Len(code) - 1) : DecodeWhole(class, SubSeq(code, 1, n)) = Failed
    BY DEF WholeIsBack
  <1>2. \A q : Read1(q, DecodeWhole(class, q)) BY DEF ReadFile
  <1> HIDE DEF code
  <1>3. ReadFile(class, code) = Decoded(b, 0)
    <2> DEFINE read == Decoded(o, 0)
    <2>1. read.ok /\ read.data = o BY Outcomes
    <2>2. Read1(code, read) BY ONLY <1>1, <1>2
    <2> HIDE DEF read
    <2> QED BY ONLY <2>1, <2>2, Copy(class, o) = Decoded(b, 0)
  <1>4. ASSUME NEW q, StrictPrefix(q, code) PROVE ReadFile(class, q) = Failed
    <2>1. DecodeWhole(class, q) = Failed BY ONLY <1>1, <1>4 DEF StrictPrefix
    <2>2. Read1(q, Failed) BY ONLY <1>2, <2>1
    <2>3. ~Failed.ok BY ONLY Outcomes
    <2> QED BY ONLY <2>2, <2>3
  <1> QED BY ONLY <1>3, <1>4 DEF code

LEMMA BlockFileIsRead ==
    ASSUME NEW b \in ReadBlocks(ShortLists), NEW c \in Files(b)
    PROVE  /\ ReadFile(c.class, Code(c)) = Decoded(b, 0)
           /\ \A q : StrictPrefix(q, Code(c)) => ReadFile(c.class, q) = Failed
  <1> DEFINE chainstate == [version |-> Digits(0, 1), chains |-> <<Fork(b)>>]
             Good(class, o) == /\ ReadFile(class, EncodeObject(class, o, FALSE)) = Decoded(b, 0)
                               /\ \A q : StrictPrefix(q, EncodeObject(class, o, FALSE)) => ReadFile(class, q) = Failed
  <1>1. Good("Block", b)
    <2> DEFINE C == "Block"
    <2>1. WholeIsBack(C, b) /\ Copy(C, b) = Decoded(b, 0) /\ C \in {"Block", "ChainstateData"}
      BY BlockIsBack DEF Copy
    <2> QED BY ONLY <2>1, WholeFileIsRead
  <1>2. Good("ChainstateData", chainstate)
    <2> DEFINE C == "ChainstateData"
    <2>1. WholeIsBack(C, chainstate) /\ C \in {"Block", "ChainstateData"}
      BY ForkIsObject, ChainstateFileBack
    <2>2. Copy(C, chainstate) = Decoded(b, 0)
      <3>1. chainstate.chains = <<Fork(b)>> /\ <<Fork(b)>> # << >> /\ <<Fork(b)>>[1] = Fork(b)
        OBVIOUS
      <3>2. Fork(b).latestBlock = b BY DEF Fork
      <3> HIDE DEF chainstate
      <3>3. chainstate.chains # << >> /\ chainstate.chains[1].latestBlock = b
        BY ONLY <3>1, <3>2
      <3> QED BY ONLY <3>3 DEF Copy
    <2> QED BY ONLY <2>1, <2>2, WholeFileIsRead
  <1> HIDE DEF Good, chainstate
  <1>3. Good(c.class, c.object)
    <2>1. c \in {Carrier("file", "Block", b), Carrier("file", "ChainstateData", chainstate)}
      BY DEF Files, chainstate
    <2> QED BY ONLY <1>1, <1>2, <2>1, CarrierParts
  <1> QED BY ONLY <1>3 DEF Good, Code

LEMMA BlockMessageIsRead ==
    ASSUME NEW b \in ReadBlocks(ShortLists), NEW c \in BlockMessages(b), NEW id, Addressed(c.class, id)
    PROVE  HandleIncomingMsg(EncodeMsg(c.class, c.object, id)) = Decoded(b, 0)
  <1> DEFINE Good(class, o) == PartIsBack(class, o) /\ Copy(class, o) = Decoded(b, 0) /\ class \in LNMsgRegistry
  <1>1. Good("NEW_BLOCK", [block |-> b])
    <2> DEFINE C == "NEW_BLOCK"
               o == [block |-> b]
    <2>1. PartIsBack(C, o) BY BlockMessageBack
    <2>2. o.block = b /\ C \in LNMsgRegistry BY MessageClasses DEF LNMsgRegistry
    <2> HIDE DEF o
    <2>3. Copy(C, o) = Decoded(b, 0) BY ONLY <2>2 DEF Copy
    <2> QED BY ONLY <2>1, <2>2, <2>3 DEF o
  <1>2. Good("BLOCKS", [blocks |-> <<b>>])
    <2> DEFINE C == "BLOCKS"
               o == [blocks |-> <<b>>]
    <2>1. PartIsBack(C, o) BY BlocksMessageBack
    <2>2. o.blocks # << >> /\ o.blocks[1] = b /\ C \in LNMsgRegistry
      BY MessageClasses DEF LNMsgRegistry
    <2> HIDE DEF o
    <2>3. Copy(C, o) = Decoded(b, 0) BY ONLY <2>2 DEF Copy
    <2> QED BY ONLY <2>1, <2>2, <2>3 DEF o
  <1>3. Good("CHAINSTATE", [chainstate |-> Fork(b)])
    <2> DEFINE C == "CHAINSTATE"
               o == [chainstate |-> Fork(b)]
    <2>1. PartIsBack(C, o) BY ForkIsObject, ChainstateMessageBack
    <2>2. o.chainstate.latestBlock = b /\ C \in LNMsgRegistry
      BY MessageClasses DEF LNMsgRegistry, Fork
    <2> HIDE DEF o
    <2>3. Copy(C, o) = Decoded(b, 0) BY ONLY <2>2 DEF Copy
    <2> QED BY ONLY <2>1, <2>2, <2>3 DEF o
  <1> HIDE DEF Good
  <1>4. Good(c.class, c.object)
    <2>1. c \in { Carrier("wire", "NEW_BLOCK", [block |-> b]), Carrier("wire", "BLOCKS", [blocks |-> <<b>>]),
                  Carrier("wire", "CHAINSTATE", [chainstate |-> Fork(b)]) }
      BY DEF BlockMessages
    <2> QED BY ONLY <1>1, <1>2, <1>3, <2>1, CarrierParts
  <1>5. PartIsBack(c.class, c.object) /\ Copy(c.class, c.object) = Decoded(b, 0) /\ c.class \in LNMsgRegistry
    BY ONLY <1>4 DEF Good
  <1> DEFINE class == c.class
             o == c.object
  <1> HIDE DEF class, o
  <1>6. HandleIncomingMsg(EncodeMsg(class, o, id)) = Copy(class, o)
    <2>1. class \in LNMsgRegistry /\ PartIsBack(class, o) /\ Addressed(class, id)
      BY <1>5 DEF class, o
    <2> QED BY ONLY <2>1, MessageIsRead
  <1> QED BY ONLY <1>5, <1>6 DEF class, o

-------------------------------------------------------------------------------
\* A block with more transactions than their count tells.
LEMMA LongFileIsRead ==
    ASSUME NEW b, IsBlock(b), Cut(Len(b.body.transactions), Base, PrefixLength) # 0, NEW c \in Files(b),
           NEW q, q = Code(c) \/ StrictPrefix(q, Code(c))
    PROVE  ReadFile(c.class, q) = Failed \/ \E g \in Foreign(b) : ReadFile(c.class, q) = Decoded(g, 0)
  <1> DEFINE S == Unforged(b)
             code == Code(c)
  <1>1. S \in SUBSET Elements BY ONLY UnforgedHas
  <1>2. code \in Seq(S)
    <2>1. c \in Files(b) \cup BlockMessages(b) OBVIOUS
    <2> QED BY ONLY <2>1, IsBlock(b), BlockCarriersIn DEF Code
  <1> HIDE DEF S, code
  <1>3. q \in Seq(S)
    <2>1. CASE q = code
      BY ONLY <1>2, <2>1
    <2>2. CASE StrictPrefix(q, code)
      <3>1. PICK n \in 0..(Len(code) - 1) : q = SubSeq(code, 1, n)
        BY ONLY <2>2 DEF StrictPrefix
      <3>2. Len(code) \in Nat BY ONLY <1>2
      <3>3. 1 \in 1..(Len(code) + 1) /\ n \in (1 - 1)..Len(code)
        BY ONLY <3>2, n \in 0..(Len(code) - 1)
      <3>4. SubSeq(code, 1, n) \in Seq(S) BY ONLY <1>2, <3>3, SubSeqProperties
      <3> QED BY ONLY <3>1, <3>4
    <2> QED BY <2>1, <2>2 DEF code
  <1>4. c.class \in {"Block", "ChainstateData"} BY CarrierParts DEF Files
  <1>5. ReadFile(c.class, q) = Failed \/ \E g \in FoundBlocks(S) : ReadFile(c.class, q) = Decoded(g, 0)
    BY ONLY <1>1, <1>3, <1>4, FilesGive
  <1>6. FoundBlocks(S) \subseteq Foreign(b)
    <2> SUFFICES ASSUME NEW g \in FoundBlocks(Unforged(b)) PROVE g \in Foreign(b)
      BY DEF S
    <2>1. g.minter # b.minter BY ForeignBlock
    <2>2. g \in ReadBlocks(ShortLists) BY DEF FoundBlocks
    <2> QED BY ONLY <2>1, <2>2 DEF Foreign
  <1> QED BY ONLY <1>5, <1>6

LEMMA LongMessageIsRead ==
    ASSUME NEW b, IsBlock(b), Cut(Len(b.body.transactions), Base, PrefixLength) # 0, NEW c \in BlockMessages(b),
           NEW id, Addressed(c.class, id)
    PROVE  LET read == HandleIncomingMsg(EncodeMsg(c.class, c.object, id)) IN
           read = Failed \/ \E g \in Foreign(b) : read = Decoded(g, 0)
  <1> DEFINE S == Unforged(b)
             class == c.class
             code == EncodeObject(class, c.object, FALSE)
             part == DecodePart(class, code)
             read == HandleIncomingMsg(EncodeMsg(c.class, c.object, id))
  <1>1. S \in SUBSET Elements BY ONLY UnforgedHas
  <1>2. code \in Seq(S)
    <2>1. c \in Files(b) \cup BlockMessages(b) OBVIOUS
    <2> QED BY ONLY <2>1, IsBlock(b), BlockCarriersIn
  <1>3. code \in Seq(Elements)
    <2> HIDE DEF code, S
    <2> QED BY ONLY <1>1, <1>2, SeqOfElements
  <1>4. class \in {"NEW_BLOCK", "BLOCKS", "CHAINSTATE"}
    BY CarrierParts DEF BlockMessages
  <1>5. class \in LNMsgRegistry /\ class \in Classes
    <2> HIDE DEF class
    <2> QED BY ONLY <1>4, MessageClasses DEF LNMsgRegistry, Classes
  <1>6. read = IF part.ok THEN Copy(class, part.data) ELSE Failed
    <2>1. Addressed(class, id) /\ part = DecodePart(class, code) OBVIOUS
    <2> HIDE DEF part
    <2> QED BY ONLY <1>3, <1>5, <2>1, MessageIsHandled
  <1>7. part = Failed \/ \E w : \E len \in Nat : part = Decoded(w, len)
    <2>1. Reads(Decoder(DecodeInner)) BY ONLY DecodersRead
    <2>2. << >> \in Seq(Elements) OBVIOUS
    <2> HIDE DEF code, class
    <2>3. Parted(Decoder(DecodeInner)[<<class, code>>], Decoder(DecodeInner)[<<class, code \o << >>>>], Len(code))
      BY ONLY <1>3, <1>5, <2>1, <2>2 DEF Reads
    <2> QED BY ONLY <2>3 DEF Parted, Outcome, DecodePart
  <1> HIDE DEF part, read, code, S, class
  <1>8. CASE part = Failed
    <2>1. ~part.ok BY ONLY <1>8, Outcomes
    <2> QED BY ONLY <1>6, <2>1 DEF read
  <1>9. CASE \E w : \E len \in Nat : part = Decoded(w, len)
    <2>1. PICK w, len : part = Decoded(w, len) BY ONLY <1>9
    <2>2. part.ok /\ part.data = w BY ONLY <2>1, Outcomes
    <2>3. DecodePart(class, code) = Decoded(w, len) BY ONLY <2>1 DEF part
    <2>4. Copy(class, w) = Failed \/ \E g \in FoundBlocks(S) : Copy(class, w) = Decoded(g, 0)
      BY ONLY <1>1, <1>2, <1>4, <2>3, MessagesGive
    <2>5. FoundBlocks(S) \subseteq Foreign(b)
      <3> SUFFICES ASSUME NEW g \in FoundBlocks(Unforged(b)) PROVE g \in Foreign(b)
        BY DEF S
      <3>1. g.minter # b.minter BY ForeignBlock
      <3>2. g \in ReadBlocks(ShortLists) BY DEF FoundBlocks
      <3> QED BY ONLY <3>1, <3>2 DEF Foreign
    <2>6. read = Copy(class, w) BY ONLY <1>6, <2>2
    <2> QED BY ONLY <2>4, <2>5, <2>6 DEF read
  <1> QED BY ONLY <1>7, <1>8, <1>9

LEMMA CarriersOf ==
    ASSUME NEW kind, NEW value
    PROVE  LET carriers == Carriers([kind |-> kind, value |-> value]) IN
           /\ kind = "Block" => carriers = Files(value) \cup BlockMessages(value)
           /\ kind = "Transaction" => carriers = {Carrier("wire", "NEW_TRANSACTION", [transaction |-> value])}
           /\ kind \in {"Wallet", "MinterData"} => carriers = {Carrier("db", kind, value)}
           /\ kind \in PlainMessages => carriers = {Carrier("wire", kind, value)}
           /\ kind \in {"Address32", "Endpoint"} => carriers = {Carrier("text", kind, value)}
  <1> DEFINE copy == [kind |-> kind, value |-> value]
  <1>1. copy.kind = kind /\ copy.value = value OBVIOUS
  <1> HIDE DEF copy
  <1>2. kind = "Block" => Carriers(copy) = Files(value) \cup BlockMessages(value)
    BY ONLY <1>1, MessageClasses DEF Carriers
  <1>3. kind = "Transaction" => Carriers(copy) = {Carrier("wire", "NEW_TRANSACTION", [transaction |-> value])}
    BY ONLY <1>1, MessageClasses DEF Carriers
  <1>4. kind \in {"Wallet", "MinterData"} => Carriers(copy) = {Carrier("db", kind, value)}
    BY ONLY <1>1, MessageClasses DEF Carriers
  <1>5. kind \in PlainMessages => Carriers(copy) = {Carrier("wire", kind, value)}
    BY ONLY <1>1, MessageClasses DEF Carriers, PlainMessages
  <1>6. kind \in {"Address32", "Endpoint"} => Carriers(copy) = {Carrier("text", kind, value)}
    BY ONLY <1>1, MessageClasses DEF Carriers
  <1> QED BY ONLY <1>2, <1>3, <1>4, <1>5, <1>6 DEF copy

LEMMA CarrierOfKind ==
    ASSUME NEW kind \in OriginalKinds, NEW value, NEW c \in Carriers([kind |-> kind, value |-> value])
    PROVE  IsCarrier(c, kind, value)
  <1> DEFINE carriers == Carriers([kind |-> kind, value |-> value])
  <1>1. /\ kind = "Block" => carriers = Files(value) \cup BlockMessages(value)
        /\ kind = "Transaction" => carriers = {Carrier("wire", "NEW_TRANSACTION", [transaction |-> value])}
        /\ kind \in {"Wallet", "MinterData"} => carriers = {Carrier("db", kind, value)}
        /\ kind \in PlainMessages => carriers = {Carrier("wire", kind, value)}
        /\ kind \in {"Address32", "Endpoint"} => carriers = {Carrier("text", kind, value)}
    BY ONLY CarriersOf
  <1>2. c \in carriers OBVIOUS
  <1> HIDE DEF carriers
  <1>3. CASE kind = "Block"
    <2>1. \A f \in Files(value) : f.medium = "file" BY CarrierParts DEF Files
    <2>2. \A m \in BlockMessages(value) : m.medium = "wire"
      BY CarrierParts DEF BlockMessages
    <2>3. c \in Files(value) \cup BlockMessages(value) BY ONLY <1>1, <1>2, <1>3
    <2> QED BY ONLY <1>3, <2>1, <2>2, <2>3 DEF IsCarrier
  <1>4. CASE kind = "Transaction"
    <2>1. c = Carrier("wire", "NEW_TRANSACTION", [transaction |-> value])
      BY ONLY <1>1, <1>2, <1>4
    <2> QED BY ONLY <1>4, <2>1, CarrierParts DEF IsCarrier
  <1>5. CASE kind \in {"Wallet", "MinterData"}
    <2>1. c = Carrier("db", kind, value) BY ONLY <1>1, <1>2, <1>5
    <2> QED BY ONLY <1>5, <2>1, CarrierParts DEF IsCarrier
  <1>6. CASE kind \in PlainMessages
    <2>1. c = Carrier("wire", kind, value) BY ONLY <1>1, <1>2, <1>6
    <2> QED BY ONLY <1>6, <2>1, CarrierParts DEF IsCarrier
  <1>7. CASE kind \in {"Address32", "Endpoint"}
    <2>1. c = Carrier("text", kind, value) BY ONLY <1>1, <1>2, <1>7
    <2> QED BY ONLY <1>7, <2>1, CarrierParts DEF IsCarrier
  <1> QED BY ONLY <1>3, <1>4, <1>5, <1>6, <1>7, kind \in OriginalKinds DEF OriginalKinds

-------------------------------------------------------------------------------
LEMMA TransactionMessageIsRead ==
    ASSUME NEW t, IsTransaction(t), NEW id, Addressed("NEW_TRANSACTION", id)
    PROVE  HandleIncomingMsg(EncodeMsg("NEW_TRANSACTION", [transaction |-> t], id)) = Decoded(t, 0)
  <1> DEFINE C == "NEW_TRANSACTION"
             o == [transaction |-> t]
  <1>1. t \in ReadTransactions BY TransactionIsRead
  <1>2. PartIsBack(C, o) BY ONLY <1>1, TransactionMessageBack
  <1>3. C \in LNMsgRegistry /\ o.transaction = t BY MessageClasses DEF LNMsgRegistry
  <1> HIDE DEF o
  <1>4. Copy(C, o) = Decoded(t, 0) BY ONLY <1>3 DEF Copy
  <1>5. HandleIncomingMsg(EncodeMsg(C, o, id)) = Copy(C, o)
    BY ONLY <1>2, <1>3, Addressed(C, id), MessageIsRead
  <1> QED BY ONLY <1>4, <1>5 DEF o

LEMMA PlainMessageIsRead ==
    ASSUME NEW class \in PlainMessages, NEW value, IsMessage(class, value), NEW id, Addressed(class, id)
    PROVE  HandleIncomingMsg(EncodeMsg(class, value, id)) = IF class \in Dumb THEN Failed ELSE Decoded(value, 0)
  <1> DEFINE code == EncodeObject(class, value, FALSE)
             msg == EncodeMsg(class, value, id)
  <1>1. class \in Classes /\ class \notin {"ChainstateData", "NEW_BLOCK", "BLOCKS", "CHAINSTATE", "NEW_TRANSACTION"}
    BY MessageClasses DEF PlainMessages, Classes
  <1>2. /\ FieldsAreBack(DecodeInner, 4, class, value)
        /\ class \notin {"GET_TRANSACTIONS", "GET_CHAINSTATE"} => PartIsBack(class, value)
        /\ class \in {"GET_TRANSACTIONS", "GET_CHAINSTATE"} => FromDict(class, Written(class, value)) = Failed
    BY PlainMessageBack
  <1>3. Copy(class, value) = Decoded(value, 0) BY ONLY <1>1 DEF Copy
  <1>4. code \in Seq(Elements) BY ONLY <1>1, <1>2, WholeBack
  <1>5. CASE class \in PlainMessages \ Dumb
    <2>1. class \in LNMsgRegistry /\ PartIsBack(class, value)
      BY <1>2, <1>5 DEF LNMsgRegistry, PlainMessages, Dumb
    <2>2. HandleIncomingMsg(msg) = Copy(class, value)
      BY ONLY <2>1, Addressed(class, id), MessageIsRead
    <2> QED BY ONLY <1>3, <1>5, <2>2
  <1>6. CASE class = "ERROR_RESPONSE"
    <2>1. msg[1] = TypeID(class)
      BY ONLY <1>4, Addressed(class, id), HeadOfMessage DEF Addressed
    <2>2. GetMsgInfo(msg[1]) = {} BY ONLY <1>6, <2>1, TypesOfMessages
    <2> HIDE DEF msg
    <2>3. HandleIncomingMsg(msg) = Failed BY ONLY <2>2, Zenon DEF HandleIncomingMsg
    <2> QED BY ONLY <1>6, <2>3 DEF msg, Dumb
  <1>7. CASE class \in {"GET_TRANSACTIONS", "GET_CHAINSTATE"}
    <2> DEFINE d == DecodeInner
               w == Written(class, value)
               part == DecodePart(class, code)
    <2>1. DecodeFields(d, class, code) = Decoded(w, Len(code))
      BY ONLY <1>1, <1>2, CodeBack
    <2>4. part = FromFields(class, Decoded(w, Len(code)))
      <3> HIDE DEF w, code
      <3> QED BY ONLY <1>1, <1>4, <2>1, DecoderIs DEF DecodePart
    <2>5. FromDict(class, w) = Failed BY ONLY <1>2, <1>7
    <2> HIDE DEF w, part
    <2>6. part = Failed
      <3>1. Decoded(w, Len(code)).ok /\ Decoded(w, Len(code)).data = w /\ ~Failed.ok
        BY ONLY Outcomes
      <3> HIDE DEF code
      <3> QED BY ONLY <2>4, <2>5, <3>1, Zenon DEF FromFields, Completed
    <2>7. ~part.ok BY ONLY <2>6, Outcomes
    <2>8. HandleIncomingMsg(msg) = IF part.ok THEN Copy(class, part.data) ELSE Failed
      <3>1. class \in LNMsgRegistry BY <1>7 DEF LNMsgRegistry, PlainMessages
      <3>2. DecodePart(class, code) = part BY DEF part
      <3> HIDE DEF part
      <3> QED BY ONLY <1>4, <3>1, <3>2, Addressed(class, id), MessageIsHandled
    <2> QED BY ONLY <1>7, <2>7, <2>8 DEF Dumb
  <1> QED BY ONLY <1>5, <1>6, <1>7, class \in PlainMessages DEF Dumb

-------------------------------------------------------------------------------
(***************************************************************************)
(* The invariant: the copy that is held is the original, in the spelling   *)
(* it is read in, or the block of another minter, and what is written is   *)
(* the copy.                                                               *)
(***************************************************************************)

LEMMA KindOfOriginal ==
    ASSUME FormatsInv
    PROVE  original.kind \in OriginalKinds
  BY KindsOfOriginals DEF FormatsInv, OriginalIs, OriginalKinds

LEMMA NormalIsSame ==
    ASSUME original.kind # "Endpoint", NEW v
    PROVE  Normal(v) = v
  BY DEF Normal

LEMMA FitsIs ==
    ASSUME original.kind = "Block"
    PROVE  Fits <=> Cut(Len(original.value.body.transactions), Base, PrefixLength) = 0
  BY DEF Fits, Transactions

\* The copy that was written.
LEMMA WrittenCopy ==
    ASSUME FormatsInv, stage = "written"
    PROVE  \E d : IsCopy(d) /\ held = Decoded(d, 0) /\ carrier \in Carriers([kind |-> original.kind, value |-> d])
  <1>1. PICK d : held = Decoded(d, 0) /\ IsCopy(d)
    BY DEF FormatsInv, HeldIsCopy, WrittenIsCode
  <1>2. held.data = d BY ONLY <1>1, Outcomes
  <1>3. carrier \in Carriers([kind |-> original.kind, value |-> held.data])
    BY DEF FormatsInv, WrittenIsCode
  <1> QED BY ONLY <1>1, <1>2, <1>3

\* Of a copy of a block: it is the block, unless the list was too long.
LEMMA BlockCopies ==
    ASSUME FormatsInv, original.kind = "Block", NEW d, IsCopy(d)
    PROVE  /\ IsBlock(original.value)
           /\ d = original.value \/ (~Fits /\ d \in Foreign(original.value))
           /\ (d = original.value /\ ~Fits) \/ d \in ReadBlocks(ShortLists)
           /\ ~Fits => Cut(Len(original.value.body.transactions), Base, PrefixLength) # 0
  <1>1. IsBlock(original.value) BY KindsOfOriginals DEF FormatsInv, OriginalIs
  <1>2. d = original.value \/ (~Fits /\ d \in Foreign(original.value))
    BY NormalIsSame DEF IsCopy
  <1>3. Foreign(original.value) \subseteq ReadBlocks(ShortLists) BY DEF Foreign
  <1>4. Fits => original.value \in ReadBlocks(ShortLists)
    BY ONLY <1>1, original.kind = "Block", FitsIs, BlockIsRead
  <1>5. ~Fits => Cut(Len(original.value.body.transactions), Base, PrefixLength) # 0
    BY ONLY original.kind = "Block", FitsIs
  <1> QED BY ONLY <1>1, <1>2, <1>3, <1>4, <1>5

LEMMA CopiesOfBlock ==
    ASSUME original.kind = "Block", NEW d
    PROVE  /\ d = original.value => IsCopy(d)
           /\ ~Fits /\ d \in Foreign(original.value) => IsCopy(d)
  BY DEF IsCopy

LEMMA FileResult ==
    ASSUME FormatsInv, stage = "written", carrier.medium = "file"
    PROVE  Result(ReadFile(carrier.class, bytes))
  <1> DEFINE b == original.value
             r == ReadFile(carrier.class, bytes)
             code == Code(carrier)
  <1>1. PICK d : IsCopy(d) /\ carrier \in Carriers([kind |-> original.kind, value |-> d])
    BY WrittenCopy
  <1>2. original.kind = "Block" /\ carrier \in Files(d)
    <2>1. IsCarrier(carrier, original.kind, d)
      BY ONLY <1>1, FormatsInv, KindOfOriginal, CarrierOfKind
    <2> QED BY ONLY <2>1, carrier.medium = "file" DEF IsCarrier
  <1>3. bytes = code \/ (~whole /\ StrictPrefix(bytes, code))
    BY DEF FormatsInv, WrittenIsCode
  <1>4. /\ IsBlock(b)
        /\ d = b \/ (~Fits /\ d \in Foreign(b))
        /\ (d = b /\ ~Fits) \/ d \in ReadBlocks(ShortLists)
        /\ ~Fits => Cut(Len(b.body.transactions), Base, PrefixLength) # 0
    BY ONLY <1>1, <1>2, FormatsInv, BlockCopies
  <1>5. /\ \A x : x = b => IsCopy(x)
        /\ \A x : ~Fits /\ x \in Foreign(b) => IsCopy(x)
    BY ONLY <1>2, CopiesOfBlock
  <1> HIDE DEF b, r, code
  <1>6. CASE d \in ReadBlocks(ShortLists)
    <2>1. /\ ReadFile(carrier.class, code) = Decoded(d, 0)
          /\ \A q : StrictPrefix(q, code) => ReadFile(carrier.class, q) = Failed
      BY ONLY <1>2, <1>6, BlockFileIsRead DEF code
    <2>2. (bytes = code /\ r = Decoded(d, 0)) \/ (~whole /\ r = Failed)
      <3>1. CASE bytes = code
        BY ONLY <2>1, <3>1 DEF r
      <3>2. CASE ~whole /\ StrictPrefix(bytes, code)
        BY ONLY <2>1, <3>2 DEF r
      <3> QED BY ONLY <1>3, <3>1, <3>2
    <2>3. Decoded(d, 0) # Failed BY ONLY Outcomes
    <2> QED BY ONLY <1>1, <2>2, <2>3 DEF Result, r
  <1>7. CASE d = b /\ ~Fits
    <2>1. bytes = code \/ StrictPrefix(bytes, code) BY ONLY <1>3
    <2>2. carrier \in Files(b) BY ONLY <1>2, <1>7
    <2>3. r = Failed \/ \E g \in Foreign(b) : r = Decoded(g, 0)
      BY ONLY <1>4, <1>7, <2>1, <2>2, LongFileIsRead DEF code, r
    <2> QED BY ONLY <1>5, <1>7, <2>3 DEF Result, r
  <1> QED BY ONLY <1>4, <1>6, <1>7

LEMMA EntryResult ==
    ASSUME FormatsInv, stage = "written", carrier.medium = "db"
    PROVE  Result(IF carrier.class = "Wallet" THEN WalletFromDecodedHex(bytes) ELSE MinterFromDecodedHex(bytes))
  <1> DEFINE v == original.value
             r == IF carrier.class = "Wallet" THEN WalletFromDecodedHex(bytes) ELSE MinterFromDecodedHex(bytes)
  <1>1. PICK d : IsCopy(d) /\ carrier \in Carriers([kind |-> original.kind, value |-> d])
    BY WrittenCopy
  <1>2. original.kind \in {"Wallet", "MinterData"} /\ carrier.class = original.kind /\ carrier.object = d
    <2>1. original.kind \in OriginalKinds BY KindOfOriginal
    <2>2. IsCarrier(carrier, original.kind, d) BY ONLY <1>1, <2>1, CarrierOfKind
    <2> QED BY ONLY <2>2, carrier.medium = "db" DEF IsCarrier
  <1>3. d = v BY ONLY <1>1, <1>2, NormalIsSame DEF IsCopy
  <1>4. bytes = EncodeObject(original.kind, v, FALSE)
    BY <1>2, <1>3 DEF FormatsInv, WrittenIsCode, Code
  <1>5. r = DecodeWhole(original.kind, EncodeObject(original.kind, v, FALSE))
    <2> DEFINE code == EncodeObject(original.kind, v, FALSE)
    <2> HIDE DEF code
    <2>1. bytes = code BY ONLY <1>4 DEF code
    <2>2. r = DecodeWhole(original.kind, code)
      BY ONLY <1>2, <2>1 DEF WalletFromDecodedHex, MinterFromDecodedHex
    <2> QED BY ONLY <2>2 DEF code
  <1>6. r = IF v.version = Digits(0, 1) THEN Decoded(v, 0) ELSE Failed
    <2>1. CASE original.kind = "Wallet"
      <3>1. v \in [version : Words(1), balance : Numbers, nonce : Numbers]
        BY <2>1, KindsOfOriginals DEF FormatsInv, OriginalIs
      <3> HIDE DEF v, r
      <3> QED BY ONLY <1>5, <2>1, <3>1, WalletIsRead
    <2>2. CASE original.kind = "MinterData"
      <3>1. v \in [version : Words(1), stake : Numbers]
        BY <2>2, KindsOfOriginals DEF FormatsInv, OriginalIs
      <3> HIDE DEF v, r
      <3> QED BY ONLY <1>5, <2>2, <3>1, MinterIsRead
    <2> QED BY ONLY <1>2, <2>1, <2>2
  <1>7. IsCopy(v) BY DEF IsCopy
  <1>8. ~Unreadable => v.version = Digits(0, 1) BY ONLY <1>2 DEF Unreadable
  <1>9. Decoded(v, 0) # Failed BY ONLY Outcomes
  <1> HIDE DEF v, r
  <1> QED BY ONLY <1>6, <1>7, <1>8, <1>9 DEF Result, r

LEMMA MessageResult ==
    ASSUME FormatsInv, stage = "written", carrier.medium = "wire"
    PROVE  Result(HandleIncomingMsg(bytes))
  <1> DEFINE v == original.value
             r == HandleIncomingMsg(bytes)
  <1>1. PICK d : IsCopy(d) /\ carrier \in Carriers([kind |-> original.kind, value |-> d])
    BY WrittenCopy
  <1>2. IsCarrier(carrier, original.kind, d)
    BY ONLY <1>1, FormatsInv, KindOfOriginal, CarrierOfKind
  <1>3. PICK id : Addressed(carrier.class, id) /\ bytes = EncodeMsg(carrier.class, carrier.object, id)
    BY DEF FormatsInv, WrittenIsCode
  <1>4. r = HandleIncomingMsg(EncodeMsg(carrier.class, carrier.object, id)) BY ONLY <1>3
  <1>5. \A x : Decoded(x, 0) # Failed BY ONLY Outcomes
  <1>6. IsCopy(v) BY DEF IsCopy
  <1> HIDE DEF v, r
  <1>7. CASE original.kind = "Block" /\ carrier \in BlockMessages(d)
    <2>1. /\ IsBlock(v)
          /\ d = v \/ (~Fits /\ d \in Foreign(v))
          /\ (d = v /\ ~Fits) \/ d \in ReadBlocks(ShortLists)
          /\ ~Fits => Cut(Len(v.body.transactions), Base, PrefixLength) # 0
      BY ONLY <1>1, <1>7, FormatsInv, BlockCopies DEF v
    <2>2. CASE d \in ReadBlocks(ShortLists)
      <3>1. HandleIncomingMsg(EncodeMsg(carrier.class, carrier.object, id)) = Decoded(d, 0)
        BY ONLY <1>3, <1>7, <2>2, BlockMessageIsRead
      <3>2. r = Decoded(d, 0) BY ONLY <1>4, <3>1
      <3> QED BY ONLY <1>1, <1>5, <3>2 DEF Result, r
    <2>3. CASE d = v /\ ~Fits
      <3>1. carrier \in BlockMessages(v) BY ONLY <1>7, <2>3
      <3>2. r = Failed \/ \E g \in Foreign(v) : r = Decoded(g, 0)
        BY ONLY <1>3, <1>4, <2>1, <2>3, <3>1, LongMessageIsRead
      <3>3. \A x : ~Fits /\ x \in Foreign(v) => IsCopy(x)
        BY ONLY <1>7, CopiesOfBlock DEF v
      <3> QED BY ONLY <2>3, <3>2, <3>3 DEF Result, r
    <2> QED BY ONLY <2>1, <2>2, <2>3
  <1>8. CASE original.kind = "Transaction" /\ carrier.class = "NEW_TRANSACTION" /\ carrier.object = [transaction |-> d]
    <2>1. d = v BY ONLY <1>1, <1>8, NormalIsSame DEF IsCopy, v
    <2>2. IsTransaction(v) BY <1>8, KindsOfOriginals DEF FormatsInv, OriginalIs, v
    <2>3. HandleIncomingMsg(EncodeMsg("NEW_TRANSACTION", [transaction |-> v], id)) = Decoded(v, 0)
      BY ONLY <1>3, <1>8, <2>2, TransactionMessageIsRead
    <2>4. r = Decoded(v, 0) BY ONLY <1>4, <1>8, <2>1, <2>3
    <2> QED BY ONLY <1>5, <1>6, <2>4 DEF Result, r
  <1>9. CASE original.kind \in PlainMessages /\ carrier.class = original.kind /\ carrier.object = d
    <2>1. d = v
      <3>1. original.kind # "Endpoint" /\ original.kind # "Block"
        BY ONLY <1>9, MessageClasses DEF PlainMessages
      <3> QED BY ONLY <1>1, <3>1, NormalIsSame DEF IsCopy, v
    <2>2. IsMessage(original.kind, v)
      BY <1>9, KindsOfOriginals DEF FormatsInv, OriginalIs, v
    <2> DEFINE class == original.kind
    <2>3. class \in PlainMessages /\ IsMessage(class, v) /\ Addressed(class, id)
      BY ONLY <1>3, <1>9, <2>2
    <2> HIDE DEF class
    <2>4. HandleIncomingMsg(EncodeMsg(class, v, id)) = IF class \in Dumb THEN Failed ELSE Decoded(v, 0)
      BY ONLY <2>3, PlainMessageIsRead
    <2>5. r = IF class \in Dumb THEN Failed ELSE Decoded(v, 0)
      BY ONLY <1>4, <1>9, <2>1, <2>4 DEF class
    <2>6. ~Unreadable => class \notin Dumb BY ONLY <2>3 DEF Unreadable, Dumb, class
    <2> QED BY ONLY <1>5, <1>6, <2>5, <2>6 DEF Result, r
  <1> QED BY ONLY <1>2, <1>7, <1>8, <1>9, carrier.medium = "wire" DEF IsCarrier

-------------------------------------------------------------------------------
LEMMA NormalEndpoint ==
    ASSUME original.kind = "Endpoint", NEW v \in Endpoints
    PROVE  /\ Normal(v) = [host |-> Host(v.host), port |-> v.port]
           /\ Normal(v) \in Endpoints /\ Normal(Normal(v)) = Normal(v)
  <1>1. \A x \in Endpoints : Normal(x) = [host |-> Host(x.host), port |-> x.port]
    BY DEF Normal, Host, Endpoints
  <1>2. \A x \in Endpoints : x.host \in Hosts /\ x.port \in Int BY DEF Endpoints
  <1> DEFINE h == v.host
             p == v.port
  <1>3. h \in Hosts /\ p \in Int BY ONLY <1>2
  <1> HIDE DEF h, p
  <1>4. Host(h) \in Hosts /\ Host(Host(h)) = Host(h) BY ONLY <1>3, HostIs
  <1> DEFINE w == [host |-> Host(h), port |-> p]
  <1>5. w.host = Host(h) /\ w.port = p /\ w \in Endpoints
    BY ONLY <1>3, <1>4 DEF Endpoints
  <1>6. Normal(v) = w BY ONLY <1>1 DEF h, p
  <1> HIDE DEF w
  <1>7. Normal(w) = [host |-> Host(w.host), port |-> w.port] BY ONLY <1>1, <1>5
  <1>8. Normal(w) = w BY ONLY <1>4, <1>5, <1>7 DEF w
  <1> QED BY ONLY <1>5, <1>6, <1>8 DEF w, h, p

LEMMA TextResult ==
    ASSUME FormatsInv, stage = "written", carrier.medium = "text"
    PROVE  ReadText(carrier.class, bytes) = Decoded(Normal(original.value), 0)
  <1> DEFINE v == original.value
             text == WriteText(carrier.class, carrier.object)
  <1>1. PICK d : IsCopy(d) /\ carrier \in Carriers([kind |-> original.kind, value |-> d])
    BY WrittenCopy
  <1>2. IsCarrier(carrier, original.kind, d)
    BY ONLY <1>1, FormatsInv, KindOfOriginal, CarrierOfKind
  <1>3. original.kind \in {"Address32", "Endpoint"} /\ carrier.class = original.kind /\ carrier.object = d
    BY ONLY <1>2, carrier.medium = "text" DEF IsCarrier
  <1>4. d = v \/ d = Normal(v) BY ONLY <1>1, <1>3 DEF IsCopy
  <1>5. bytes = text BY DEF FormatsInv, WrittenIsCode
  <1>6. CASE original.kind = "Address32"
    <2>1. v \in AddressTexts
      BY <1>6, KindsOfOriginals DEF FormatsInv, OriginalIs, AddressTexts
    <2>2. Normal(v) = v BY ONLY <1>6, NormalIsSame
    <2> HIDE DEF v, text
    <2>3. text = FromAddressHex(v) BY ONLY <1>3, <1>4, <1>6, <2>2 DEF text, WriteText
    <2>4. ReadText(carrier.class, text) = Decoded(ToAddressHex(text), 0)
      BY ONLY <1>3, <1>6 DEF ReadText
    <2>5. ToAddressHex(FromAddressHex(v)) = v BY ONLY <2>1, AddressIsBack
    <2> QED BY ONLY <1>5, <2>2, <2>3, <2>4, <2>5 DEF v
  <1>7. CASE original.kind = "Endpoint"
    <2>1. v \in Endpoints
      BY <1>7, KindsOfOriginals DEF FormatsInv, OriginalIs, Endpoints, Hosts
    <2> HIDE DEF v, text
    <2>2. d \in Endpoints /\ Normal(d) = Normal(v) /\ Normal(d) = [host |-> Host(d.host), port |-> d.port]
      BY ONLY <1>4, <1>7, <2>1, NormalEndpoint
    <2>3. d.host \in Hosts BY ONLY <2>2 DEF Endpoints
    <2>4. text = FormatAddress(d.host, d.port) BY ONLY <1>3, <1>7 DEF text, WriteText
    <2>5. ReadText(carrier.class, text) = Decoded(SplitHostAndPort(text), 0)
      BY ONLY <1>3, <1>7 DEF ReadText
    <2>6. SplitHostAndPort(FormatAddress(d.host, d.port)) = [host |-> Host(d.host), port |-> d.port]
      BY ONLY <2>3, EndpointIsBack
    <2> QED BY ONLY <1>5, <2>2, <2>4, <2>5, <2>6 DEF v
  <1> QED BY ONLY <1>3, <1>6, <1>7

-------------------------------------------------------------------------------
(***************************************************************************)
(* The invariant is kept: one lemma for what writes and one for what reads.*)
(***************************************************************************)

LEMMA OfOriginal ==
    ASSUME UNCHANGED original
    PROVE  /\ \A d : IsCopy(d)' <=> IsCopy(d)
           /\ Fits' <=> Fits
           /\ Unreadable' <=> Unreadable
           /\ \A v : Normal(v)' = Normal(v)
  <1>1. Fits' <=> Fits BY DEF Fits, Transactions
  <1>2. Unreadable' <=> Unreadable BY DEF Unreadable
  <1>3. \A v : Normal(v)' = Normal(v) BY DEF Normal
  <1>4. \A d : IsCopy(d)' <=> IsCopy(d) BY <1>1, <1>3 DEF IsCopy
  <1> QED BY <1>1, <1>2, <1>3, <1>4

LEMMA WritingKeeps ==
    ASSUME FormatsInv, stage = "held", held.ok, NEW c \in Writable, carrier' = c, IsWritten(c, bytes'),
           stage' = "written", UNCHANGED <<original, held, whole>>
    PROVE  FormatsInv'
  <1>1. OriginalIs' BY DEF FormatsInv, OriginalIs
  <1>2. TornIsBlock' BY DEF FormatsInv, TornIsBlock
  <1>3. HeldIsCopy'
    <2>1. HeldIsCopy BY DEF FormatsInv
    <2> QED BY ONLY <2>1, OfOriginal, UNCHANGED <<original, held, whole>> DEF HeldIsCopy
  <1>4. ReadInFull'
    <2>1. ReadInFull BY DEF FormatsInv
    <2> QED BY ONLY <2>1, OfOriginal, UNCHANGED <<original, held, whole>> DEF ReadInFull
  <1>5. TextIsNormal' BY DEF TextIsNormal
  <1>6. WrittenIsCode'
    <2>1. held' # Failed BY Outcomes
    <2>2. carrier' \in Carriers([kind |-> original'.kind, value |-> held'.data])
      BY DEF Writable
    <2>3. /\ carrier'.medium = "file" => bytes' = Code(carrier')
          /\ carrier'.medium = "db" => bytes' = Code(carrier')
          /\ carrier'.medium = "wire" =>
                \E id : Addressed(carrier'.class, id) /\ bytes' = EncodeMsg(carrier'.class, carrier'.object, id)
          /\ carrier'.medium = "text" => bytes' = WriteText(carrier'.class, carrier'.object)
      BY ONLY carrier' = c, IsWritten(c, bytes') DEF IsWritten
    <2> QED BY ONLY <2>1, <2>2, <2>3 DEF WrittenIsCode
  <1> QED BY ONLY <1>1, <1>2, <1>3, <1>4, <1>5, <1>6 DEF FormatsInv

LEMMA ReadingKeeps ==
    ASSUME FormatsInv, stage' = "held", UNCHANGED <<original, carrier, bytes, whole>>, Result(held'),
           carrier.medium = "text" => held' = Decoded(Normal(original.value), 0)
    PROVE  FormatsInv'
  <1>1. OriginalIs' BY DEF FormatsInv, OriginalIs
  <1>2. TornIsBlock' BY DEF FormatsInv, TornIsBlock
  <1>3. HeldIsCopy'
    <2>1. held' = Failed \/ \E data : held' = Decoded(data, 0) /\ IsCopy(data)
      BY DEF Result
    <2> QED BY ONLY <2>1, OfOriginal, UNCHANGED <<original, carrier, bytes, whole>> DEF HeldIsCopy
  <1>4. ReadInFull'
    <2>1. whole /\ Fits /\ ~Unreadable => held' # Failed BY DEF Result
    <2> QED BY ONLY <2>1, OfOriginal, UNCHANGED <<original, carrier, bytes, whole>> DEF ReadInFull
  <1>5. TextIsNormal'
    BY ONLY OfOriginal, UNCHANGED <<original, carrier, bytes, whole>>,
            carrier.medium = "text" => held' = Decoded(Normal(original.value), 0) DEF TextIsNormal
  <1>6. WrittenIsCode' BY DEF WrittenIsCode
  <1> QED BY ONLY <1>1, <1>2, <1>3, <1>4, <1>5, <1>6 DEF FormatsInv

\* A file that is torn is one of a block.
LEMMA TearKeeps ==
    ASSUME FormatsInv, Tear
    PROVE  FormatsInv'
  <1>1. stage = "written" /\ whole /\ carrier.medium = "file" /\ ~whole'
        /\ UNCHANGED <<original, held, carrier, stage>>
    BY DEF Tear
  <1>2. original.kind = "Block"
    <2>1. PICK d : IsCopy(d) /\ carrier \in Carriers([kind |-> original.kind, value |-> d])
      BY <1>1, WrittenCopy
    <2>2. IsCarrier(carrier, original.kind, d)
      BY ONLY <2>1, FormatsInv, KindOfOriginal, CarrierOfKind
    <2> QED BY ONLY <1>1, <2>2 DEF IsCarrier
  <1>3. StrictPrefix(bytes', Code(carrier))
    <2>1. bytes = Code(carrier) BY <1>1 DEF FormatsInv, WrittenIsCode
    <2>2. \E n \in 0..(Len(bytes) - 1) : bytes' = SubSeq(bytes, 1, n) BY DEF Tear
    <2> QED BY ONLY <2>1, <2>2 DEF StrictPrefix
  <1>4. OriginalIs' /\ TornIsBlock'
    BY <1>1, <1>2 DEF FormatsInv, OriginalIs, TornIsBlock
  <1>5. HeldIsCopy'
    <2>1. HeldIsCopy BY DEF FormatsInv
    <2> QED BY ONLY <1>1, <2>1, OfOriginal DEF HeldIsCopy
  <1>6. ReadInFull' /\ TextIsNormal' BY ONLY <1>1 DEF ReadInFull, TextIsNormal
  <1>7. WrittenIsCode'
    <2>1. held # Failed /\ carrier \in Carriers([kind |-> original.kind, value |-> held.data])
      BY <1>1 DEF FormatsInv, WrittenIsCode
    <2>2. carrier'.medium = "file" /\ ~whole' /\ StrictPrefix(bytes', Code(carrier'))
      BY ONLY <1>1, <1>3
    <2>3. held' # Failed /\ carrier' \in Carriers([kind |-> original'.kind, value |-> held'.data])
      BY ONLY <1>1, <2>1
    <2> QED BY ONLY <2>2, <2>3 DEF WrittenIsCode
  <1> QED BY ONLY <1>4, <1>5, <1>6, <1>7 DEF FormatsInv

LEMMA ReadableIsCopy ==
    ASSUME NEW d, IsCopy(d)
    PROVE  Result(Decoded(d, 0))
  <1>1. Decoded(d, 0) # Failed BY Outcomes
  <1> QED BY ONLY <1>1, IsCopy(d) DEF Result

\* The ids messages are sent with.
LEMMA SentIsAddressed ==
    ASSUME NEW class, NEW id \in IF HandlerType(class) = "RESPONSE" THEN Own ELSE {RequestID}
    PROVE  Addressed(class, id)
  <1>1. RequestID \in (Reserved + 1)..(Base - 1) /\ RequestID \notin Own /\ Own \subseteq 0..(Base - 1)
        /\ Reserved \in Nat
    BY FormatsAssumption
  <1>2. Base \in Nat BY BaseFacts
  <1>3. CASE HandlerType(class) = "RESPONSE"
    <2>1. id \in Own
      BY ONLY <1>3, id \in IF HandlerType(class) = "RESPONSE" THEN Own ELSE {RequestID}
    <2> QED BY ONLY <1>1, <1>3, <2>1 DEF Addressed
  <1>4. CASE HandlerType(class) # "RESPONSE"
    <2>1. id = RequestID
      BY ONLY <1>4, id \in IF HandlerType(class) = "RESPONSE" THEN Own ELSE {RequestID}
    <2> QED BY ONLY <1>1, <1>2, <1>4, <2>1 DEF Addressed
  <1> QED BY ONLY <1>3, <1>4

LEMMA FormatsInvKept == FormatsInv /\ [Next]_vars => FormatsInv'
  <1> SUFFICES ASSUME FormatsInv, [Next]_vars PROVE FormatsInv' OBVIOUS
  <1>1. CASE Write
    <2>1. PICK c \in Writable : c.medium = "file" /\ carrier' = c /\ bytes' = EncodeObject(c.class, c.object, FALSE)
      BY <1>1 DEF Write
    <2>2. IsWritten(c, bytes') BY ONLY <2>1 DEF IsWritten, Code
    <2>3. stage = "held" /\ held.ok /\ stage' = "written" /\ UNCHANGED <<original, held, whole>>
      BY ONLY <1>1 DEF Write
    <2> QED BY ONLY <2>1, <2>2, <2>3, FormatsInv, WritingKeeps
  <1>2. CASE Put
    <2>1. PICK c \in Writable : c.medium = "db" /\ carrier' = c /\ bytes' = EncodeObject(c.class, c.object, FALSE)
      BY <1>2 DEF Put
    <2>2. IsWritten(c, bytes') BY ONLY <2>1 DEF IsWritten, Code
    <2>3. stage = "held" /\ held.ok /\ stage' = "written" /\ UNCHANGED <<original, held, whole>>
      BY ONLY <1>2 DEF Put
    <2> QED BY ONLY <2>1, <2>2, <2>3, FormatsInv, WritingKeeps
  <1>3. CASE Send
    <2>1. PICK c \in Writable : /\ c.medium = "wire" /\ carrier' = c
                                /\ \E id \in IF HandlerType(c.class) = "RESPONSE" THEN Own ELSE {RequestID} :
                                      bytes' = EncodeMsg(c.class, c.object, id)
      BY <1>3 DEF Send
    <2>2. IsWritten(c, bytes') BY ONLY <2>1, SentIsAddressed DEF IsWritten
    <2>3. stage = "held" /\ held.ok /\ stage' = "written" /\ UNCHANGED <<original, held, whole>>
      BY ONLY <1>3 DEF Send
    <2> QED BY ONLY <2>1, <2>2, <2>3, FormatsInv, WritingKeeps
  <1>4. CASE Show
    <2>1. PICK c \in Writable : c.medium = "text" /\ carrier' = c /\ bytes' = WriteText(c.class, c.object)
      BY <1>4 DEF Show
    <2>2. IsWritten(c, bytes') BY ONLY <2>1 DEF IsWritten
    <2>3. stage = "held" /\ held.ok /\ stage' = "written" /\ UNCHANGED <<original, held, whole>>
      BY ONLY <1>4 DEF Show
    <2> QED BY ONLY <2>1, <2>2, <2>3, FormatsInv, WritingKeeps
  <1>5. CASE Tear
    BY <1>5, TearKeeps
  <1>6. CASE Read
    <2>1. /\ stage = "written" /\ carrier.medium = "file" /\ held' = ReadFile(carrier.class, bytes)
          /\ stage' = "held" /\ UNCHANGED <<original, carrier, bytes, whole>>
      BY ONLY <1>6 DEF Read
    <2>2. Result(held') BY ONLY <2>1, FormatsInv, FileResult
    <2>3. carrier.medium # "text" BY ONLY <2>1
    <2> QED BY ONLY <2>1, <2>2, <2>3, FormatsInv, ReadingKeeps
  <1>7. CASE Get
    <2>1. /\ stage = "written" /\ carrier.medium = "db"
          /\ held' = IF carrier.class = "Wallet" THEN WalletFromDecodedHex(bytes) ELSE MinterFromDecodedHex(bytes)
          /\ stage' = "held" /\ UNCHANGED <<original, carrier, bytes, whole>>
      BY ONLY <1>7 DEF Get
    <2>2. Result(held') BY ONLY <2>1, FormatsInv, EntryResult
    <2>3. carrier.medium # "text" BY ONLY <2>1
    <2> QED BY ONLY <2>1, <2>2, <2>3, FormatsInv, ReadingKeeps
  <1>8. CASE Receive
    <2>1. /\ stage = "written" /\ carrier.medium = "wire" /\ held' = HandleIncomingMsg(bytes)
          /\ stage' = "held" /\ UNCHANGED <<original, carrier, bytes, whole>>
      BY ONLY <1>8 DEF Receive
    <2>2. Result(held') BY ONLY <2>1, FormatsInv, MessageResult
    <2>3. carrier.medium # "text" BY ONLY <2>1
    <2> QED BY ONLY <2>1, <2>2, <2>3, FormatsInv, ReadingKeeps
  <1>9. CASE Parse
    <2>1. /\ stage = "written" /\ carrier.medium = "text" /\ held' = ReadText(carrier.class, bytes)
          /\ stage' = "held" /\ UNCHANGED <<original, carrier, bytes, whole>>
      BY ONLY <1>9 DEF Parse
    <2>2. held' = Decoded(Normal(original.value), 0)
      BY ONLY <2>1, FormatsInv, TextResult
    <2>3. Result(held')
      <3>1. IsCopy(Normal(original.value)) BY DEF IsCopy
      <3> QED BY ONLY <2>2, <3>1, ReadableIsCopy
    <2> QED BY ONLY <2>1, <2>2, <2>3, FormatsInv, ReadingKeeps
  <1>10. CASE UNCHANGED vars
    <2>1. UNCHANGED <<original, held, carrier, bytes, whole, stage>>
      BY ONLY <1>10 DEF vars
    <2>2. OriginalIs' /\ TornIsBlock' BY <2>1 DEF FormatsInv, OriginalIs, TornIsBlock
    <2>3. HeldIsCopy' /\ ReadInFull' /\ TextIsNormal'
      <3>1. HeldIsCopy /\ ReadInFull /\ TextIsNormal BY DEF FormatsInv
      <3> QED BY ONLY <2>1, <3>1, OfOriginal DEF HeldIsCopy, ReadInFull, TextIsNormal
    <2>4. WrittenIsCode'
      <3>1. WrittenIsCode BY DEF FormatsInv
      <3> QED BY ONLY <2>1, <3>1 DEF WrittenIsCode
    <2> QED BY ONLY <2>2, <2>3, <2>4 DEF FormatsInv
  <1> QED BY <1>1, <1>2, <1>3, <1>4, <1>5, <1>6, <1>7, <1>8, <1>9, <1>10 DEF Next

LEMMA FormatsInvAtFirst == Init => FormatsInv
  <1> SUFFICES ASSUME Init PROVE FormatsInv OBVIOUS
  <1>1. /\ original \in Originals /\ held = Decoded(original.value, 0) /\ whole = TRUE /\ stage = "held"
        /\ carrier.medium = "none"
    BY CarrierParts DEF Init
  <1>2. IsCopy(original.value) BY DEF IsCopy
  <1>3. held # Failed BY ONLY <1>1, Outcomes
  <1> QED BY ONLY <1>1, <1>2, <1>3 DEF FormatsInv, OriginalIs, TornIsBlock, HeldIsCopy, ReadInFull, TextIsNormal, WrittenIsCode

\* Whatever is held, on any way over files, databases, messages and texts, is the
\* original in the spelling it is read in, or a block of another minter; and what is
\* written is the code of what is held, or of a block the beginning of it.
THEOREM FormatsInvariant == Spec => []FormatsInv
  BY FormatsInvAtFirst, FormatsInvKept, PTL DEF Spec

-------------------------------------------------------------------------------
LEMMA NormalTwice ==
    ASSUME FormatsInv
    PROVE  Normal(Normal(original.value)) = Normal(original.value)
  <1>1. CASE original.kind = "Endpoint"
    <2>1. original.value \in Endpoints
      BY <1>1, KindsOfOriginals DEF FormatsInv, OriginalIs, Endpoints, Hosts
    <2> QED BY ONLY <1>1, <2>1, NormalEndpoint
  <1>2. CASE original.kind # "Endpoint"
    BY ONLY <1>2, NormalIsSame
  <1> QED BY ONLY <1>1, <1>2

\* What is held, if it was read.
LEMMA HeldData ==
    ASSUME FormatsInv, held # Failed
    PROVE  /\ held.ok
           /\ Normal(held.data) = Normal(original.value) \/ (~Fits /\ held.data \in Foreign(original.value))
  <1>1. PICK d : held = Decoded(d, 0) /\ IsCopy(d) BY DEF FormatsInv, HeldIsCopy
  <1>2. held.ok /\ held.data = d BY ONLY <1>1, Outcomes
  <1>3. Normal(d) = Normal(original.value) \/ (~Fits /\ d \in Foreign(original.value))
    BY ONLY <1>1, FormatsInv, NormalTwice DEF IsCopy
  <1> QED BY ONLY <1>2, <1>3

\* What was written whole is read, and is what was written: a block with no more
\* transactions than the count can hold, a transaction, a wallet or a minter of version
\* 0, every message that a node understands, an address and a host, over any number of
\* files, databases, messages and texts.
THEOREM WholeIsReadAll == Spec => []WholeIsRead
  <1>1. ASSUME FormatsInv PROVE WholeIsRead
    <2> SUFFICES ASSUME stage = "held", whole, Fits, ~Unreadable
                 PROVE  held.ok /\ Normal(held.data) = Normal(original.value)
      BY DEF WholeIsRead
    <2>1. held # Failed BY <1>1 DEF FormatsInv, ReadInFull
    <2> QED BY ONLY <1>1, <2>1, Fits, HeldData
  <1> QED BY <1>1, FormatsInvariant, PTL

\* The beginning of a file is never read as a block, and a block whose transactions do
\* not fit the count is read by nobody as a block of its minter: its code fails to be
\* read or names another minter.
THEOREM NeverMisreadAll == Spec => []NeverMisread
  <1>1. ASSUME FormatsInv PROVE NeverMisread
    <2> SUFFICES ASSUME stage = "held", held.ok
                 PROVE  Normal(held.data) = Normal(original.value) \/ (~Fits /\ held.data.minter # original.value.minter)
      BY DEF NeverMisread
    <2>1. held # Failed BY Outcomes
    <2>2. Normal(held.data) = Normal(original.value) \/ (~Fits /\ held.data \in Foreign(original.value))
      BY ONLY <1>1, <2>1, HeldData
    <2>3. held.data \in Foreign(original.value) => held.data.minter # original.value.minter
      BY DEF Foreign
    <2> QED BY ONLY <2>2, <2>3
  <1> QED BY <1>1, FormatsInvariant, PTL

\* A host that was spelled with "::" is read as its groups with the zeros that were left
\* out, whatever its groups are and wherever the "::" stands, and its port is the one
\* that was written.
THEOREM OneHostAll == Spec => []OneHost
  <1>1. ASSUME FormatsInv PROVE OneHost
    <2> SUFFICES ASSUME original.kind = "Endpoint", stage = "held", carrier.medium = "text"
                 PROVE  /\ held.data.port = original.value.port
                        /\ \A h \in Halves(original.value.host) : held.data.host = Filled(h[1], h[2])
      BY DEF OneHost, Filled
    <2> DEFINE v == original.value
    <2>1. v \in Endpoints
      BY <1>1, KindsOfOriginals DEF FormatsInv, OriginalIs, Endpoints, Hosts
    <2>2. held = Decoded(Normal(v), 0) BY <1>1 DEF FormatsInv, TextIsNormal
    <2> HIDE DEF v
    <2>3. held.data = [host |-> Host(v.host), port |-> v.port]
      BY ONLY <2>1, <2>2, original.kind = "Endpoint", NormalEndpoint, Outcomes
    <2>4. v.host \in Hosts BY ONLY <2>1 DEF Endpoints
    <2>5. \A h \in Halves(v.host) : Host(v.host) = Filled(h[1], h[2])
      BY ONLY <2>4, HostIs
    <2> QED BY ONLY <2>3, <2>5 DEF v
  <1> QED BY <1>1, FormatsInvariant, PTL
===============================================================================
