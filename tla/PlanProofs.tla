----------------------------- MODULE PlanProofs -----------------------------
(***************************************************************************)
(* Proofs about Plan for every list of configs, every list of releases and *)
(* renderers and every number of hand edits: what discovery reads back is  *)
(* what was rendered, planning again the config that was applied finds     *)
(* nothing to do, nothing is missed, no config is refused or changed by    *)
(* the order of its lists, and an update without an explanation has a      *)
(* cause that the planner is known not to show.                            *)
(*                                                                         *)
(* The parts, in order: recursive functions and sequences; joining,        *)
(* splitting and parsing text; the files of a runner read back; what a     *)
(* config asks for; the invariant of the host; its consequences; what the  *)
(* files of a runner tell of its spec, and the last consequence.           *)
(***************************************************************************)
EXTENDS Plan, SequenceTheorems, FiniteSetTheorems, WellFoundedInduction, TLAPS

-----------------------------------------------------------------------------
(* Sets of naturals *)

\* A set of naturals has a least element.
LEMMA LeastNatural ==
  ASSUME NEW S \in SUBSET Nat, S # {}
  PROVE  \E m \in S : \A k \in S : m <= k
<1>1. \E m \in S : \A k \in S : ~ (<<k, m>> \in OpToRel(<, Nat))
  BY NatLessThanWellFounded, WFMin, Zenon
<1>2. \E m \in S : \A k \in S : ~ (k < m)
  BY <1>1 DEF OpToRel
<1> HIDE <1>1
<1>3. QED
  BY <1>2

\* A set of naturals below a bound has a greatest element.
LEMMA GreatestNatural ==
  ASSUME NEW N \in Nat, NEW S \in SUBSET (1..N), S # {}
  PROVE  \E m \in S : \A k \in S : k <= m
<1> DEFINE T == {N - k : k \in S}
<1>1. T \in SUBSET Nat /\ T # {}
  <2>1. \A k \in S : N - k \in Nat
    OBVIOUS
  <2>2. PICK k \in S : TRUE
    OBVIOUS
  <2>3. N - k \in T
    OBVIOUS
  <2>4. QED
    BY <2>1, <2>3
<1>2. PICK t \in T : \A k \in T : t <= k
  BY <1>1, LeastNatural
<1>3. PICK m \in S : t = N - m
  OBVIOUS
<1>4. \A k \in S : k <= m
  <2> TAKE k \in S
  <2>1. N - k \in T
    OBVIOUS
  <2>2. t <= N - k
    BY <2>1, <1>2
  <2>3. m \in Int /\ k \in Int
    OBVIOUS
  <2> HIDE DEF T
  <2>4. QED
    BY <2>2, <2>3, <1>3
<1>5. QED
  BY <1>4

-----------------------------------------------------------------------------
(* Recursive functions as the sequences of their values *)

\* What has been parsed after each line of a file
LEMMA ParseRuns ==
  ASSUME NEW body, Len(body) \in Nat
  PROVE  \E a : /\ ParsedUnit(body) = a[Len(body)].pairs
               /\ a[0] = ParseStart
               /\ \A i \in 1..Len(body) : a[i] = ParseLine(a[i - 1], body[i])
<1> DEFINE Runs(m) == \E g : g = [i \in 0..m |-> IF i = 0 THEN ParseStart ELSE ParseLine(g[i - 1], body[i])]
           Bad == {m \in Nat : ~ Runs(m)}
<1>1. Runs(0)
  <2> DEFINE h == [i \in 0..0 |-> ParseStart]
  <2>1. h = [i \in 0..0 |-> IF i = 0 THEN ParseStart ELSE ParseLine(h[i - 1], body[i])]
    <3>1. \A i \in 0..0 : i = 0
      OBVIOUS
    <3>2. QED
      BY <3>1, Zenon
  <2> HIDE DEF h
  <2>2. QED
    BY <2>1
<1>2. ASSUME NEW m \in Nat, m > 0, Runs(m - 1) PROVE Runs(m)
  <2>1. PICK g : g = [i \in 0..(m - 1) |-> IF i = 0 THEN ParseStart ELSE ParseLine(g[i - 1], body[i])]
    BY <1>2
  <2> DEFINE new == ParseLine(g[m - 1], body[m])
             h == [i \in 0..m |-> IF i < m THEN g[i] ELSE new]
  <2>2. \A i \in 0..(m - 1) : g[i] = IF i = 0 THEN ParseStart ELSE ParseLine(g[i - 1], body[i])
    BY <2>1, Zenon
  <2>3. ASSUME NEW i \in 0..m
        PROVE h[i] = IF i = 0 THEN ParseStart ELSE ParseLine(h[i - 1], body[i])
    <3>1. CASE i = 0
      <4>1. i \in 0..(m - 1) /\ i < m
        BY <1>2, <3>1
      <4>2. h[i] = g[i]
        BY <4>1, Zenon
      <4>3. QED
        BY <2>2, <3>1, <4>1, <4>2, Zenon
    <3>2. CASE i # 0 /\ i < m
      <4>1. i \in 0..(m - 1) /\ i - 1 \in 0..m /\ i - 1 < m
        BY <1>2, <3>2
      <4>2. h[i] = g[i] /\ h[i - 1] = g[i - 1]
        BY <3>2, <4>1, Zenon
      <4>3. QED
        BY <2>2, <3>2, <4>1, <4>2, Zenon
    <3>3. CASE i = m
      <4>1. i # 0 /\ m - 1 \in 0..m /\ m - 1 < m /\ ~(m < m) /\ m \in 0..m
        BY <1>2, <3>3
      <4>2. h[m] = new /\ h[m - 1] = g[m - 1]
        BY <4>1, Zenon
      <4>3. QED
        BY <3>3, <4>1, <4>2, Zenon
    <3>4. i < m \/ i = m
      BY <1>2
    <3>5. QED
      BY <3>1, <3>2, <3>3, <3>4
  <2>4. h = [i \in 0..m |-> IF i = 0 THEN ParseStart ELSE ParseLine(h[i - 1], body[i])]
    BY <2>3, Zenon
  <2> HIDE DEF h
  <2>5. QED
    BY <2>4
<1> HIDE DEF Runs
<1>3. Bad = {}
  <2> SUFFICES ASSUME Bad # {} PROVE FALSE
    OBVIOUS
  <2>1. PICK m \in Bad : \A k \in Bad : m <= k
    <3>1. Bad \in SUBSET Nat
      OBVIOUS
    <3> HIDE DEF Bad
    <3>2. QED
      BY <3>1, LeastNatural
  <2>2. m \in Nat /\ ~ Runs(m)
    OBVIOUS
  <2>3. m # 0
    BY <1>1, <2>2
  <2>4. m \in Nat /\ m > 0 /\ m - 1 \in Nat /\ ~(m <= m - 1)
    BY <2>2, <2>3
  <2>5. Runs(m - 1)
    BY <2>1, <2>4
  <2>6. QED
    BY <1>2, <2>2, <2>4, <2>5
<1>4. Runs(Len(body))
  BY <1>3
<1> DEFINE IsRun(g) == g = [i \in 0..Len(body) |-> IF i = 0 THEN ParseStart ELSE ParseLine(g[i - 1], body[i])]
<1>5. PICK a : a = CHOOSE g : IsRun(g)
  OBVIOUS
<1>6. IsRun(a)
  <2>1. \E g : IsRun(g)
    BY <1>4 DEF Runs
  <2> HIDE DEF IsRun
  <2>2. QED
    BY <1>5, <2>1, Zenon
<1>7. ParsedUnit(body) = a[Len(body)].pairs
  BY <1>5 DEF ParsedUnit
<1>8. \A i \in 0..Len(body) : a[i] = IF i = 0 THEN ParseStart ELSE ParseLine(a[i - 1], body[i])
  BY <1>6, Zenon
<1> HIDE DEF IsRun
<1>9. a[0] = ParseStart
  <2>1. 0 \in 0..Len(body)
    OBVIOUS
  <2>2. QED
    BY <1>8, <2>1, Zenon
<1>10. ASSUME NEW i \in 1..Len(body) PROVE a[i] = ParseLine(a[i - 1], body[i])
  <2>1. i \in 0..Len(body) /\ i # 0
    OBVIOUS
  <2>2. QED
    BY <1>8, <2>1, Zenon
<1>11. QED
  BY <1>7, <1>9, <1>10

\* What has been joined after each text
JoinRun(a, texts, sep) ==
  /\ JoinSeq(texts, sep) = a[Len(texts)]
  /\ a[1] = texts[1]
  /\ \A i \in 2..Len(texts) : a[i] = a[i - 1] \o <<sep>> \o texts[i]

\* Texts can be joined one after the other, however many there are.
LEMMA JoinRuns ==
  ASSUME NEW texts, NEW sep, texts # <<>>, Len(texts) \in Nat \ {0}
  PROVE  \E a : JoinRun(a, texts, sep)
<1> DEFINE Runs(m) == \E g : g = [i \in 1..m |-> IF i = 1 THEN texts[1] ELSE g[i - 1] \o <<sep>> \o texts[i]]
           Bad == {m \in Nat \ {0} : ~ Runs(m)}
<1>1. Runs(1)
  <2> DEFINE h == [i \in 1..1 |-> texts[1]]
  <2>1. h = [i \in 1..1 |-> IF i = 1 THEN texts[1] ELSE h[i - 1] \o <<sep>> \o texts[i]]
    <3>1. \A i \in 1..1 : i = 1
      OBVIOUS
    <3>2. QED
      BY <3>1, Zenon
  <2> HIDE DEF h
  <2>2. QED
    BY <2>1
<1>2. ASSUME NEW m \in Nat, m > 1, Runs(m - 1) PROVE Runs(m)
  <2>1. PICK g : g = [i \in 1..(m - 1) |-> IF i = 1 THEN texts[1] ELSE g[i - 1] \o <<sep>> \o texts[i]]
    BY <1>2
  <2> DEFINE new == g[m - 1] \o <<sep>> \o texts[m]
             h == [i \in 1..m |-> IF i < m THEN g[i] ELSE new]
  <2>2. \A i \in 1..(m - 1) : g[i] = IF i = 1 THEN texts[1] ELSE g[i - 1] \o <<sep>> \o texts[i]
    BY <2>1, Zenon
  <2>3. ASSUME NEW i \in 1..m
        PROVE h[i] = IF i = 1 THEN texts[1] ELSE h[i - 1] \o <<sep>> \o texts[i]
    <3>1. CASE i = 1
      <4>1. i \in 1..(m - 1) /\ i < m
        BY <1>2, <3>1
      <4>2. h[i] = g[i]
        BY <4>1, Zenon
      <4>3. QED
        BY <2>2, <3>1, <4>1, <4>2, Zenon
    <3>2. CASE i # 1 /\ i < m
      <4>1. i \in 1..(m - 1) /\ i - 1 \in 1..m /\ i - 1 < m
        BY <1>2, <3>2
      <4>2. h[i] = g[i] /\ h[i - 1] = g[i - 1]
        BY <3>2, <4>1, Zenon
      <4>3. QED
        BY <2>2, <3>2, <4>1, <4>2, Zenon
    <3>3. CASE i = m
      <4>1. i # 1 /\ m - 1 \in 1..m /\ m - 1 < m /\ ~(m < m) /\ m \in 1..m
        BY <1>2, <3>3
      <4>2. h[m] = new /\ h[m - 1] = g[m - 1]
        BY <4>1, Zenon
      <4>3. QED
        BY <3>3, <4>1, <4>2, Zenon
    <3>4. i < m \/ i = m
      BY <1>2
    <3>5. QED
      BY <3>1, <3>2, <3>3, <3>4
  <2>4. h = [i \in 1..m |-> IF i = 1 THEN texts[1] ELSE h[i - 1] \o <<sep>> \o texts[i]]
    BY <2>3, Zenon
  <2> HIDE DEF h
  <2>5. QED
    BY <2>4
<1> HIDE DEF Runs
<1>3. Bad = {}
  <2> SUFFICES ASSUME Bad # {} PROVE FALSE
    OBVIOUS
  <2>1. PICK m \in Bad : \A k \in Bad : m <= k
    <3>1. Bad \in SUBSET Nat
      OBVIOUS
    <3> HIDE DEF Bad
    <3>2. QED
      BY <3>1, LeastNatural
  <2>2. m \in Nat \ {0} /\ ~ Runs(m)
    OBVIOUS
  <2>3. m # 1
    BY <1>1, <2>2
  <2>4. m \in Nat /\ m > 1 /\ m - 1 \in Nat \ {0} /\ ~(m <= m - 1)
    BY <2>2, <2>3
  <2>5. Runs(m - 1)
    BY <2>1, <2>4
  <2>6. QED
    BY <1>2, <2>2, <2>4, <2>5
<1>4. Runs(Len(texts))
  BY <1>3
<1> DEFINE IsRun(g) == g = [i \in 1..Len(texts) |-> IF i = 1 THEN texts[1] ELSE g[i - 1] \o <<sep>> \o texts[i]]
<1>5. PICK a : a = CHOOSE g : IsRun(g)
  OBVIOUS
<1>6. IsRun(a)
  <2>1. \E g : IsRun(g)
    BY <1>4 DEF Runs
  <2> HIDE DEF IsRun
  <2>2. QED
    BY <1>5, <2>1, Zenon
<1>7. JoinSeq(texts, sep) = a[Len(texts)]
  BY <1>5 DEF JoinSeq
<1>8. \A i \in 1..Len(texts) : a[i] = IF i = 1 THEN texts[1] ELSE a[i - 1] \o <<sep>> \o texts[i]
  BY <1>6, Zenon
<1> HIDE DEF IsRun
<1>9. a[1] = texts[1]
  <2>1. 1 \in 1..Len(texts)
    OBVIOUS
  <2>2. QED
    BY <1>8, <2>1, Zenon
<1>10. ASSUME NEW i \in 2..Len(texts) PROVE a[i] = a[i - 1] \o <<sep>> \o texts[i]
  <2>1. i \in 1..Len(texts) /\ i # 1
    OBVIOUS
  <2>2. QED
    BY <1>8, <2>1, Zenon
<1>11. QED
  BY <1>7, <1>9, <1>10 DEF JoinRun

\* What has been chained after each sequence
LEMMA FlattenRuns ==
  ASSUME NEW seqs, Len(seqs) \in Nat \ {0}
  PROVE  \E a : /\ FlattenSeq(seqs) = a[Len(seqs)]
               /\ a[1] = seqs[1]
               /\ \A i \in 2..Len(seqs) : a[i] = a[i - 1] \o seqs[i]
<1> DEFINE Runs(m) == \E g : g = [i \in 1..m |-> IF i = 1 THEN seqs[i] ELSE g[i - 1] \o seqs[i]]
           Bad == {m \in Nat \ {0} : ~ Runs(m)}
<1>1. Runs(1)
  <2> DEFINE h == [i \in 1..1 |-> seqs[1]]
  <2>1. h = [i \in 1..1 |-> IF i = 1 THEN seqs[i] ELSE h[i - 1] \o seqs[i]]
    <3>1. \A i \in 1..1 : i = 1
      OBVIOUS
    <3>2. QED
      BY <3>1, Zenon
  <2> HIDE DEF h
  <2>2. QED
    BY <2>1
<1>2. ASSUME NEW m \in Nat, m > 1, Runs(m - 1) PROVE Runs(m)
  <2>1. PICK g : g = [i \in 1..(m - 1) |-> IF i = 1 THEN seqs[i] ELSE g[i - 1] \o seqs[i]]
    BY <1>2
  <2> DEFINE new == g[m - 1] \o seqs[m]
             h == [i \in 1..m |-> IF i < m THEN g[i] ELSE new]
  <2>2. \A i \in 1..(m - 1) : g[i] = IF i = 1 THEN seqs[i] ELSE g[i - 1] \o seqs[i]
    BY <2>1, Zenon
  <2>3. ASSUME NEW i \in 1..m PROVE h[i] = IF i = 1 THEN seqs[i] ELSE h[i - 1] \o seqs[i]
    <3>1. CASE i = 1
      <4>1. i \in 1..(m - 1) /\ i < m
        BY <1>2, <3>1
      <4>2. h[i] = g[i]
        BY <4>1, Zenon
      <4>3. QED
        BY <2>2, <3>1, <4>1, <4>2, Zenon
    <3>2. CASE i # 1 /\ i < m
      <4>1. i \in 1..(m - 1) /\ i - 1 \in 1..m /\ i - 1 < m
        BY <1>2, <3>2
      <4>2. h[i] = g[i] /\ h[i - 1] = g[i - 1]
        BY <3>2, <4>1, Zenon
      <4>3. QED
        BY <2>2, <3>2, <4>1, <4>2, Zenon
    <3>3. CASE i = m
      <4>1. i # 1 /\ m - 1 \in 1..m /\ m - 1 < m /\ ~(m < m) /\ m \in 1..m
        BY <1>2, <3>3
      <4>2. h[m] = new /\ h[m - 1] = g[m - 1]
        BY <4>1, Zenon
      <4>3. QED
        BY <3>3, <4>1, <4>2, Zenon
    <3>4. i < m \/ i = m
      BY <1>2
    <3>5. QED
      BY <3>1, <3>2, <3>3, <3>4
  <2>4. h = [i \in 1..m |-> IF i = 1 THEN seqs[i] ELSE h[i - 1] \o seqs[i]]
    BY <2>3, Zenon
  <2> HIDE DEF h
  <2>5. QED
    BY <2>4
<1> HIDE DEF Runs
<1>3. Bad = {}
  <2> SUFFICES ASSUME Bad # {} PROVE FALSE
    OBVIOUS
  <2>1. PICK m \in Bad : \A k \in Bad : m <= k
    <3>1. Bad \in SUBSET Nat
      OBVIOUS
    <3> HIDE DEF Bad
    <3>2. QED
      BY <3>1, LeastNatural
  <2>2. m \in Nat \ {0} /\ ~ Runs(m)
    OBVIOUS
  <2>3. m # 1
    BY <1>1, <2>2
  <2>4. m \in Nat /\ m > 1 /\ m - 1 \in Nat \ {0} /\ ~(m <= m - 1)
    BY <2>2, <2>3
  <2>5. Runs(m - 1)
    BY <2>1, <2>4
  <2>6. QED
    BY <1>2, <2>2, <2>4, <2>5
<1>4. Runs(Len(seqs))
  BY <1>3
<1> DEFINE IsRun(g) == g = [i \in 1..Len(seqs) |-> IF i = 1 THEN seqs[i] ELSE g[i - 1] \o seqs[i]]
<1>5. PICK a : a = CHOOSE g : IsRun(g)
  OBVIOUS
<1>6. IsRun(a)
  <2>1. \E g : IsRun(g)
    BY <1>4 DEF Runs
  <2> HIDE DEF IsRun
  <2>2. QED
    BY <1>5, <2>1, Zenon
<1>7. FlattenSeq(seqs) = a[Len(seqs)]
  BY <1>5 DEF FlattenSeq
<1>8. \A i \in 1..Len(seqs) : a[i] = IF i = 1 THEN seqs[i] ELSE a[i - 1] \o seqs[i]
  BY <1>6, Zenon
<1> HIDE DEF IsRun
<1>9. a[1] = seqs[1]
  <2>1. 1 \in 1..Len(seqs)
    OBVIOUS
  <2>2. QED
    BY <1>8, <2>1, Zenon
<1>10. ASSUME NEW i \in 2..Len(seqs) PROVE a[i] = a[i - 1] \o seqs[i]
  <2>1. i \in 1..Len(seqs) /\ i # 1
    OBVIOUS
  <2>2. QED
    BY <1>8, <2>1, Zenon
<1>11. QED
  BY <1>7, <1>9, <1>10

\* What is kept after each entry
LEMMA DedupedRuns ==
  ASSUME NEW all, Len(all) \in Nat
  PROVE  \E a : /\ Deduped(all) = a[Len(all)]
               /\ a[0] = <<>>
               /\ \A i \in 1..Len(all) : a[i] = (IF all[i] \in ToSet(a[i - 1]) THEN a[i - 1] ELSE Append(a[i - 1], all[i]))
<1> DEFINE Runs(m) == \E g : g = [i \in 0..m |-> IF i = 0 THEN <<>>
              ELSE (IF all[i] \in ToSet(g[i - 1]) THEN g[i - 1] ELSE Append(g[i - 1], all[i]))]
           Bad == {m \in Nat : ~ Runs(m)}
<1>1. Runs(0)
  <2> DEFINE h == [i \in 0..0 |-> <<>>]
  <2>1. h = [i \in 0..0 |-> IF i = 0 THEN <<>>
                ELSE (IF all[i] \in ToSet(h[i - 1]) THEN h[i - 1] ELSE Append(h[i - 1], all[i]))]
    <3>1. \A i \in 0..0 : i = 0
      OBVIOUS
    <3>2. QED
      BY <3>1, Zenon
  <2> HIDE DEF h
  <2>2. QED
    BY <2>1
<1>2. ASSUME NEW m \in Nat, m > 0, Runs(m - 1) PROVE Runs(m)
  <2>1. PICK g : g = [i \in 0..(m - 1) |-> IF i = 0 THEN <<>>
                ELSE (IF all[i] \in ToSet(g[i - 1]) THEN g[i - 1] ELSE Append(g[i - 1], all[i]))]
    BY <1>2
  <2> DEFINE new == (IF all[m] \in ToSet(g[m - 1]) THEN g[m - 1] ELSE Append(g[m - 1], all[m]))
             h == [i \in 0..m |-> IF i < m THEN g[i] ELSE new]
  <2>2. \A i \in 0..(m - 1) : g[i] = IF i = 0 THEN <<>>
                ELSE (IF all[i] \in ToSet(g[i - 1]) THEN g[i - 1] ELSE Append(g[i - 1], all[i]))
    BY <2>1, Zenon
  <2>3. ASSUME NEW i \in 0..m PROVE h[i] = IF i = 0 THEN <<>>
                ELSE (IF all[i] \in ToSet(h[i - 1]) THEN h[i - 1] ELSE Append(h[i - 1], all[i]))
    <3>1. CASE i = 0
      <4>1. i \in 0..(m - 1) /\ i < m
        BY <1>2, <3>1
      <4>2. h[i] = g[i]
        BY <4>1, Zenon
      <4>3. QED
        BY <2>2, <3>1, <4>1, <4>2, Zenon
    <3>2. CASE i # 0 /\ i < m
      <4>1. i \in 0..(m - 1) /\ i - 1 \in 0..m /\ i - 1 < m
        BY <1>2, <3>2
      <4>2. h[i] = g[i] /\ h[i - 1] = g[i - 1]
        BY <3>2, <4>1, Zenon
      <4>3. QED
        BY <2>2, <3>2, <4>1, <4>2, Zenon
    <3>3. CASE i = m
      <4>1. i # 0 /\ m - 1 \in 0..m /\ m - 1 < m /\ ~(m < m) /\ m \in 0..m
        BY <1>2, <3>3
      <4>2. h[m] = new /\ h[m - 1] = g[m - 1]
        BY <4>1, Zenon
      <4>3. QED
        BY <3>3, <4>1, <4>2, Zenon
    <3>4. i < m \/ i = m
      BY <1>2
    <3>5. QED
      BY <3>1, <3>2, <3>3, <3>4
  <2>4. h = [i \in 0..m |-> IF i = 0 THEN <<>>
                ELSE (IF all[i] \in ToSet(h[i - 1]) THEN h[i - 1] ELSE Append(h[i - 1], all[i]))]
    BY <2>3, Zenon
  <2> HIDE DEF h
  <2>5. QED
    BY <2>4
<1> HIDE DEF Runs
<1>3. Bad = {}
  <2> SUFFICES ASSUME Bad # {} PROVE FALSE
    OBVIOUS
  <2>1. PICK m \in Bad : \A k \in Bad : m <= k
    <3>1. Bad \in SUBSET Nat
      OBVIOUS
    <3> HIDE DEF Bad
    <3>2. QED
      BY <3>1, LeastNatural
  <2>2. m \in Nat /\ ~ Runs(m)
    OBVIOUS
  <2>3. m # 0
    BY <1>1, <2>2
  <2>4. m \in Nat /\ m > 0 /\ m - 1 \in Nat /\ ~(m <= m - 1)
    BY <2>2, <2>3
  <2>5. Runs(m - 1)
    BY <2>1, <2>4
  <2>6. QED
    BY <1>2, <2>2, <2>4, <2>5
<1>4. Runs(Len(all))
  BY <1>3
<1> DEFINE IsRun(g) == g = [i \in 0..Len(all) |-> IF i = 0 THEN <<>>
              ELSE (IF all[i] \in ToSet(g[i - 1]) THEN g[i - 1] ELSE Append(g[i - 1], all[i]))]
<1>5. PICK a : a = CHOOSE g : IsRun(g)
  OBVIOUS
<1>6. IsRun(a)
  <2>1. \E g : IsRun(g)
    BY <1>4 DEF Runs
  <2> HIDE DEF IsRun
  <2>2. QED
    BY <1>5, <2>1, Zenon
<1>7. Deduped(all) = a[Len(all)]
  BY <1>5 DEF Deduped
<1>8. \A i \in 0..Len(all) : a[i] = IF i = 0 THEN <<>>
              ELSE (IF all[i] \in ToSet(a[i - 1]) THEN a[i - 1] ELSE Append(a[i - 1], all[i]))
  BY <1>6, Zenon
<1> HIDE DEF IsRun
<1>9. a[0] = <<>>
  <2>1. 0 \in 0..Len(all)
    OBVIOUS
  <2>2. QED
    BY <1>8, <2>1, Zenon
<1>10. ASSUME NEW i \in 1..Len(all)
      PROVE a[i] = (IF all[i] \in ToSet(a[i - 1]) THEN a[i - 1] ELSE Append(a[i - 1], all[i]))
  <2>1. i \in 0..Len(all) /\ i # 0
    OBVIOUS
  <2>2. QED
    BY <1>8, <2>1, Zenon
<1>11. QED
  BY <1>7, <1>9, <1>10

-----------------------------------------------------------------------------
(* Sequences and texts *)

\* A set of naturals that holds lo and what follows its elements holds all up to n.
LEMMA UpTo ==
  ASSUME NEW S, NEW lo \in Nat, NEW n \in Nat, lo \in S,
         \A i \in (lo + 1)..n : i - 1 \in S => i \in S
  PROVE  \A i \in lo..n : i \in S
<1> DEFINE Bad == {i \in lo..n : i \notin S}
<1> SUFFICES ASSUME Bad # {} PROVE FALSE
  OBVIOUS
<1>1. PICK m \in Bad : \A k \in Bad : m <= k
  <2>1. Bad \in SUBSET Nat
    OBVIOUS
  <2> HIDE DEF Bad
  <2>2. QED
    BY <2>1, LeastNatural
<1>2. m \in lo..n /\ m \notin S
  OBVIOUS
<1>3. m \in (lo + 1)..n /\ m - 1 \in lo..n /\ ~(m <= m - 1)
  BY <1>2
<1>4. m - 1 \in S
  BY <1>1, <1>3
<1>5. QED
  BY <1>2, <1>3, <1>4

\* The elements of a sequence by position
LEMMA ElementsOf ==
  ASSUME NEW X, NEW s \in Seq(X)
  PROVE  /\ Len(s) \in Nat /\ DOMAIN s = 1..Len(s)
         /\ ToSet(s) = {s[i] : i \in 1..Len(s)} /\ ToSet(s) \subseteq X
         /\ s = <<>> <=> Len(s) = 0
         /\ s = <<>> <=> ToSet(s) = {}
<1>1. Len(s) \in Nat /\ DOMAIN s = 1..Len(s)
  BY LenProperties
<1>2. \A i \in 1..Len(s) : s[i] \in X
  BY ElementOfSeq
<1>3. ToSet(s) = {s[i] : i \in 1..Len(s)}
  BY <1>1 DEF ToSet
<1>4. ToSet(s) \subseteq X
  BY <1>2, <1>3
<1>5. s = <<>> <=> Len(s) = 0
  BY <1>1, EmptySeq
<1>6. s = <<>> <=> ToSet(s) = {}
  <2>1. ASSUME Len(s) = 0 PROVE ToSet(s) = {}
    BY <1>3, <2>1
  <2>2. ASSUME Len(s) # 0 PROVE s[1] \in ToSet(s)
    BY <1>1, <1>3, <2>2
  <2>3. QED
    BY <1>5, <2>1, <2>2
<1>7. QED
  BY <1>1, <1>3, <1>4, <1>5, <1>6

\* Nothing but the elements of both is in two sequences put together.
LEMMA ConcatElements ==
  ASSUME NEW X, NEW a \in Seq(X), NEW b \in Seq(X)
  PROVE  /\ a \o b \in Seq(X) /\ Len(a \o b) = Len(a) + Len(b)
         /\ \A i \in 1..Len(a) : (a \o b)[i] = a[i]
         /\ \A i \in 1..Len(b) : (a \o b)[Len(a) + i] = b[i]
         /\ ToSet(a \o b) = ToSet(a) \cup ToSet(b)
<1>1. /\ a \o b \in Seq(X) /\ Len(a \o b) = Len(a) + Len(b)
      /\ \A i \in 1..(Len(a) + Len(b)) :
           (a \o b)[i] = IF i <= Len(a) THEN a[i] ELSE b[i - Len(a)]
  BY ConcatProperties
<1>2. Len(a) \in Nat /\ Len(b) \in Nat
  BY LenProperties
<1>3. \A i \in 1..Len(a) : (a \o b)[i] = a[i]
  BY <1>1, <1>2
<1>4. \A i \in 1..Len(b) : (a \o b)[Len(a) + i] = b[i]
  <2> TAKE i \in 1..Len(b)
  <2>1. Len(a) + i \in 1..(Len(a) + Len(b)) /\ ~(Len(a) + i <= Len(a)) /\ (Len(a) + i) - Len(a) = i
    BY <1>2
  <2>2. QED
    BY <1>1, <2>1
<1>5. ToSet(a \o b) = ToSet(a) \cup ToSet(b)
  <2>0. PICK c : c = a \o b
    OBVIOUS
  <2>1. /\ ToSet(a) = {a[i] : i \in 1..Len(a)} /\ ToSet(b) = {b[i] : i \in 1..Len(b)}
        /\ ToSet(a \o b) = {(a \o b)[i] : i \in 1..(Len(a) + Len(b))}
    <3>1. ToSet(a) = {a[i] : i \in 1..Len(a)} /\ ToSet(b) = {b[i] : i \in 1..Len(b)}
      BY ElementsOf
    <3>2. c \in Seq(X) /\ Len(c) = Len(a) + Len(b)
      BY <1>1, <2>0
    <3>3. ToSet(c) = {c[i] : i \in 1..Len(c)}
      BY <3>2, ElementsOf
    <3>4. QED
      BY <2>0, <3>1, <3>2, <3>3
  <2>2. ASSUME NEW i \in 1..(Len(a) + Len(b)) PROVE (a \o b)[i] \in ToSet(a) \cup ToSet(b)
    <3>1. CASE i <= Len(a)
      BY <1>2, <1>3, <2>1, <3>1
    <3>2. CASE ~(i <= Len(a))
      <4>1. i - Len(a) \in 1..Len(b) /\ (a \o b)[i] = b[i - Len(a)]
        BY <1>1, <1>2, <3>2
      <4>2. QED
        BY <2>1, <4>1
    <3>3. QED
      BY <3>1, <3>2
  <2>3. ASSUME NEW i \in 1..Len(a) PROVE a[i] \in ToSet(a \o b)
    <3>1. i \in 1..(Len(a) + Len(b)) /\ (a \o b)[i] = a[i]
      BY <1>2, <1>3
    <3>2. QED
      BY <2>1, <3>1
  <2>4. ASSUME NEW i \in 1..Len(b) PROVE b[i] \in ToSet(a \o b)
    <3>1. Len(a) + i \in 1..(Len(a) + Len(b)) /\ (a \o b)[Len(a) + i] = b[i]
      BY <1>2, <1>4
    <3>2. QED
      BY <2>1, <3>1
  <2>5. QED
    BY <2>1, <2>2, <2>3, <2>4
<1>6. QED
  BY <1>1, <1>3, <1>4, <1>5

\* A sequence of one element
LEMMA Single ==
  ASSUME NEW X, NEW e \in X
  PROVE  <<e>> \in Seq(X) /\ Len(<<e>>) = 1 /\ ToSet(<<e>>) = {e} /\ <<e>>[1] = e
  BY DEF ToSet

\* A sequence with its elements in the other order
LEMMA ReverseElements ==
  ASSUME NEW X, NEW s \in Seq(X)
  PROVE  /\ Reverse(s) \in Seq(X) /\ ToSet(Reverse(s)) = ToSet(s)
         /\ Reverse(s) = <<>> <=> s = <<>>
<1>1. Len(s) \in Nat /\ \A i \in 1..Len(s) : s[i] \in X
  BY LenProperties, ElementOfSeq
<1>2. \A i \in 1..Len(s) : (Len(s) - i) + 1 \in 1..Len(s)
  BY <1>1
<1>3. \A i \in 1..Len(s) : s[(Len(s) - i) + 1] \in X
  BY <1>1, <1>2
<1>4. Reverse(s) \in Seq(X) /\ Len(Reverse(s)) = Len(s)
      /\ \A i \in 1..Len(s) : Reverse(s)[i] = s[(Len(s) - i) + 1]
  <2>1. Reverse(s) \in [1..Len(s) -> X]
    BY <1>3 DEF Reverse
  <2>2. Reverse(s) \in Seq(X)
    BY <1>1, <2>1, SeqDef
  <2>3. DOMAIN Reverse(s) = 1..Len(s)
    BY <2>1
  <2>4. Len(Reverse(s)) = Len(s)
    BY <1>1, <2>2, <2>3, LenProperties
  <2>5. QED
    BY <2>2, <2>4 DEF Reverse
<1>5. ToSet(Reverse(s)) = {Reverse(s)[i] : i \in 1..Len(s)} /\ ToSet(s) = {s[i] : i \in 1..Len(s)}
  BY <1>4, ElementsOf
<1>6. ASSUME NEW i \in 1..Len(s) PROVE s[i] \in ToSet(Reverse(s))
  <2>1. (Len(s) - i) + 1 \in 1..Len(s) /\ (Len(s) - ((Len(s) - i) + 1)) + 1 = i
    BY <1>1
  <2>2. Reverse(s)[(Len(s) - i) + 1] = s[i]
    BY <1>4, <2>1
  <2>3. QED
    BY <1>5, <2>1, <2>2
<1>7. ToSet(Reverse(s)) = ToSet(s)
  BY <1>2, <1>4, <1>5, <1>6
<1>8. QED
  BY <1>4, <1>7, ElementsOf

\* A sequence of anything
Sq(s) == s \in Seq(ToSet(s))

\* Whatever it is a sequence of
LEMMA SqOf ==
  ASSUME NEW X, NEW s \in Seq(X)
  PROVE  Sq(s)
<1>1. s \in [1..Len(s) -> X] /\ Len(s) \in Nat /\ DOMAIN s = 1..Len(s)
  BY LenProperties
<1>2. s \in [1..Len(s) -> ToSet(s)]
  BY <1>1 DEF ToSet
<1>3. QED
  BY <1>1, <1>2, SeqDef DEF Sq

\* What two sequences hold that are put together
LEMMA ConcatText ==
  ASSUME NEW a, NEW b, Sq(a), Sq(b)
  PROVE  Sq(a \o b) /\ ToSet(a \o b) = ToSet(a) \cup ToSet(b) /\ Len(a \o b) = Len(a) + Len(b)
<1> DEFINE X == ToSet(a) \cup ToSet(b)
<1>1. a \in Seq(X) /\ b \in Seq(X)
  BY SeqMonotonic DEF Sq
<1> HIDE DEF X
<1>2. PICK c : c = a \o b
  OBVIOUS
<1>3. c \in Seq(X) /\ ToSet(c) = ToSet(a) \cup ToSet(b) /\ Len(c) = Len(a) + Len(b)
  BY <1>1, <1>2, ConcatElements
<1>4. Sq(c)
  BY <1>3, SqOf
<1>5. QED
  BY <1>2, <1>3, <1>4

\* A sequence of one element
LEMMA SymbolText ==
  ASSUME NEW c
  PROVE  Sq(<<c>>) /\ ToSet(<<c>>) = {c} /\ Len(<<c>>) = 1
  BY DEF ToSet, Sq

\* Texts that are joined hold nothing but their symbols and the separator.
LEMMA JoinedText ==
  ASSUME NEW texts, Sq(texts), NEW sep, NEW A, sep \in A,
         \A i \in 1..Len(texts) : Sq(texts[i]) /\ ToSet(texts[i]) \subseteq A
  PROVE  Sq(JoinSeq(texts, sep)) /\ ToSet(JoinSeq(texts, sep)) \subseteq A
<1>1. CASE texts = <<>>
  <2>1. JoinSeq(texts, sep) = <<>>
    BY <1>1 DEF JoinSeq
  <2>2. Sq(<<>>) /\ ToSet(<<>>) = {}
    BY EmptySeq DEF ToSet, Sq
  <2>4. QED
    BY <2>1, <2>2
<1>2. CASE texts # <<>>
  <2>1. Len(texts) \in Nat \ {0}
    BY <1>2, EmptySeq DEF Sq
  <2>0. PICK a : JoinRun(a, texts, sep)
    BY <1>2, <2>1, JoinRuns
  <2>2. /\ JoinSeq(texts, sep) = a[Len(texts)]
        /\ a[1] = texts[1]
        /\ \A i \in 2..Len(texts) : a[i] = a[i - 1] \o <<sep>> \o texts[i]
    BY <2>0 DEF JoinRun
  <2> DEFINE Good(t) == Sq(t) /\ ToSet(t) \subseteq A
             S == {i \in 1..Len(texts) : Good(a[i])}
  <2>3. 1 \in S
    BY <2>1, <2>2
  <2>4. ASSUME NEW i \in 2..Len(texts), Good(a[i - 1]) PROVE Good(a[i])
    <3>1. PICK u : u = a[i - 1]
      OBVIOUS
    <3>2. PICK t : t = texts[i]
      OBVIOUS
    <3>3. Sq(u) /\ ToSet(u) \subseteq A /\ Sq(t) /\ ToSet(t) \subseteq A
      BY <2>1, <2>4, <3>1, <3>2
    <3>4. PICK x : x = <<sep>>
      OBVIOUS
    <3>5. Sq(x) /\ ToSet(x) = {sep}
      BY <3>4, SymbolText
    <3>6. PICK y : y = u \o x
      OBVIOUS
    <3>7. Sq(y) /\ ToSet(y) \subseteq A
      BY <3>3, <3>5, <3>6, ConcatText
    <3>8. Sq(y \o t) /\ ToSet(y \o t) \subseteq A
      BY <3>3, <3>7, ConcatText
    <3>9. a[i] = y \o t
      BY <2>2, <3>1, <3>2, <3>4, <3>6
    <3>10. QED
      BY <3>8, <3>9
  <2> HIDE DEF Good
  <2>5. \A i \in (1 + 1)..Len(texts) : i - 1 \in S => i \in S
    BY <2>1, <2>4
  <2>6. \A i \in 1..Len(texts) : i \in S
    <3> HIDE DEF S
    <3>1. QED
      BY <2>1, <2>3, <2>5, UpTo
  <2>7. Good(a[Len(texts)])
    BY <2>1, <2>6
  <2>8. QED
    BY <2>2, <2>7 DEF Good
<1>3. QED
  BY <1>1, <1>2

\* Sequences that are chained hold the elements of each and no other.
LEMMA FlattenedElements ==
  ASSUME NEW X, NEW seqs \in Seq(Seq(X))
  PROVE  /\ FlattenSeq(seqs) \in Seq(X)
         /\ ToSet(FlattenSeq(seqs)) = UNION {ToSet(seqs[i]) : i \in 1..Len(seqs)}
<1>0. Len(seqs) \in Nat
  BY LenProperties
<1>1. CASE Len(seqs) = 0
  <2>1. seqs = <<>> /\ 1..Len(seqs) = {}
    BY <1>1, EmptySeq
  <2>2. FlattenSeq(seqs) = <<>>
    BY <1>1, <2>1 DEF FlattenSeq
  <2>3. <<>> \in Seq(X) /\ ToSet(<<>>) = {}
    BY EmptySeq DEF ToSet
  <2>4. QED
    BY <2>1, <2>2, <2>3
<1>2. CASE Len(seqs) # 0
  <2>1. Len(seqs) \in Nat \ {0} /\ \A i \in 1..Len(seqs) : seqs[i] \in Seq(X)
    BY <1>0, <1>2, ElementOfSeq
  <2>2. PICK a : /\ FlattenSeq(seqs) = a[Len(seqs)]
                 /\ a[1] = seqs[1]
                 /\ \A i \in 2..Len(seqs) : a[i] = a[i - 1] \o seqs[i]
    BY <2>1, FlattenRuns
  <2> DEFINE Good(i) == a[i] \in Seq(X) /\ ToSet(a[i]) = UNION {ToSet(seqs[j]) : j \in 1..i}
             S == {i \in 1..Len(seqs) : Good(i)}
  <2>3. Good(1)
    <3>1. 1..1 = {1}
      OBVIOUS
    <3>2. UNION {ToSet(seqs[j]) : j \in 1..1} = ToSet(seqs[1])
      BY <3>1
    <3>3. QED
      BY <2>1, <2>2, <3>2
  <2>4. ASSUME NEW i \in 2..Len(seqs), Good(i - 1) PROVE Good(i)
    <3>1. PICK u : u = a[i - 1]
      OBVIOUS
    <3>2. u \in Seq(X) /\ ToSet(u) = UNION {ToSet(seqs[j]) : j \in 1..(i - 1)} /\ seqs[i] \in Seq(X)
      BY <2>1, <2>4, <3>1
    <3>3. u \o seqs[i] \in Seq(X) /\ ToSet(u \o seqs[i]) = ToSet(u) \cup ToSet(seqs[i])
      BY <3>2, ConcatElements
    <3>4. 1..i = (1..(i - 1)) \cup {i}
      BY <2>1
    <3>5. UNION {ToSet(seqs[j]) : j \in 1..i} = ToSet(u) \cup ToSet(seqs[i])
      BY <3>2, <3>4, Zenon
    <3>6. a[i] = u \o seqs[i]
      BY <2>2, <3>1
    <3>7. QED
      BY <3>3, <3>5, <3>6
  <2> HIDE DEF Good
  <2>5. 1 \in S /\ \A i \in (1 + 1)..Len(seqs) : i - 1 \in S => i \in S
    BY <2>1, <2>3, <2>4
  <2>6. \A i \in 1..Len(seqs) : i \in S
    <3> HIDE DEF S
    <3>1. QED
      BY <2>1, <2>5, UpTo
  <2>7. Good(Len(seqs))
    BY <2>1, <2>6
  <2>8. QED
    BY <2>2, <2>7 DEF Good
<1>3. QED
  BY <1>1, <1>2

\* Entries that were dropped are still there once.
LEMMA DedupedElements ==
  ASSUME NEW X, NEW all \in Seq(X)
  PROVE  Deduped(all) \in Seq(X) /\ ToSet(Deduped(all)) = ToSet(all)
<1>1. Len(all) \in Nat /\ \A i \in 1..Len(all) : all[i] \in X
  BY LenProperties, ElementOfSeq
<1>2. PICK a : /\ Deduped(all) = a[Len(all)]
               /\ a[0] = <<>>
               /\ \A i \in 1..Len(all) :
                    a[i] = IF all[i] \in ToSet(a[i - 1]) THEN a[i - 1] ELSE Append(a[i - 1], all[i])
  BY <1>1, DedupedRuns
<1> DEFINE Good(i) == a[i] \in Seq(X) /\ ToSet(a[i]) = {all[j] : j \in 1..i}
           S == {i \in 0..Len(all) : Good(i)}
<1>3. Good(0)
  <2>1. 1..0 = {}
    OBVIOUS
  <2>2. <<>> \in Seq(X) /\ ToSet(<<>>) = {}
    BY EmptySeq DEF ToSet
  <2>3. QED
    BY <1>2, <2>1, <2>2
<1>4. ASSUME NEW i \in 1..Len(all), Good(i - 1) PROVE Good(i)
  <2>1. PICK u : u = a[i - 1]
    OBVIOUS
  <2>2. u \in Seq(X) /\ ToSet(u) = {all[j] : j \in 1..(i - 1)} /\ all[i] \in X
    BY <1>1, <1>4, <2>1
  <2>3. <<all[i]>> \in Seq(X) /\ ToSet(<<all[i]>>) = {all[i]} /\ Append(u, all[i]) = u \o <<all[i]>>
    BY <2>2, Single, AppendIsConcat
  <2>9. PICK x : x = <<all[i]>>
    OBVIOUS
  <2>4. Append(u, all[i]) \in Seq(X) /\ ToSet(Append(u, all[i])) = ToSet(u) \cup {all[i]}
    <3>1. x \in Seq(X) /\ ToSet(x) = {all[i]} /\ Append(u, all[i]) = u \o x
      BY <2>3, <2>9
    <3>2. u \o x \in Seq(X) /\ ToSet(u \o x) = ToSet(u) \cup ToSet(x)
      BY <2>2, <3>1, ConcatElements
    <3>3. QED
      BY <3>1, <3>2
  <2>5. 1..i = (1..(i - 1)) \cup {i}
    BY <1>1
  <2>6. {all[j] : j \in 1..i} = ToSet(u) \cup {all[i]}
    BY <2>2, <2>5, Zenon
  <2>7. a[i] = IF all[i] \in ToSet(u) THEN u ELSE Append(u, all[i])
    BY <1>2, <2>1
  <2>8. QED
    BY <2>2, <2>4, <2>6, <2>7
<1> HIDE DEF Good
<1>5. 0 \in S /\ \A i \in (0 + 1)..Len(all) : i - 1 \in S => i \in S
  BY <1>1, <1>3, <1>4
<1>6. \A i \in 0..Len(all) : i \in S
  <2> HIDE DEF S
  <2>1. QED
    BY <1>1, <1>5, UpTo
<1>7. Good(Len(all))
  BY <1>1, <1>6
<1>8. QED
  BY <1>2, <1>7, ElementsOf DEF Good

\* A finite set as a sequence
LEMMA SetAsSeq ==
  ASSUME NEW S, IsFiniteSet(S)
  PROVE  /\ SetToSeq(S) \in Seq(S) /\ ToSet(SetToSeq(S)) = S
         /\ Cardinality(S) \in Nat /\ Len(SetToSeq(S)) = Cardinality(S)
<1> DEFINE n == Cardinality(S)
<1>1. n \in Nat /\ \E f : f \in [1..n -> S] /\ IsInjective(f)
  <2>1. n \in Nat /\ ExistsBijection(1..n, S)
    BY FS_CardinalityType
  <2>2. QED
    BY <2>1, Zenon DEF ExistsBijection, Bijection, Injection
<1>2. PICK f : f = SetToSeq(S)
  OBVIOUS
<1>3. f \in [1..n -> S] /\ IsInjective(f)
  <2>1. f = CHOOSE g \in [1..n -> S] : IsInjective(g)
    BY <1>2 DEF SetToSeq
  <2> HIDE DEF n
  <2>2. QED
    BY <1>1, <2>1, Zenon
<1>4. f \in Injection(1..n, S)
  BY <1>3, Zenon DEF Injection
<1>5. Cardinality(1..n) = n /\ IsFiniteSet(1..n)
  BY <1>1, FS_Interval
<1>6. f \in Surjection(1..n, S)
  BY <1>4, <1>5, FS_Injection
<1>7. \A e \in S : \E i \in 1..n : f[i] = e
  BY <1>6, Zenon DEF Surjection
<1>8. f \in Seq(S) /\ Len(f) = n
  BY <1>1, <1>3
<1>9. ToSet(f) = S
  <2>1. ToSet(f) = {f[i] : i \in 1..n}
    BY <1>8, ElementsOf
  <2>2. \A i \in 1..n : f[i] \in S
    BY <1>3
  <2> HIDE DEF n
  <2>3. QED
    BY <1>7, <2>1, <2>2
<1>10. QED
  BY <1>1, <1>2, <1>8, <1>9

-----------------------------------------------------------------------------
(* A unit file read back, line by line *)

\* A text without white space and backslashes
Bare(v) == Sq(v) /\ Symbols(v) \cap (White \cup {"\\"}) = {}

\* A bare text is its own trimmed text, is one line, and does not go on in the next one.
LEMMA BareValue ==
  ASSUME NEW v, Bare(v)
  PROVE  Trim(v) = v /\ ~HasUnescapedTrailingBackslash(v) /\ \A i \in DOMAIN v : v[i] # "NL"
<1>1. Len(v) \in Nat /\ DOMAIN v = 1..Len(v) /\ Sq(v)
  BY ElementsOf DEF Bare, Sq
<1>2. ASSUME NEW i \in 1..Len(v) PROVE v[i] \notin White /\ v[i] # "\\" /\ v[i] # "NL"
  <2>1. v[i] \in Symbols(v)
    BY <1>1 DEF Symbols, ToSet
  <2>2. QED
    BY <2>1 DEF Bare, White
<1>3. ~HasUnescapedTrailingBackslash(v)
  <2> DEFINE run == {i \in DOMAIN v : \A j \in i..Len(v) : v[j] = "\\"}
  <2>1. run = {}
    <3>1. \A i \in 1..Len(v) : i \in i..Len(v)
      BY <1>1
    <3>2. QED
      BY <1>1, <1>2, <3>1
  <2>2. Cardinality(run) = 0
    BY <2>1, FS_EmptySet
  <2> HIDE DEF run
  <2>3. Cardinality(run) % 2 # 1
    BY <2>2
  <2>4. QED
    BY <2>3 DEF HasUnescapedTrailingBackslash, run
<1>4. Trim(v) = v
  <2> DEFINE kept == {i \in DOMAIN v : v[i] \notin White}
  <2>1. kept = 1..Len(v)
    BY <1>1, <1>2
  <2>2. CASE Len(v) = 0
    <3>1. kept = {} /\ v = <<>>
      BY <1>1, <2>1, <2>2, EmptySeq DEF Sq
    <3>2. QED
      BY <3>1 DEF Trim
  <2>3. CASE Len(v) # 0
    <3>1. kept # {}
      <4>1. 1 \in 1..Len(v)
        BY <1>1, <2>3
      <4> HIDE DEF kept
      <4>2. QED
        BY <2>1, <4>1
    <3>2. (CHOOSE i \in kept : \A j \in kept : i <= j) = 1
      <4>1. 1 \in 1..Len(v) /\ \A j \in 1..Len(v) : 1 <= j
        BY <1>1, <2>3
      <4>2. \A i \in 1..Len(v) : (\A j \in 1..Len(v) : i <= j) => i = 1
        BY <1>1, <2>3
      <4> HIDE DEF kept
      <4>3. QED
        BY <2>1, <4>1, <4>2
    <3>3. (CHOOSE i \in kept : \A j \in kept : i >= j) = Len(v)
      <4>1. Len(v) \in 1..Len(v) /\ \A j \in 1..Len(v) : Len(v) >= j
        BY <1>1, <2>3
      <4>2. ASSUME NEW i \in 1..Len(v), \A j \in 1..Len(v) : i >= j PROVE i = Len(v)
        <5>1. i >= Len(v)
          BY <4>1, <4>2
        <5>2. Len(v) \in Nat
          BY <1>1
        <5>3. QED
          BY <5>1, <5>2
      <4> HIDE DEF kept
      <4>3. QED
        BY <2>1, <4>1, <4>2
    <3>4. Trim(v) = SubSeq(v, 1, Len(v))
      <4>1. Trim(v) = IF kept = {} THEN <<>>
                      ELSE SubSeq(v, CHOOSE i \in kept : \A j \in kept : i <= j,
                                     CHOOSE i \in kept : \A j \in kept : i >= j)
        BY DEF Trim
      <4> HIDE DEF kept
      <4>2. QED
        BY <3>1, <3>2, <3>3, <4>1
    <3>5. QED
      BY <1>1, <3>4, SubSeqFull DEF Sq
  <2>4. QED
    BY <2>2, <2>3
<1>5. QED
  BY <1>1, <1>2, <1>3, <1>4

\* q is p with e at its end.
IsAppend(q, p, e) ==
  /\ Sq(q) /\ Len(p) \in Nat /\ Len(q) = Len(p) + 1
  /\ \A i \in 1..Len(p) : q[i] = p[i]
  /\ q[Len(p) + 1] = e

\* Append adds an element to the end, whatever it is.
LEMMA AppendAny ==
  ASSUME NEW p, Sq(p), NEW e
  PROVE  IsAppend(Append(p, e), p, e)
<1>0. PICK q : q = Append(p, e)
  OBVIOUS
<1> DEFINE T == ToSet(p) \cup {e}
<1>1. p \in Seq(T)
  BY SeqMonotonic DEF Sq
<1>2. /\ q \in Seq(T) /\ Len(q) = Len(p) + 1 /\ Len(p) \in Nat
      /\ \A i \in 1..Len(p) : q[i] = p[i]
      /\ q[Len(p) + 1] = e
  <2>1. e \in T
    OBVIOUS
  <2> HIDE DEF T
  <2>2. QED
    BY <1>0, <1>1, <2>1, AppendProperties, LenProperties
<1>3. q \in Seq(ToSet(q))
  <2>1. DOMAIN q = 1..Len(q)
    BY <1>2, LenProperties
  <2>2. \A i \in 1..Len(q) : q[i] \in ToSet(q)
    BY <2>1 DEF ToSet
  <2>3. q \in [1..Len(q) -> T] /\ Len(q) \in Nat
    BY <1>2, LenProperties
  <2> HIDE DEF T
  <2>4. q \in [1..Len(q) -> ToSet(q)]
    BY <2>2, <2>3
  <2>5. QED
    BY <2>3, <2>4, SeqDef
<1>4. QED
  BY <1>0, <1>2, <1>3 DEF Sq, IsAppend

IsLine(l) == l = [key |-> l.key, val |-> l.val, ref |-> l.ref]

\* What has been parsed goes on from P, with pairs whose keys are not in K.
Continues(acc, P, K) ==
  /\ acc = [section |-> acc.section, open |-> acc.open, pairs |-> acc.pairs]
  /\ Sq(acc.pairs) /\ Len(acc.pairs) \in Nat /\ Len(P) <= Len(acc.pairs)
  /\ \A i \in 1..Len(P) : acc.pairs[i] = P[i]
  /\ \A i \in (Len(P) + 1)..Len(acc.pairs) : acc.pairs[i][2].key \notin K
  /\ K = {} \/ acc.open = None \/ (IsLine(acc.open) /\ acc.open.key \notin K)

\* A line whose key is not in K leaves the pairs with a key in K as they are.
LEMMA StepContinues ==
  ASSUME NEW acc, NEW l, NEW P, NEW K, Len(P) \in Nat, Continues(acc, P, K),
         K = {} \/ (IsLine(l) /\ l.key \notin K)
  PROVE  Continues(ParseStep(acc, l), P, K)
<1> DEFINE logical == IF acc.open = None THEN l
                      ELSE [acc.open EXCEPT !.val = @ \o <<l.key, "=">> \o l.val]
<1>1. K = {} \/ (IsLine(logical) /\ logical.key \notin K)
  <2>1. CASE acc.open = None
    BY <2>1
  <2>2. CASE acc.open # None /\ K # {}
    <3>1. PICK o : o = acc.open
      OBVIOUS
    <3>2. o = [key |-> o.key, val |-> o.val, ref |-> o.ref] /\ o.key \notin K
      BY <2>2, <3>1 DEF Continues, IsLine
    <3>3. PICK w : w = o.val \o <<l.key, "=">> \o l.val
      OBVIOUS
    <3>4. logical = [o EXCEPT !.val = w]
      BY <2>2, <3>1, <3>3
    <3>5. [o EXCEPT !.val = w] = [key |-> o.key, val |-> w, ref |-> o.ref]
      BY <3>2
    <3> HIDE DEF logical
    <3>6. QED
      BY <3>2, <3>4, <3>5 DEF IsLine
  <2>3. QED
    BY <2>1, <2>2
<1>2. PICK g : g = logical
  OBVIOUS
<1>3. K = {} \/ (IsLine(g) /\ g.key \notin K)
  BY <1>1, <1>2
<1>4. ParseStep(acc, l) =
        IF HasUnescapedTrailingBackslash(g.val)
        THEN [acc EXCEPT !.open = [g EXCEPT !.val = Front(@) \o <<" ">>]]
        ELSE IF IsSection(g) THEN [acc EXCEPT !.open = None, !.section = g.key]
        ELSE IF g.key = NoKey \/ acc.section = None THEN [acc EXCEPT !.open = None]
        ELSE [acc EXCEPT !.open = None,
                !.pairs = Append(@, <<acc.section, [g EXCEPT !.val = Trim(@)]>>)]
  BY <1>2 DEF ParseStep
<1> HIDE DEF logical
<1>5. acc = [section |-> acc.section, open |-> acc.open, pairs |-> acc.pairs]
  BY DEF Continues
<1>6. \A x : K = {} \/ (IsLine([g EXCEPT !.val = x]) /\ [g EXCEPT !.val = x].key \notin K)
  <2>1. CASE K # {}
    <3>1. g = [key |-> g.key, val |-> g.val, ref |-> g.ref] /\ g.key \notin K
      BY <1>3, <2>1 DEF IsLine
    <3>2. \A x : [g EXCEPT !.val = x] = [key |-> g.key, val |-> x, ref |-> g.ref]
      BY <3>1
    <3>3. QED
      BY <3>1, <3>2 DEF IsLine
  <2>2. QED
    BY <2>1
<1>7. CASE HasUnescapedTrailingBackslash(g.val)
  <2>1. PICK x : x = Front(g.val) \o <<" ">>
    OBVIOUS
  <2>2. PICK o : o = [g EXCEPT !.val = x]
    OBVIOUS
  <2>3. ParseStep(acc, l) = [acc EXCEPT !.open = o]
    BY <1>4, <1>7, <2>1, <2>2
  <2>4. [acc EXCEPT !.open = o] = [section |-> acc.section, open |-> o, pairs |-> acc.pairs]
    BY <1>5
  <2>5. K = {} \/ (IsLine(o) /\ o.key \notin K)
    BY <1>6, <2>2
  <2>6. QED
    BY <2>3, <2>4, <2>5 DEF Continues
<1>8. CASE ~HasUnescapedTrailingBackslash(g.val) /\ IsSection(g)
  <2>1. PICK k : k = g.key
    OBVIOUS
  <2>2. ParseStep(acc, l) = [section |-> k, open |-> None, pairs |-> acc.pairs]
    BY <1>4, <1>5, <1>8, <2>1
  <2>3. QED
    BY <2>2 DEF Continues
<1>9. CASE /\ ~HasUnescapedTrailingBackslash(g.val) /\ ~IsSection(g)
           /\ g.key = NoKey \/ acc.section = None
  <2>1. ParseStep(acc, l) = [acc EXCEPT !.open = None]
    BY <1>4, <1>9
  <2>2. [acc EXCEPT !.open = None] = [section |-> acc.section, open |-> None, pairs |-> acc.pairs]
    BY <1>5
  <2>3. QED
    BY <2>1, <2>2 DEF Continues
<1>10. CASE /\ ~HasUnescapedTrailingBackslash(g.val) /\ ~IsSection(g)
            /\ ~(g.key = NoKey \/ acc.section = None)
  <2>1. PICK o : o = [g EXCEPT !.val = Trim(g.val)]
    OBVIOUS
  <2>2. PICK e : e = <<acc.section, o>>
    OBVIOUS
  <2>3. PICK q : q = Append(acc.pairs, e)
    OBVIOUS
  <2>4. ParseStep(acc, l) = [acc EXCEPT !.open = None, !.pairs = q]
    BY <1>4, <1>10, <2>1, <2>2, <2>3
  <2>5. [acc EXCEPT !.open = None, !.pairs = q] =
          [section |-> acc.section, open |-> None, pairs |-> q]
    <3>1. PICK x : x = [acc EXCEPT !.open = None]
      OBVIOUS
    <3>2. x = [section |-> acc.section, open |-> None, pairs |-> acc.pairs]
      BY <1>5, <3>1
    <3>3. [x EXCEPT !.pairs = q] = [section |-> acc.section, open |-> None, pairs |-> q]
      BY <3>2
    <3>4. [acc EXCEPT !.open = None, !.pairs = q] = [x EXCEPT !.pairs = q]
      BY <3>1
    <3>5. QED
      BY <3>3, <3>4
  <2>15. PICK p : p = acc.pairs
    OBVIOUS
  <2>6. /\ Sq(q) /\ Len(q) = Len(acc.pairs) + 1 /\ Len(acc.pairs) \in Nat
        /\ \A i \in 1..Len(acc.pairs) : q[i] = acc.pairs[i]
        /\ q[Len(acc.pairs) + 1] = e
    <3>1. Sq(p) /\ q = Append(p, e)
      BY <2>3, <2>15 DEF Continues
    <3>2. IsAppend(q, p, e)
      BY <3>1, AppendAny
    <3>3. QED
      BY <2>15, <3>2 DEF IsAppend
  <2>7. e[2].key \notin K
    <3>1. e[2] = o
      BY <2>2
    <3>2. K = {} \/ o.key \notin K
      BY <1>6, <2>1
    <3>3. QED
      BY <3>1, <3>2
  <2>8. \A i \in (Len(P) + 1)..Len(q) : q[i][2].key \notin K
    <3> TAKE i \in (Len(P) + 1)..Len(q)
    <3>1. CASE i = Len(acc.pairs) + 1
      BY <2>6, <2>7, <3>1
    <3>2. CASE i # Len(acc.pairs) + 1
      <4>1. i \in 1..Len(acc.pairs) /\ i \in (Len(P) + 1)..Len(acc.pairs)
        BY <2>6, <3>2
      <4>2. QED
        BY <2>6, <4>1 DEF Continues
    <3>3. QED
      BY <3>1, <3>2
  <2>9. Len(P) <= Len(q) /\ Len(q) \in Nat /\ \A i \in 1..Len(P) : q[i] = P[i]
    <3>1. Len(P) <= Len(acc.pairs) /\ \A i \in 1..Len(P) : acc.pairs[i] = P[i]
      BY DEF Continues
    <3>2. \A i \in 1..Len(P) : i \in 1..Len(acc.pairs)
      BY <2>6, <3>1
    <3>3. QED
      BY <2>6, <3>1, <3>2
  <2>10. PICK n : n = ParseStep(acc, l)
    OBVIOUS
  <2>11. n = [section |-> acc.section, open |-> None, pairs |-> q]
    BY <2>4, <2>5, <2>10
  <2>12. n.open = None /\ n.pairs = q /\ n.section = acc.section
    BY <2>11
  <2>13. Continues(n, P, K)
    BY <2>6, <2>8, <2>9, <2>11, <2>12 DEF Continues
  <2>14. QED
    BY <2>10, <2>13
<1>11. QED
  BY <1>7, <1>8, <1>9, <1>10

\* The same of a line with the line breaks that its value holds
LEMMA LineContinues ==
  ASSUME NEW acc, NEW l, NEW P, NEW K, Len(P) \in Nat, Continues(acc, P, K),
         K = {} \/ (IsLine(l) /\ l.key \notin K /\ Breaks(l) = {})
  PROVE  Continues(ParseLine(acc, l), P, K)
<1>1. CASE Breaks(l) = {}
  <2>1. K = {} \/ (IsLine(l) /\ l.key \notin K)
    OBVIOUS
  <2>2. QED
    BY <1>1, <2>1, StepContinues DEF ParseLine
<1>2. CASE Breaks(l) # {}
  <2>1. K = {}
    BY <1>2
  <2>2. PICK a : a = ParseStep(acc, FirstLine(l))
    OBVIOUS
  <2>3. Continues(a, P, K)
    BY <2>1, <2>2, StepContinues
  <2>4. Continues(ParseStep(a, RestLine(l)), P, K)
    BY <2>1, <2>3, StepContinues
  <2>5. QED
    BY <1>2, <2>2, <2>4 DEF ParseLine
<1>3. QED
  BY <1>1, <1>2

\* A line with a key and a bare value
IsAnnotation(l) == IsLine(l) /\ Bare(l.val) /\ l.key # NoKey /\ ~IsSection(l)

\* The parser in the first section of a file, between two lines
InUnit(p) == [section |-> "[Unit]", open |-> None, pairs |-> p]

\* An annotation becomes a pair as it is.
LEMMA AnnotationStep ==
  ASSUME NEW p, NEW l, IsAnnotation(l)
  PROVE  ParseLine(InUnit(p), l) = InUnit(Append(p, <<"[Unit]", l>>))
<1>1. PICK acc : acc = InUnit(p)
  OBVIOUS
<1>2. acc = [section |-> "[Unit]", open |-> None, pairs |-> p]
  BY <1>1 DEF InUnit
<1>3. acc.section = "[Unit]" /\ acc.open = None /\ acc.pairs = p
  BY <1>2
<1>4. "[Unit]" # None
  BY UnitsConstants
<1>5. Trim(l.val) = l.val /\ ~HasUnescapedTrailingBackslash(l.val) /\ Breaks(l) = {}
  BY BareValue DEF IsAnnotation, Breaks
<1>6. l = [key |-> l.key, val |-> l.val, ref |-> l.ref]
  BY DEF IsAnnotation, IsLine
<1>7. [l EXCEPT !.val = l.val] = l
  BY <1>6
<1>8. PICK q : q = Append(p, <<"[Unit]", l>>)
  OBVIOUS
<1>9. ParseStep(acc, l) = [acc EXCEPT !.open = None, !.pairs = q]
  <2>1. ParseStep(acc, l) = [acc EXCEPT !.open = None,
           !.pairs = Append(@, <<acc.section, [l EXCEPT !.val = Trim(l.val)]>>)]
    BY <1>3, <1>4, <1>5 DEF ParseStep, IsAnnotation
  <2>2. ParseStep(acc, l) = [acc EXCEPT !.open = None, !.pairs = Append(@, <<"[Unit]", l>>)]
    BY <1>3, <1>5, <1>7, <2>1
  <2>3. QED
    BY <1>3, <1>8, <2>2
<1>10. ParseStep(acc, l) = [section |-> "[Unit]", open |-> None, pairs |-> q]
  BY <1>2, <1>9
<1>11. QED
  BY <1>1, <1>5, <1>8, <1>10 DEF ParseLine, InUnit

\* What is parsed of a file whose first m lines are a header and annotations
Parsed(unit, body, m, K) ==
  /\ Sq(unit) /\ Len(unit) \in Nat /\ m - 1 <= Len(unit)
  /\ \A i \in 1..(m - 1) : unit[i] = <<"[Unit]", body[i + 1]>>
  /\ \A i \in m..Len(unit) : unit[i][2].key \notin K

\* Annotations are parsed in place, and what follows them does not touch their keys.
LEMMA AnnotationsParsed ==
  ASSUME NEW body, Len(body) \in Nat, NEW m \in 1..Len(body), NEW K,
         body[1] = Section("[Unit]"),
         \A i \in 2..m : IsAnnotation(body[i]),
         \A i \in (m + 1)..Len(body) :
           K = {} \/ (IsLine(body[i]) /\ body[i].key \notin K /\ Breaks(body[i]) = {})
  PROVE  Parsed(ParsedUnit(body), body, m, K)
<1>1. PICK a : /\ ParsedUnit(body) = a[Len(body)].pairs
               /\ a[0] = ParseStart
               /\ \A i \in 1..Len(body) : a[i] = ParseLine(a[i - 1], body[i])
  BY ParseRuns
<1>2. a[1] = InUnit(<<>>)
  <2>1. PICK l : l = Section("[Unit]")
    OBVIOUS
  <2>2. a[1] = ParseLine(ParseStart, l)
    BY <1>1, <2>1
  <2>3. l.key = "[Unit]" /\ l.val = <<>>
    BY <2>1 DEF Section, Line
  <2>4. Bare(<<>>)
    BY EmptySeq DEF Bare, Sq, Symbols, ToSet
  <2>5. Breaks(l) = {} /\ ~HasUnescapedTrailingBackslash(l.val)
    BY <2>3, <2>4, BareValue DEF Breaks
  <2>6. IsSection(l)
    BY <2>3 DEF IsSection
  <2>7. ParseStart.open = None
    BY DEF ParseStart
  <2>8. ParseLine(ParseStart, l) = [ParseStart EXCEPT !.open = None, !.section = "[Unit]"]
    BY <2>3, <2>5, <2>6, <2>7 DEF ParseLine, ParseStep
  <2>9. QED
    BY <2>2, <2>8 DEF ParseStart, InUnit
<1> DEFINE Pairs(p, i) == /\ Sq(p) /\ Len(p) = i - 1
                          /\ \A j \in 1..(i - 1) : p[j] = <<"[Unit]", body[j + 1]>>
           Good(i) == \E p : a[i] = InUnit(p) /\ Pairs(p, i)
           S == {i \in 1..m : Good(i)}
<1>3. Good(1)
  <2>1. Sq(<<>>) /\ Len(<<>>) = 1 - 1 /\ 1..(1 - 1) = {}
    BY EmptySeq DEF Sq
  <2>2. Pairs(<<>>, 1)
    BY <2>1
  <2> HIDE DEF Pairs
  <2>3. QED
    BY <1>2, <2>2
<1>4. ASSUME NEW i \in 2..m, Good(i - 1) PROVE Good(i)
  <2>1. PICK p : a[i - 1] = InUnit(p) /\ Pairs(p, i - 1)
    BY <1>4
  <2>2. PICK l : l = body[i]
    OBVIOUS
  <2>3. PICK e : e = <<"[Unit]", l>>
    OBVIOUS
  <2>4. PICK q : q = Append(p, e)
    OBVIOUS
  <2>5. a[i] = InUnit(q)
    <3>1. IsAnnotation(l)
      BY <2>2
    <3>2. ParseLine(InUnit(p), l) = InUnit(q)
      BY <2>3, <2>4, <3>1, AnnotationStep
    <3>3. i \in 1..Len(body)
      OBVIOUS
    <3>4. QED
      BY <1>1, <2>1, <2>2, <3>2, <3>3
  <2>6. IsAppend(q, p, e)
    BY <2>1, <2>4, AppendAny
  <2>7. Pairs(q, i)
    <3>1. Sq(q) /\ Len(q) = i - 1 /\ Len(p) = i - 2 /\ i - 2 \in Nat
      BY <2>1, <2>6 DEF IsAppend
    <3>2. ASSUME NEW j \in 1..(i - 1) PROVE q[j] = <<"[Unit]", body[j + 1]>>
      <4>1. CASE j = i - 1
        <5>1. j = Len(p) + 1 /\ j + 1 = i
          BY <3>1, <4>1
        <5>2. q[j] = e
          BY <2>6, <5>1 DEF IsAppend
        <5>3. QED
          BY <2>2, <2>3, <5>1, <5>2
      <4>2. CASE j # i - 1
        <5>1. j \in 1..(i - 2) /\ j \in 1..Len(p) /\ j \in 1..((i - 1) - 1)
          BY <3>1, <4>2
        <5>2. q[j] = p[j]
          BY <2>6, <5>1 DEF IsAppend
        <5>3. QED
          BY <2>1, <5>1, <5>2
      <4>3. QED
        BY <4>1, <4>2
    <3>3. QED
      BY <3>1, <3>2
  <2> HIDE DEF Pairs
  <2>8. QED
    BY <2>5, <2>7
<1>5. Good(m)
  <2> HIDE DEF Good
  <2>1. 1 \in S /\ \A i \in (1 + 1)..m : i - 1 \in S => i \in S
    BY <1>3, <1>4
  <2>2. \A i \in 1..m : i \in S
    <3> HIDE DEF S
    <3>1. 1 \in Nat /\ m \in Nat
      OBVIOUS
    <3>2. QED
      BY <2>1, <3>1, UpTo
  <2>3. QED
    BY <2>2
<1>6. PICK P : a[m] = InUnit(P) /\ Pairs(P, m)
  BY <1>5
<1>7. Len(P) = m - 1 /\ m - 1 \in Nat
  BY <1>6
<1> HIDE DEF Good, S
<1> DEFINE T == {i \in m..Len(body) : Continues(a[i], P, K)}
<1>8. Continues(a[m], P, K)
  <2>1. PICK acc : acc = a[m]
    OBVIOUS
  <2>2. acc = [section |-> "[Unit]", open |-> None, pairs |-> P]
    BY <1>6, <2>1 DEF InUnit
  <2>3. acc.section = "[Unit]" /\ acc.open = None /\ acc.pairs = P
    BY <2>2
  <2>4. Continues(acc, P, K)
    <3>1. Sq(P)
      BY <1>6
    <3>2. (Len(P) + 1)..Len(P) = {}
      BY <1>7
    <3> HIDE DEF Pairs
    <3>3. QED
      BY <1>7, <2>2, <2>3, <3>1, <3>2 DEF Continues
  <2>5. QED
    BY <2>1, <2>4
<1> HIDE DEF Pairs
<1>9. ASSUME NEW i \in (m + 1)..Len(body), Continues(a[i - 1], P, K) PROVE Continues(a[i], P, K)
  <2>1. K = {} \/ (IsLine(body[i]) /\ body[i].key \notin K /\ Breaks(body[i]) = {})
    OBVIOUS
  <2>2. Len(P) \in Nat
    BY <1>7
  <2>3. Continues(ParseLine(a[i - 1], body[i]), P, K)
    BY <1>9, <2>1, <2>2, LineContinues
  <2>4. i \in 1..Len(body)
    OBVIOUS
  <2>5. QED
    BY <1>1, <2>3, <2>4
<1>10. Continues(a[Len(body)], P, K)
  <2>1. m \in T /\ \A i \in (m + 1)..Len(body) : i - 1 \in T => i \in T
    BY <1>8, <1>9
  <2>2. \A i \in m..Len(body) : i \in T
    <3> HIDE DEF T
    <3>1. m \in Nat
      OBVIOUS
    <3>2. QED
      BY <2>1, <3>1, UpTo
  <2>3. QED
    BY <2>2
<1>11. PICK unit : unit = ParsedUnit(body)
  OBVIOUS
<1>12. /\ Sq(unit) /\ Len(unit) \in Nat /\ Len(P) <= Len(unit)
       /\ \A i \in 1..Len(P) : unit[i] = P[i]
       /\ \A i \in (Len(P) + 1)..Len(unit) : unit[i][2].key \notin K
  BY <1>1, <1>10, <1>11 DEF Continues
<1>13. \A i \in 1..(m - 1) : P[i] = <<"[Unit]", body[i + 1]>>
  BY <1>6 DEF Pairs
<1>14. (Len(P) + 1) = m
  BY <1>7
<1>15. QED
  BY <1>7, <1>11, <1>12, <1>13, <1>14 DEF Parsed

\* An annotation that was not written is not found.
LEMMA AnnotationMissing ==
  ASSUME NEW unit, NEW body, NEW m \in Nat, NEW K, Parsed(unit, body, m, K),
         NEW key \in K, \A j \in 2..m : body[j].key # key
  PROVE  Final(unit, key) = Line(key, None)
<1>0. Len(unit) \in Nat /\ m - 1 <= Len(unit)
  BY DEF Parsed
<1>1. DOMAIN unit = 1..Len(unit)
  BY ElementsOf DEF Parsed, Sq
<1>2. ASSUME NEW j \in Places(unit, key) PROVE FALSE
  <2>1. j \in 1..Len(unit) /\ unit[j][2].key = key
    BY <1>1 DEF Places
  <2>2. CASE j < m
    <3>1. j \in 1..(m - 1) /\ j + 1 \in 2..m
      BY <1>0, <2>1, <2>2
    <3>2. unit[j] = <<"[Unit]", body[j + 1]>>
      BY <3>1 DEF Parsed
    <3>3. QED
      BY <2>1, <3>1, <3>2
  <2>3. CASE ~(j < m)
    <3>1. j \in m..Len(unit)
      BY <1>0, <2>1, <2>3
    <3>2. QED
      BY <2>1, <3>1 DEF Parsed
  <2>4. QED
    BY <2>2, <2>3
<1>3. QED
  BY <1>2 DEF Final

\* The hash is the first line of a file after its header, whatever follows it.
LEMMA HashFound ==
  ASSUME NEW body, Len(body) \in Nat, Len(body) >= 2, NEW h,
         body[1] = Section("[Unit]"), body[2] = Digest("X-Ghars-Spec-Hash", h)
  PROVE  DiscoveredHash(ParsedUnit(body)) = h
<1>1. PICK unit : unit = ParsedUnit(body)
  OBVIOUS
<1>2. IsAnnotation(body[2])
  <2>1. PICK l : l = body[2]
    OBVIOUS
  <2>2. l = [key |-> "X-Ghars-Spec-Hash", val |-> <<>>, ref |-> h]
    BY <2>1 DEF Digest
  <2>3. l.key = "X-Ghars-Spec-Hash" /\ l.val = <<>> /\ l.ref = h
    BY <2>2
  <2>4. Bare(<<>>)
    BY EmptySeq DEF Bare, Sq, Symbols, ToSet
  <2>5. "X-Ghars-Spec-Hash" # NoKey
    BY Zenon DEF NoKey
  <2>6. ~IsSection(l)
    BY <2>3 DEF IsSection
  <2>7. QED
    BY <2>1, <2>2, <2>3, <2>4, <2>5, <2>6 DEF IsAnnotation, IsLine
<1>3. Parsed(unit, body, 2, {})
  <2>1. 2 \in 1..Len(body) /\ \A i \in 2..2 : IsAnnotation(body[i])
    BY <1>2
  <2>2. QED
    BY <1>1, <2>1, AnnotationsParsed
<1>4. /\ Len(unit) \in Nat /\ 1 <= Len(unit) /\ DOMAIN unit = 1..Len(unit)
      /\ unit[1] = <<"[Unit]", body[2]>>
  <2>1. /\ Sq(unit) /\ Len(unit) \in Nat /\ 2 - 1 <= Len(unit)
        /\ \A i \in 1..(2 - 1) : unit[i] = <<"[Unit]", body[i + 1]>>
    BY <1>3 DEF Parsed
  <2>2. DOMAIN unit = 1..Len(unit)
    BY <2>1, ElementsOf DEF Sq
  <2>3. QED
    BY <2>1, <2>2
<1>5. body[2].key = "X-Ghars-Spec-Hash" /\ body[2].ref = h
  BY DEF Digest
<1> DEFINE places == Places(unit, "X-Ghars-Spec-Hash")
<1>6. 1 \in places /\ \A i \in places : i \in Nat /\ 1 <= i
  BY <1>4, <1>5 DEF Places
<1>7. Min(places) = 1
  <2> HIDE DEF places
  <2>1. \A x \in places : (\A y \in places : x <= y) => x = 1
    <3> SUFFICES ASSUME NEW x \in places, \A y \in places : x <= y PROVE x = 1
      OBVIOUS
    <3>1. x \in Nat /\ 1 <= x /\ x <= 1
      BY <1>6
    <3>2. QED
      BY <3>1
  <2>2. QED
    BY <1>6, <2>1 DEF Min
<1>8. First(unit, "X-Ghars-Spec-Hash") = unit[1][2]
  BY <1>6, <1>7 DEF First
<1>9. unit[1][2] = body[2]
  BY <1>4
<1>10. QED
  BY <1>1, <1>5, <1>8, <1>9 DEF DiscoveredHash

-----------------------------------------------------------------------------
(* Texts joined and split *)

\* c is a with b behind it.
IsConcat(c, a, b) ==
  /\ Sq(c) /\ Len(a) \in Nat /\ Len(b) \in Nat /\ Len(c) = Len(a) + Len(b)
  /\ \A i \in 1..Len(a) : c[i] = a[i]
  /\ \A i \in 1..Len(b) : c[Len(a) + i] = b[i]
  /\ ToSet(c) = ToSet(a) \cup ToSet(b)

\* Sequences of anything are put together element by element.
LEMMA Concat ==
  ASSUME NEW a, NEW b, Sq(a), Sq(b)
  PROVE  IsConcat(a \o b, a, b)
<1> DEFINE X == ToSet(a) \cup ToSet(b)
<1>1. a \in Seq(X) /\ b \in Seq(X)
  BY SeqMonotonic DEF Sq
<1> HIDE DEF X
<1>2. Sq(a \o b) /\ ToSet(a \o b) = ToSet(a) \cup ToSet(b) /\ Len(a \o b) = Len(a) + Len(b)
  BY ConcatText
<1>3. \A i \in 1..Len(a) : (a \o b)[i] = a[i]
  BY <1>1, ConcatElements
<1>4. \A i \in 1..Len(b) : (a \o b)[Len(a) + i] = b[i]
  BY <1>1, ConcatElements
<1>5. Len(a) \in Nat /\ Len(b) \in Nat
  BY ElementsOf DEF Sq
<1>6. QED
  BY <1>2, <1>3, <1>4, <1>5 DEF IsConcat

\* Parts that hold the same, each at its place, are the same.
LEMMA SameCut ==
  ASSUME NEW v, NEW w, NEW m \in Nat, NEW n \in Nat, NEW d \in Int, \A i \in m..n : v[i] = w[i + d]
  PROVE  SubSeq(v, m, n) = SubSeq(w, m + d, n + d)
<1> DEFINE X == {v[i] : i \in m..n}
<1>1. PICK a : a = SubSeq(v, m, n)
  OBVIOUS
<1>2. PICK b : b = SubSeq(w, m + d, n + d)
  OBVIOUS
<1>3. \A i \in m..n : v[i] \in X
  OBVIOUS
<1>4. \A i \in (m + d)..(n + d) : w[i] = v[i - d] /\ i - d \in m..n
  <2> TAKE i \in (m + d)..(n + d)
  <2>1. i - d \in m..n /\ (i - d) + d = i
    OBVIOUS
  <2>2. QED
    BY <2>1
<1>5. \A i \in (m + d)..(n + d) : w[i] \in X
  BY <1>3, <1>4
<1> HIDE DEF X
<1>6. /\ a \in Seq(X) /\ Len(a) = IF m <= n THEN n - m + 1 ELSE 0
      /\ \A i \in 1..(n - m + 1) : a[i] = v[m + i - 1]
  BY <1>1, <1>3, SubSeqProperties
<1>7. /\ b \in Seq(X) /\ Len(b) = IF m + d <= n + d THEN (n + d) - (m + d) + 1 ELSE 0
      /\ \A i \in 1..((n + d) - (m + d) + 1) : b[i] = w[m + d + i - 1]
  <2>1. m + d \in Int /\ n + d \in Int
    OBVIOUS
  <2>2. QED
    BY <1>2, <1>5, <2>1, SubSeqProperties
<1>8. Len(a) = Len(b) /\ Len(a) \in Nat
  BY <1>6, <1>7
<1>9. ASSUME NEW i \in 1..Len(a) PROVE a[i] = b[i]
  <2>1. m <= n /\ Len(a) = n - m + 1
    BY <1>6
  <2>2. i \in 1..(n - m + 1) /\ i \in 1..((n + d) - (m + d) + 1) /\ m + i - 1 \in m..n
        /\ (m + i - 1) + d = m + d + i - 1
    BY <2>1
  <2>3. a[i] = v[m + i - 1] /\ b[i] = w[m + d + i - 1]
    BY <1>6, <1>7, <2>2
  <2>4. v[m + i - 1] = w[(m + i - 1) + d]
    BY <2>2
  <2>5. QED
    BY <2>2, <2>3, <2>4
<1>10. a = b
  BY <1>6, <1>7, <1>8, <1>9, SeqEqual
<1>11. QED
  BY <1>1, <1>2, <1>10

\* A text without the separator is not split.
LEMMA SplitOne ==
  ASSUME NEW t, Sq(t), NEW sep, sep \notin ToSet(t)
  PROVE  Split(t, sep) = {t}
<1>1. Len(t) \in Nat /\ \A i \in 1..Len(t) : t[i] # sep
  <2>1. Len(t) \in Nat /\ ToSet(t) = {t[i] : i \in 1..Len(t)}
    BY ElementsOf DEF Sq
  <2>2. QED
    BY <2>1
<1>2. ASSUME NEW p \in (0..Len(t)) \X (1..Len(t) + 1)
      PROVE  Between(t, sep, p[1], p[2]) <=> p = <<0, Len(t) + 1>>
  <2>1. PICK i \in 0..Len(t), j \in 1..Len(t) + 1 : p = <<i, j>>
    OBVIOUS
  <2>2. ASSUME Between(t, sep, i, j) PROVE i = 0 /\ j = Len(t) + 1
    BY <1>1, <2>2 DEF Between
  <2>3. Between(t, sep, 0, Len(t) + 1)
    BY <1>1 DEF Between
  <2>4. QED
    BY <2>1, <2>2, <2>3
<1>3. <<0, Len(t) + 1>> \in (0..Len(t)) \X (1..Len(t) + 1)
  BY <1>1
<1>4. SubSeq(t, 0 + 1, (Len(t) + 1) - 1) = t
  <2>1. 0 + 1 = 1 /\ (Len(t) + 1) - 1 = Len(t)
    BY <1>1
  <2>2. SubSeq(t, 1, Len(t)) = t
    BY SubSeqFull DEF Sq
  <2>3. QED
    BY <2>1, <2>2
<1> DEFINE E == {q \in (0..Len(t)) \X (1..Len(t) + 1) : Between(t, sep, q[1], q[2])}
<1>5. E = {<<0, Len(t) + 1>>}
  BY <1>2, <1>3
<1>6. Split(t, sep) = {SubSeq(t, p[1] + 1, p[2] - 1) : p \in E}
  BY DEF Split
<1> HIDE DEF E
<1>7. QED
  BY <1>4, <1>5, <1>6

\* What is behind one more separator is one more part.
LEMMA SplitMore ==
  ASSUME NEW u, Sq(u), NEW t, Sq(t), NEW sep, sep \notin ToSet(t)
  PROVE  Split(u \o <<sep>> \o t, sep) = Split(u, sep) \cup {t}
<1>0. PICK v : v = u \o <<sep>> \o t
  OBVIOUS
<1>1. Len(u) \in Nat /\ Len(t) \in Nat /\ \A i \in 1..Len(t) : t[i] # sep
  <2>1. Len(u) \in Nat /\ Len(t) \in Nat /\ ToSet(t) = {t[i] : i \in 1..Len(t)}
    BY ElementsOf DEF Sq
  <2>2. QED
    BY <2>1
<1>2. /\ Len(v) = Len(u) + 1 + Len(t)
      /\ \A i \in 1..Len(u) : v[i] = u[i]
      /\ v[Len(u) + 1] = sep
      /\ \A i \in 1..Len(t) : v[Len(u) + 1 + i] = t[i]
  <2>2. PICK x : x = <<sep>>
    OBVIOUS
  <2>3. Sq(x) /\ Len(x) = 1 /\ x[1] = sep
    BY <2>2, SymbolText
  <2>4. PICK y : y = u \o x
    OBVIOUS
  <2>5. IsConcat(y, u, x)
    BY <2>3, <2>4, Concat
  <2>6. v = y \o t
    BY <1>0, <2>2, <2>4
  <2>7. IsConcat(v, y, t)
    <3>1. Sq(y)
      BY <2>5 DEF IsConcat
    <3>2. QED
      BY <2>6, <3>1, Concat
  <2>8. Len(y) = Len(u) + 1 /\ y[Len(u) + 1] = sep
    <3>1. 1 \in 1..Len(x)
      BY <2>3
    <3>2. QED
      BY <2>3, <2>5, <3>1 DEF IsConcat
  <2>9. \A i \in 1..Len(u) : v[i] = u[i]
    BY <1>1, <2>5, <2>7, <2>8 DEF IsConcat
  <2>10. Len(u) + 1 \in 1..Len(y)
    BY <1>1, <2>8
  <2>11. QED
    BY <2>7, <2>8, <2>9, <2>10 DEF IsConcat
<1> DEFINE B(w, i, j) == Between(w, sep, i, j)
           L == Len(u)
           N == Len(v)
<1>3. ASSUME NEW i \in 0..L, NEW j \in 1..(L + 1)
      PROVE  /\ B(u, i, j) <=> B(v, i, j)
             /\ B(u, i, j) => SubSeq(u, i + 1, j - 1) = SubSeq(v, i + 1, j - 1)
  <2>1. i = 0 \/ v[i] = u[i]
    BY <1>2
  <2>2. j = L + 1 \/ v[j] = u[j]
    BY <1>2
  <2>3. j # N + 1 /\ v[L + 1] = sep
    BY <1>1, <1>2
  <2>4. \A k \in (i + 1)..(j - 1) : v[k] = u[k]
    BY <1>1, <1>2
  <2>5. B(u, i, j) <=> B(v, i, j)
    BY <2>1, <2>2, <2>3, <2>4 DEF Between
  <2>6. SubSeq(u, i + 1, j - 1) = SubSeq(v, i + 1, j - 1)
    <3>1. PICK m \in Nat : m = i + 1
      OBVIOUS
    <3>2. PICK n \in Nat : n = j - 1
      OBVIOUS
    <3>3. \A k \in m..n : u[k] = v[k + 0]
      BY <2>4, <3>1, <3>2
    <3>4. SubSeq(u, m, n) = SubSeq(v, m + 0, n + 0)
      BY <3>3, SameCut
    <3>5. m + 0 = m /\ n + 0 = n
      OBVIOUS
    <3>6. QED
      BY <3>1, <3>2, <3>4, <3>5
  <2>7. QED
    BY <2>5, <2>6
<1>4. ASSUME NEW i \in 0..N, NEW j \in 1..(N + 1), ~(i \in 0..L /\ j \in 1..(L + 1))
      PROVE  B(v, i, j) <=> i = L + 1 /\ j = N + 1
  <2>1. ASSUME B(v, i, j) PROVE i = L + 1 /\ j = N + 1
    <3>1. i < j /\ \A k \in (i + 1)..(j - 1) : v[k] # sep
      BY <2>1 DEF Between
    <3>2. j > L + 1
      BY <1>1, <1>2, <1>4, <3>1
    <3>3. i >= L + 1
      <4> SUFFICES ASSUME ~(i >= L + 1) PROVE FALSE
        OBVIOUS
      <4>1. L + 1 \in (i + 1)..(j - 1)
        BY <1>1, <3>2
      <4>2. QED
        BY <1>2, <3>1, <4>1
    <3>4. i = L + 1
      <4> SUFFICES ASSUME i # L + 1 PROVE FALSE
        OBVIOUS
      <4>1. i - (L + 1) \in 1..Len(t) /\ i # 0 /\ L + 1 + (i - (L + 1)) = i
        BY <1>1, <1>2, <3>3
      <4>2. v[i] # sep
        BY <1>1, <1>2, <4>1
      <4>3. QED
        BY <2>1, <4>1, <4>2 DEF Between
    <3>5. j = N + 1
      <4> SUFFICES ASSUME j # N + 1 PROVE FALSE
        OBVIOUS
      <4>0. N = L + 1 + Len(t) /\ L \in Nat /\ Len(t) \in Nat
        BY <1>1, <1>2
      <4> HIDE DEF L, N
      <4>1. j - (L + 1) \in 1..Len(t) /\ L + 1 + (j - (L + 1)) = j
        BY <3>2, <4>0
      <4> USE DEF L, N
      <4>2. v[j] # sep
        BY <1>1, <1>2, <4>1
      <4>3. QED
        BY <2>1, <4>2 DEF Between
    <3>6. QED
      BY <3>4, <3>5
  <2>2. ASSUME i = L + 1, j = N + 1 PROVE B(v, i, j)
    <3>1. v[i] = sep /\ i < j
      BY <1>1, <1>2, <2>2
    <3>2. ASSUME NEW k \in (i + 1)..(j - 1) PROVE v[k] # sep
      <4>1. k - (L + 1) \in 1..Len(t) /\ L + 1 + (k - (L + 1)) = k
        BY <1>1, <1>2, <2>2
      <4>2. QED
        BY <1>1, <1>2, <4>1, ZenonT(60)
    <3>3. QED
      BY <2>2, <3>1, <3>2 DEF Between
  <2>3. QED
    BY <2>1, <2>2
<1>5. SubSeq(v, (L + 1) + 1, (N + 1) - 1) = t
  <2>1. PICK m \in Nat : m = (L + 1) + 1
    BY <1>1
  <2>2. PICK n \in Nat : n = Len(t)
    BY <1>1
  <2>3. PICK d \in Int : d = L + 1
    BY <1>1
  <2>4. \A k \in 1..n : t[k] = v[k + d]
    <3> TAKE k \in 1..n
    <3>1. k + d = L + 1 + k /\ k \in 1..Len(t)
      BY <1>1, <2>2, <2>3
    <3>2. QED
      BY <1>2, <3>1
  <2>5. SubSeq(t, 1, n) = SubSeq(v, 1 + d, n + d)
    BY <2>4, SameCut
  <2>6. 1 + d = (L + 1) + 1 /\ n + d = (N + 1) - 1
    BY <1>1, <1>2, <2>2, <2>3
  <2>7. SubSeq(t, 1, n) = t
    BY <2>2, SubSeqFull DEF Sq
  <2>8. QED
    BY <2>5, <2>6, <2>7
<1> DEFINE cut(w, p) == SubSeq(w, p[1] + 1, p[2] - 1)
           E(w) == {q \in (0..Len(w)) \X (1..Len(w) + 1) : B(w, q[1], q[2])}
<1>6. Split(u, sep) = {cut(u, p) : p \in E(u)} /\ Split(v, sep) = {cut(v, p) : p \in E(v)}
  BY DEF Split
<1>7. \A p \in E(u) : p \in E(v) /\ cut(u, p) = cut(v, p)
  <2> TAKE p \in E(u)
  <2>1. PICK i \in 0..L, j \in 1..(L + 1) : p = <<i, j>> /\ B(u, i, j)
    OBVIOUS
  <2>2. i \in 0..N /\ j \in 1..(N + 1)
    BY <1>1, <1>2
  <2>3. B(v, i, j) /\ SubSeq(u, i + 1, j - 1) = SubSeq(v, i + 1, j - 1)
    BY <1>3, <2>1
  <2> HIDE DEF B
  <2>4. QED
    BY <2>1, <2>2, <2>3
<1>8. <<L + 1, N + 1>> \in E(v) /\ cut(v, <<L + 1, N + 1>>) = t
  <2>1. L + 1 \in 0..N /\ N + 1 \in 1..(N + 1) /\ ~(L + 1 \in 0..L /\ N + 1 \in 1..(L + 1))
    BY <1>1, <1>2
  <2>2. B(v, L + 1, N + 1)
    BY <1>4, <2>1
  <2> HIDE DEF B
  <2>3. QED
    BY <1>5, <2>1, <2>2
<1>9. \A p \in E(v) : p \in E(u) \/ p = <<L + 1, N + 1>>
  <2> TAKE p \in E(v)
  <2>1. PICK i \in 0..N, j \in 1..(N + 1) : p = <<i, j>> /\ B(v, i, j)
    OBVIOUS
  <2>2. CASE i \in 0..L /\ j \in 1..(L + 1)
    <3>1. B(u, i, j)
      BY <1>3, <2>1, <2>2
    <3> HIDE DEF B
    <3>2. QED
      BY <2>1, <2>2, <3>1
  <2>3. CASE ~(i \in 0..L /\ j \in 1..(L + 1))
    BY <1>4, <2>1, <2>3
  <2>4. QED
    BY <2>2, <2>3
<1> HIDE DEF E, cut, L, N
<1>10. {cut(v, p) : p \in E(v)} = {cut(u, p) : p \in E(u)} \cup {t}
  BY <1>7, <1>8, <1>9
<1>11. QED
  BY <1>0, <1>6, <1>10

\* Splitting undoes joining, for texts without the separator.
LEMMA SplitJoined ==
  ASSUME NEW texts, Sq(texts), texts # <<>>, NEW sep,
         \A i \in 1..Len(texts) : Sq(texts[i]) /\ sep \notin ToSet(texts[i])
  PROVE  Sq(JoinSeq(texts, sep)) /\ Split(JoinSeq(texts, sep), sep) = ToSet(texts)
<1>1. Len(texts) \in Nat \ {0} /\ ToSet(texts) = {texts[i] : i \in 1..Len(texts)}
  BY ElementsOf, EmptySeq DEF Sq
<1>2. PICK a : JoinRun(a, texts, sep)
  BY <1>1, JoinRuns
<1>3. /\ JoinSeq(texts, sep) = a[Len(texts)]
      /\ a[1] = texts[1]
      /\ \A i \in 2..Len(texts) : a[i] = a[i - 1] \o <<sep>> \o texts[i]
  BY <1>2 DEF JoinRun
<1> DEFINE Good(i) == Sq(a[i]) /\ Split(a[i], sep) = {texts[j] : j \in 1..i}
           S == {i \in 1..Len(texts) : Good(i)}
<1>4. Good(1)
  <2>1. Sq(texts[1]) /\ sep \notin ToSet(texts[1])
    BY <1>1
  <2>2. Split(texts[1], sep) = {texts[1]}
    BY <2>1, SplitOne
  <2>3. {texts[j] : j \in 1..1} = {texts[1]}
    <3>1. 1..1 = {1}
      OBVIOUS
    <3>2. QED
      BY <3>1
  <2>4. QED
    BY <1>3, <2>1, <2>2, <2>3
<1>5. ASSUME NEW i \in 2..Len(texts), Good(i - 1) PROVE Good(i)
  <2>1. PICK u : u = a[i - 1]
    OBVIOUS
  <2>2. PICK t : t = texts[i]
    OBVIOUS
  <2>3. Sq(u) /\ Split(u, sep) = {texts[j] : j \in 1..(i - 1)} /\ Sq(t) /\ sep \notin ToSet(t)
    BY <1>1, <1>5, <2>1, <2>2
  <2>4. PICK x : x = <<sep>>
    OBVIOUS
  <2>5. PICK y : y = u \o x
    OBVIOUS
  <2>6. Sq(y)
    <3>1. Sq(x)
      BY <2>4, SymbolText
    <3>2. QED
      BY <2>3, <2>5, <3>1, ConcatText
  <2>7. PICK w : w = y \o t
    OBVIOUS
  <2>8. Sq(w)
    BY <2>3, <2>6, <2>7, ConcatText
  <2>9. Split(w, sep) = Split(u, sep) \cup {t}
    <3>1. w = u \o <<sep>> \o t
      BY <2>4, <2>5, <2>7
    <3>2. QED
      BY <2>3, <3>1, SplitMore
  <2>10. {texts[j] : j \in 1..i} = {texts[j] : j \in 1..(i - 1)} \cup {t}
    <3>1. 1..i = (1..(i - 1)) \cup {i}
      BY <1>1
    <3>2. QED
      BY <2>2, <3>1, Zenon
  <2>11. a[i] = w
    BY <1>3, <2>1, <2>2, <2>4, <2>5, <2>7
  <2>12. QED
    BY <2>3, <2>8, <2>9, <2>10, <2>11
<1> HIDE DEF Good
<1>6. 1 \in S /\ \A i \in (1 + 1)..Len(texts) : i - 1 \in S => i \in S
  BY <1>1, <1>4, <1>5
<1>7. \A i \in 1..Len(texts) : i \in S
  <2> HIDE DEF S
  <2>1. QED
    BY <1>1, <1>6, UpTo
<1>8. Good(Len(texts))
  BY <1>1, <1>7
<1>9. QED
  BY <1>1, <1>3, <1>8 DEF Good

-----------------------------------------------------------------------------
(* The 00-ghars drop-in *)

\* A text that is one line
OneLine(v) == Sq(v) /\ "NL" \notin ToSet(v)

\* What can stand in a list that is joined with commas
Label(l) == l \in Text /\ Bare(l) /\ l # <<>> /\ Comma \notin ToSet(l)

\* What the texts of a spec that was written are like
Sound(s) ==
  /\ \A t \in {s.name, s.url, s.auth, s.zone, s.arch, s.version} : Bare(t) /\ t \notin {None, <<>>}
  /\ s.sha # None => Bare(s.sha)
  /\ IsFiniteSet(s.labels) /\ \A l \in s.labels : Label(l)
  /\ IsFiniteSet(s.caches) /\ \A b \in s.caches : Label(b.name)
  /\ s.network # None /\ s.network.spec.dns # None =>
       Sq(s.network.spec.dns) /\ \A a \in ToSet(s.network.spec.dns) : Bare(a)
  /\ IsFiniteSet(DOMAIN s.env.vars)
  /\ \A k \in DOMAIN s.env.vars : OneLine(k) /\ OneLine(s.env.vars[k])
  /\ Sq(s.env.prepend) /\ \A p \in ToSet(s.env.prepend) : OneLine(p)
  /\ Sq(s.env.append) /\ \A p \in ToSet(s.env.append) : OneLine(p)

\* One line and another make one line.
LEMMA OneLineConcat ==
  ASSUME NEW a, NEW b, OneLine(a), OneLine(b)
  PROVE  OneLine(a \o b)
<1>1. PICK c : c = a \o b
  OBVIOUS
<1>2. Sq(c) /\ ToSet(c) = ToSet(a) \cup ToSet(b)
  BY <1>1, ConcatText DEF OneLine
<1>3. QED
  BY <1>1, <1>2 DEF OneLine

\* A bare text is one line.
LEMMA BareOneLine ==
  ASSUME NEW v, Bare(v)
  PROVE  OneLine(v)
  BY DEF Bare, OneLine, Symbols, White

\* The home of a runner and of its binaries are one line each.
LEMMA PathsOneLine ==
  ASSUME NEW s, Sound(s)
  PROVE  OneLine(Home(s)) /\ OneLine(Bin(s))
<1>1. OneLine(s.zone) /\ OneLine(s.name) /\ OneLine(s.version) /\ s.version # None
  BY BareOneLine DEF Sound
<1>2. PICK slash : slash = <<"/">>
  OBVIOUS
<1>3. OneLine(slash)
  <2>1. Sq(slash) /\ ToSet(slash) = {"/"}
    BY <1>2, SymbolText
  <2>2. QED
    BY <2>1 DEF OneLine
<1>4. PICK a : a = slash \o s.zone
  OBVIOUS
<1>5. PICK b : b = a \o slash
  OBVIOUS
<1>6. PICK c : c = b \o s.name
  OBVIOUS
<1>7. PICK d : d = c \o slash
  OBVIOUS
<1>8. OneLine(a)
  BY <1>1, <1>3, <1>4, OneLineConcat
<1>9. OneLine(b)
  BY <1>3, <1>5, <1>8, OneLineConcat
<1>10. OneLine(c)
  BY <1>1, <1>6, <1>9, OneLineConcat
<1>11. OneLine(d)
  BY <1>3, <1>7, <1>10, OneLineConcat
<1>12. d = Home(s)
  BY <1>2, <1>4, <1>5, <1>6, <1>7 DEF Home
<1>13. PICK bin : bin = <<"bin.">>
  OBVIOUS
<1>14. OneLine(bin)
  <2>1. Sq(bin) /\ ToSet(bin) = {"bin."}
    BY <1>13, SymbolText
  <2>2. QED
    BY <2>1 DEF OneLine
<1>15. PICK e : e = d \o bin
  OBVIOUS
<1>16. OneLine(e)
  BY <1>11, <1>14, <1>15, OneLineConcat
<1>17. PICK v : v = s.version
  OBVIOUS
<1>18. OneLine(e \o v)
  BY <1>1, <1>16, <1>17, OneLineConcat
<1>19. e \o v = Bin(s)
  BY <1>1, <1>12, <1>13, <1>15, <1>17 DEF Bin
<1>20. QED
  BY <1>11, <1>12, <1>18, <1>19

\* A value in which each percent sign is doubled is one line if it was one.
LEMMA EscapeOneLine ==
  ASSUME NEW v, OneLine(v)
  PROVE  OneLine(Escape(v))
<1>1. Len(v) \in Nat /\ DOMAIN v = 1..Len(v) /\ ToSet(v) = {v[i] : i \in 1..Len(v)}
  BY ElementsOf DEF OneLine, Sq
<1> DEFINE X == {"%"} \cup ToSet(v)
           e(i) == IF v[i] = "%" THEN <<"%", "%">> ELSE <<v[i]>>
<1>2. PICK q : q = [i \in 1..Len(v) |-> e(i)]
  OBVIOUS
<1>3. \A i \in 1..Len(v) : e(i) \in Seq(X)
  <2> TAKE i \in 1..Len(v)
  <2>1. v[i] \in X /\ "%" \in X
    BY <1>1
  <2>2. <<v[i]>> \in Seq(X) /\ <<"%", "%">> \in Seq(X)
    BY <2>1
  <2>3. QED
    BY <2>2
<1> HIDE DEF e, X
<1>4. q \in Seq(Seq(X)) /\ Len(q) = Len(v)
  BY <1>1, <1>2, <1>3, IsASeq
<1>5. FlattenSeq(q) \in Seq(X)
  BY <1>4, FlattenedElements
<1>6. Escape(v) = FlattenSeq(q)
  BY <1>1, <1>2 DEF Escape, e
<1>7. "NL" \notin X
  BY DEF X, OneLine
<1>8. QED
  BY <1>5, <1>6, <1>7, ElementsOf, SqOf DEF OneLine

\* What the annotations of a runner are read back by
AnnotationKeys ==
  {"X-Ghars-Runner-Url", "X-Ghars-Auth-Name", "X-Ghars-Labels", "X-Ghars-Arch", "X-Ghars-Caches",
   "X-Ghars-Effective-Version", "X-Ghars-Runner-Sha256", "X-Ghars-Runner-Tarball-Hash",
   "X-Ghars-Trust-Zone", "X-Ghars-Network-Mode", "X-Ghars-Dns", "X-Ghars-Ipv6"}

\* A line that has no annotation
Quiet(l) == IsLine(l) /\ l.key \notin AnnotationKeys /\ Breaks(l) = {}

\* The fields of a line
LEMMA LineFields ==
  ASSUME NEW k, NEW v
  PROVE  /\ IsLine(Line(k, v)) /\ Line(k, v).key = k /\ Line(k, v).val = v /\ Line(k, v).ref = None
         /\ IsLine(Digest(k, v)) /\ Digest(k, v).key = k /\ Digest(k, v).val = <<>>
         /\ Digest(k, v).ref = v
  BY DEF Line, Digest, IsLine

\* A line of another key whose value is one line has no annotation.
LEMMA QuietLine ==
  ASSUME NEW k, NEW v, OneLine(v), k \notin AnnotationKeys
  PROVE  Quiet(Line(k, v))
<1>1. PICK l : l = Line(k, v)
  OBVIOUS
<1>2. IsLine(l) /\ l.key = k /\ l.val = v
  BY <1>1, LineFields
<1>3. \A i \in DOMAIN v : v[i] # "NL"
  BY DEF OneLine, ToSet
<1>4. QED
  BY <1>1, <1>2, <1>3 DEF Quiet, Breaks

\* A list of two elements written out
LEMMA PairElements ==
  ASSUME NEW a, NEW b
  PROVE  Sq(<<a, b>>) /\ ToSet(<<a, b>>) = {a, b} /\ Len(<<a, b>>) = 2
  BY DEF ToSet, Sq

\* A list of eight
LEMMA OctetElements ==
  ASSUME NEW a, NEW b, NEW c, NEW d, NEW e, NEW f, NEW g, NEW h
  PROVE  /\ Sq(<<a, b, c, d, e, f, g, h>>) /\ <<a, b, c, d, e, f, g, h>>[1] = a
         /\ ToSet(<<a, b, c, d, e, f, g, h>>) = {a, b, c, d, e, f, g, h}
         /\ Len(<<a, b, c, d, e, f, g, h>>) = 8
  BY DEF ToSet, Sq

-----------------------------------------------------------------------------
(* The unit file of a runner *)

\* Joined texts hold nothing that none of them and not the separator holds.
LEMMA JoinedWithout ==
  ASSUME NEW texts, Sq(texts), NEW sep, NEW Bad, sep \notin Bad,
         \A t \in ToSet(texts) : Sq(t) /\ ToSet(t) \cap Bad = {}
  PROVE  Sq(JoinSeq(texts, sep)) /\ ToSet(JoinSeq(texts, sep)) \cap Bad = {}
<1> DEFINE A == {sep} \cup UNION {ToSet(t) : t \in ToSet(texts)}
<1>1. ToSet(texts) = {texts[i] : i \in 1..Len(texts)}
  BY ElementsOf DEF Sq
<1>2. \A i \in 1..Len(texts) : Sq(texts[i]) /\ ToSet(texts[i]) \subseteq A
  BY <1>1
<1>3. sep \in A /\ A \cap Bad = {}
  OBVIOUS
<1> HIDE DEF A
<1>4. Sq(JoinSeq(texts, sep)) /\ ToSet(JoinSeq(texts, sep)) \subseteq A
  BY <1>2, <1>3, JoinedText
<1>5. QED
  BY <1>3, <1>4

\* The PATH of a runner is one line.
LEMMA PathOneLine ==
  ASSUME NEW s, Sound(s)
  PROVE  OneLine(JoinSeq(ComposeRunnerPath(s), ":"))
<1>1. PICK a : a = << <<"/", "ccache">> >>
  OBVIOUS
<1>2. Sq(a) /\ \A t \in ToSet(a) : OneLine(t)
  <2>1. PICK t : t = <<"/", "ccache">>
    OBVIOUS
  <2>2. OneLine(t)
    BY <2>1, PairElements DEF OneLine
  <2>3. Sq(a) /\ ToSet(a) = {t}
    BY <1>1, <2>1, SymbolText
  <2>4. QED
    BY <2>2, <2>3
<1>3. PICK p : p = s.env.prepend
  OBVIOUS
<1>4. Sq(p) /\ \A t \in ToSet(p) : OneLine(t)
  BY <1>3 DEF Sound
<1>5. PICK c : c = << Home(s) \o <<".cargo">> >>
  OBVIOUS
<1>6. Sq(c) /\ \A t \in ToSet(c) : OneLine(t)
  <2>1. PICK x : x = <<".cargo">>
    OBVIOUS
  <2>2. OneLine(x)
    BY <2>1, SymbolText DEF OneLine
  <2>3. PICK t : t = Home(s) \o x
    OBVIOUS
  <2>4. OneLine(t)
    BY <2>2, <2>3, PathsOneLine, OneLineConcat
  <2>5. Sq(c) /\ ToSet(c) = {t}
    BY <1>5, <2>1, <2>3, SymbolText
  <2>6. QED
    BY <2>4, <2>5
<1>7. PICK d : d = << <<"/", "usr">> >>
  OBVIOUS
<1>8. Sq(d) /\ \A t \in ToSet(d) : OneLine(t)
  <2>1. PICK t : t = <<"/", "usr">>
    OBVIOUS
  <2>2. OneLine(t)
    BY <2>1, PairElements DEF OneLine
  <2>3. Sq(d) /\ ToSet(d) = {t}
    BY <1>7, <2>1, SymbolText
  <2>4. QED
    BY <2>2, <2>3
<1>9. PICK q : q = s.env.append
  OBVIOUS
<1>10. Sq(q) /\ \A t \in ToSet(q) : OneLine(t)
  BY <1>9 DEF Sound
<1>11. PICK x : x = a \o p
  OBVIOUS
<1>12. Sq(x) /\ \A t \in ToSet(x) : OneLine(t)
  BY <1>2, <1>4, <1>11, ConcatText
<1>13. PICK y : y = x \o c
  OBVIOUS
<1>14. Sq(y) /\ \A t \in ToSet(y) : OneLine(t)
  BY <1>6, <1>12, <1>13, ConcatText
<1>15. PICK z : z = y \o d
  OBVIOUS
<1>16. Sq(z) /\ \A t \in ToSet(z) : OneLine(t)
  BY <1>8, <1>14, <1>15, ConcatText
<1>17. PICK w : w = z \o q
  OBVIOUS
<1>18. Sq(w) /\ \A t \in ToSet(w) : OneLine(t)
  BY <1>10, <1>16, <1>17, ConcatText
<1>19. w = ComposeRunnerPath(s)
  BY <1>1, <1>3, <1>5, <1>7, <1>9, <1>11, <1>13, <1>15, <1>17 DEF ComposeRunnerPath
<1>20. Sq(JoinSeq(w, ":")) /\ ToSet(JoinSeq(w, ":")) \cap {"NL"} = {}
  <2>1. ":" \notin {"NL"} /\ \A t \in ToSet(w) : Sq(t) /\ ToSet(t) \cap {"NL"} = {}
    BY <1>18 DEF OneLine
  <2>2. QED
    BY <1>18, <2>1, JoinedWithout
<1>21. QED
  BY <1>19, <1>20 DEF OneLine

\* The assignments of a runner's variables are lines without annotations.
LEMMA AssignmentsQuiet ==
  ASSUME NEW s, Sound(s)
  PROVE  Sq(EnvAssignments(s)) /\ \A l \in ToSet(EnvAssignments(s)) : Quiet(l)
<1> DEFINE D == DOMAIN s.env.vars
<1>1. PICK keys : keys = SetToSeq(D)
  OBVIOUS
<1>2. keys \in Seq(D)
  <2>1. IsFiniteSet(D)
    BY DEF Sound
  <2> HIDE DEF D
  <2>2. QED
    BY <1>1, <2>1, SetAsSeq
<1>3. Len(keys) \in Nat /\ DOMAIN keys = 1..Len(keys) /\ \A i \in 1..Len(keys) : keys[i] \in D
  BY <1>2, LenProperties, ElementOfSeq
<1> DEFINE text(k) == k \o <<"=">> \o Escape(s.env.vars[k])
           T == {Line("Environment", text(k)) : k \in D}
<1>4. ASSUME NEW k \in D PROVE Quiet(Line("Environment", text(k)))
  <2>1. OneLine(k) /\ OneLine(s.env.vars[k])
    BY DEF Sound
  <2>2. PICK v : v = Escape(s.env.vars[k])
    OBVIOUS
  <2>3. OneLine(v)
    BY <2>1, <2>2, EscapeOneLine
  <2>4. PICK x : x = <<"=">>
    OBVIOUS
  <2>5. OneLine(x)
    BY <2>4, SymbolText DEF OneLine
  <2>6. PICK y : y = k \o x
    OBVIOUS
  <2>7. OneLine(y)
    BY <2>1, <2>5, <2>6, OneLineConcat
  <2>8. OneLine(y \o v)
    BY <2>3, <2>7, OneLineConcat
  <2>9. text(k) = y \o v
    BY <2>2, <2>4, <2>6
  <2>10. "Environment" \notin AnnotationKeys
    BY DEF AnnotationKeys
  <2> HIDE DEF text
  <2>11. QED
    BY <2>8, <2>9, <2>10, QuietLine
<1>5. EnvAssignments(s) = [i \in 1..Len(keys) |-> Line("Environment", text(keys[i]))]
  BY <1>1, <1>3 DEF EnvAssignments
<1> HIDE DEF text
<1>6. \A i \in 1..Len(keys) : Line("Environment", text(keys[i])) \in T
  BY <1>3
<1>7. \A l \in T : Quiet(l)
  BY <1>4
<1> HIDE DEF T
<1>8. EnvAssignments(s) \in Seq(T)
  BY <1>3, <1>5, <1>6, IsASeq
<1>9. ToSet(EnvAssignments(s)) \subseteq T
  BY <1>8, ElementsOf
<1>10. QED
  BY <1>7, <1>8, <1>9, SqOf

\* The settings that follow the annotations have none.
LEMMA ServiceQuiet ==
  ASSUME NEW s, Sound(s)
  PROVE  Sq(IdentityService(s)) /\ \A l \in ToSet(IdentityService(s)) : Quiet(l)
<1>0. OneLine(<<>>)
  BY EmptySeq DEF OneLine, Sq, ToSet
<1>1. PICK l1 : l1 = Section("[Service]")
  OBVIOUS
<1>2. PICK l2 : l2 = Line("User", s.zone)
  OBVIOUS
<1>3. PICK l3 : l3 = Line("BindPaths", <<"/">> \o s.zone)
  OBVIOUS
<1>4. PICK l4 : l4 = Line("WorkingDirectory", Bin(s))
  OBVIOUS
<1>5. PICK l5 : l5 = Line("ExecStart", <<>>)
  OBVIOUS
<1>6. PICK l6 : l6 = Line("ExecStart", Bin(s))
  OBVIOUS
<1>7. PICK l7 : l7 = Line("Environment", <<"HOME", "=">> \o Home(s))
  OBVIOUS
<1>8. PICK l8 : l8 = Line("Environment", <<"PATH", "=">> \o JoinSeq(ComposeRunnerPath(s), ":"))
  OBVIOUS
<1>9. PICK m1 : m1 = Section("[Unit]")
  OBVIOUS
<1>10. PICK m2 : m2 = Line("ConditionPathExists", Bin(s))
  OBVIOUS
<1>11. OneLine(Bin(s)) /\ OneLine(Home(s)) /\ OneLine(s.zone)
  BY PathsOneLine, BareOneLine DEF Sound
<1>12. Quiet(l1) /\ Quiet(m1)
  <2>1. "[Service]" \notin AnnotationKeys /\ "[Unit]" \notin AnnotationKeys
    BY DEF AnnotationKeys
  <2>2. QED
    BY <1>0, <1>1, <1>9, <2>1, QuietLine DEF Section
<1>13. Quiet(l2) /\ Quiet(l4) /\ Quiet(l5) /\ Quiet(l6) /\ Quiet(m2)
  <2>1. /\ "User" \notin AnnotationKeys /\ "WorkingDirectory" \notin AnnotationKeys
        /\ "ExecStart" \notin AnnotationKeys /\ "ConditionPathExists" \notin AnnotationKeys
    BY DEF AnnotationKeys
  <2>2. QED
    BY <1>0, <1>2, <1>4, <1>5, <1>6, <1>10, <1>11, <2>1, QuietLine
<1>14. Quiet(l3)
  <2>1. PICK x : x = <<"/">>
    OBVIOUS
  <2>2. OneLine(x)
    BY <2>1, SymbolText DEF OneLine
  <2>3. OneLine(x \o s.zone)
    BY <1>11, <2>2, OneLineConcat
  <2>4. "BindPaths" \notin AnnotationKeys
    BY DEF AnnotationKeys
  <2>5. QED
    BY <1>3, <2>1, <2>3, <2>4, QuietLine
<1>15. "Environment" \notin AnnotationKeys
  BY DEF AnnotationKeys
<1>16. Quiet(l7)
  <2>1. PICK x : x = <<"HOME", "=">>
    OBVIOUS
  <2>2. OneLine(x)
    BY <2>1, PairElements DEF OneLine
  <2>3. OneLine(x \o Home(s))
    BY <1>11, <2>2, OneLineConcat
  <2>4. QED
    BY <1>7, <1>15, <2>1, <2>3, QuietLine
<1>17. Quiet(l8)
  <2>1. PICK x : x = <<"PATH", "=">>
    OBVIOUS
  <2>2. OneLine(x)
    BY <2>1, PairElements DEF OneLine
  <2>3. PICK p : p = JoinSeq(ComposeRunnerPath(s), ":")
    OBVIOUS
  <2>4. OneLine(x \o p)
    BY <2>2, <2>3, PathOneLine, OneLineConcat
  <2>5. QED
    BY <1>8, <1>15, <2>1, <2>3, <2>4, QuietLine
<1>18. PICK a : a = <<l1, l2, l3, l4, l5, l6, l7, l8>>
  OBVIOUS
<1>19. Sq(a) /\ ToSet(a) = {l1, l2, l3, l4, l5, l6, l7, l8}
  BY <1>18, OctetElements
<1>20. PICK b : b = EnvAssignments(s)
  OBVIOUS
<1>21. PICK c : c = <<m1, m2>>
  OBVIOUS
<1>22. Sq(c) /\ ToSet(c) = {m1, m2}
  BY <1>21, PairElements
<1>23. PICK d : d = a \o b
  OBVIOUS
<1>24. Sq(d) /\ \A l \in ToSet(d) : Quiet(l)
  <2>1. Sq(b) /\ \A l \in ToSet(b) : Quiet(l)
    BY <1>20, AssignmentsQuiet
  <2>2. \A l \in ToSet(a) : Quiet(l)
    BY <1>12, <1>13, <1>14, <1>16, <1>17, <1>19
  <2>3. QED
    BY <1>19, <1>23, <2>1, <2>2, ConcatText
<1>25. Sq(d \o c) /\ \A l \in ToSet(d \o c) : Quiet(l)
  <2>1. \A l \in ToSet(c) : Quiet(l)
    BY <1>12, <1>13, <1>22
  <2>2. QED
    BY <1>22, <1>24, <2>1, ConcatText
<1>26. IdentityService(s) = d \o c
  BY <1>1, <1>2, <1>3, <1>4, <1>5, <1>6, <1>7, <1>8, <1>9, <1>10, <1>18, <1>20, <1>21, <1>23
     DEF IdentityService
<1>27. QED
  BY <1>25, <1>26

\* A sorted list of labels is joined to a bare text, and split again.
LEMMA JoinedLabels ==
  ASSUME NEW S, IsFiniteSet(S), \A l \in S : Label(l)
  PROVE  Bare(Join(S, Comma)) /\ SplitCsv(Join(S, Comma)) = S
<1>1. PICK texts : texts = SetToSeq(S)
  OBVIOUS
<1>2. texts \in Seq(S) /\ ToSet(texts) = S
  BY <1>1, SetAsSeq
<1>3. Sq(texts) /\ ToSet(texts) = {texts[i] : i \in 1..Len(texts)}
  BY <1>2, ElementsOf DEF Sq
<1>4. PICK v : v = JoinSeq(texts, Comma)
  OBVIOUS
<1>5. Join(S, Comma) = v
  BY <1>1, <1>4 DEF Join
<1>6. Bare(v)
  <2>1. Comma \notin White \cup {"\\"}
    BY Zenon DEF Comma, White
  <2>2. \A t \in ToSet(texts) : Sq(t) /\ ToSet(t) \cap (White \cup {"\\"}) = {}
    BY <1>2 DEF Label, Bare, Symbols
  <2>3. Sq(v) /\ ToSet(v) \cap (White \cup {"\\"}) = {}
    BY <1>3, <1>4, <2>1, <2>2, JoinedWithout
  <2>4. QED
    BY <2>3 DEF Bare, Symbols
<1>7. v \in Text
  <2>1. Comma \in STRING
    BY UnitsConstants
  <2>2. \A i \in 1..Len(texts) : Sq(texts[i]) /\ ToSet(texts[i]) \subseteq STRING
    <3> TAKE i \in 1..Len(texts)
    <3>1. texts[i] \in Seq(STRING)
      <4>1. texts[i] \in S
        BY <1>2, <1>3
      <4>2. texts[i] \in Text
        BY <4>1 DEF Label
      <4>3. QED
        BY <4>2 DEF Text
    <3>2. QED
      BY <3>1, ElementsOf, SqOf
  <2>3. Sq(v) /\ ToSet(v) \subseteq STRING
    BY <1>3, <1>4, <2>1, <2>2, JoinedText
  <2>4. QED
    BY <2>3, SeqMonotonic DEF Sq, Text
<1>8. v # None
  BY <1>7, InputsConstants
<1>9. CASE S = {}
  <2>1. texts = <<>>
    BY <1>2, <1>9, ElementsOf
  <2>2. v = <<>>
    BY <1>4, <2>1 DEF JoinSeq
  <2>3. SplitCsv(v) = {}
    BY <1>8, <2>2 DEF SplitCsv
  <2>4. QED
    BY <1>5, <1>6, <1>9, <2>3
<1>10. CASE S # {}
  <2>1. texts # <<>>
    BY <1>2, <1>10, ElementsOf
  <2>2. \A i \in 1..Len(texts) : Sq(texts[i]) /\ Comma \notin ToSet(texts[i])
    BY <1>2, <1>3 DEF Label, Bare
  <2>3. Split(v, Comma) = S
    BY <1>2, <1>3, <1>4, <2>1, <2>2, SplitJoined
  <2>4. v # <<>>
    <3> SUFFICES ASSUME v = <<>> PROVE FALSE
      OBVIOUS
    <3>1. Sq(v) /\ Comma \notin ToSet(v)
      BY <1>6, ElementsOf DEF Bare, Sq
    <3>2. S = {v}
      BY <2>3, <3>1, SplitOne
    <3>3. QED
      BY <3>2 DEF Label
  <2>5. SplitCsv(v) = S
    BY <1>8, <2>3, <2>4 DEF SplitCsv
  <2>6. QED
    BY <1>5, <1>6, <2>5
<1>11. QED
  BY <1>9, <1>10

\* What the annotation of each key says
Says(l, s) ==
  /\ l.key = "X-Ghars-Runner-Url" => l.val = s.url
  /\ l.key = "X-Ghars-Auth-Name" => l.val = s.auth
  /\ l.key = "X-Ghars-Labels" => l.val = Join(s.labels, Comma)
  /\ l.key = "X-Ghars-Arch" => l.val = s.arch
  /\ l.key = "X-Ghars-Caches" => l.val = Join({b.name : b \in s.caches}, Comma)
  /\ l.key = "X-Ghars-Effective-Version" => l.val = s.version
  /\ l.key = "X-Ghars-Runner-Sha256" => s.sha # None /\ l.val = s.sha
  /\ l.key = "X-Ghars-Runner-Tarball-Hash" => s.tarball # None /\ l.ref = s.tarball
  /\ l.key = "X-Ghars-Trust-Zone" => l.val = s.zone
  /\ l.key = "X-Ghars-Network-Mode" => l.val = Mode(s)
  /\ l.key = "X-Ghars-Dns" => s.network # None /\ l.val = DnsToAnnotation(s.network.spec.dns)
  /\ l.key = "X-Ghars-Ipv6" => s.network # None /\ l.val = Ipv6ToAnnotation(s.network.spec.ipv6)
Tells(l, s) == IsAnnotation(l) /\ Says(l, s)

\* A line whose key is that of no section
LEMMA AnnotationOf ==
  ASSUME NEW k, NEW v, Bare(v), NEW d, k \notin {NoKey, "[Unit]", "[Service]"}
  PROVE  IsAnnotation(Line(k, v)) /\ IsAnnotation(Digest(k, d))
<1>1. Bare(<<>>)
  BY EmptySeq DEF Bare, Sq, Symbols, ToSet
<1>2. QED
  BY <1>1, LineFields DEF IsAnnotation, IsSection

\* The texts of the annotations are bare.
LEMMA AnnotationTexts ==
  ASSUME NEW s, Sound(s)
  PROVE  /\ Bare(Join(s.labels, Comma)) /\ SplitCsv(Join(s.labels, Comma)) = s.labels
         /\ Bare(Join({b.name : b \in s.caches}, Comma))
         /\ SplitCsv(Join({b.name : b \in s.caches}, Comma)) = {b.name : b \in s.caches}
         /\ Bare(Mode(s))
         /\ s.network # None => Bare(DnsToAnnotation(s.network.spec.dns))
         /\ Bare(Ipv6ToAnnotation(s.network.spec.ipv6))
<1>1. Bare(Join(s.labels, Comma)) /\ SplitCsv(Join(s.labels, Comma)) = s.labels
  BY JoinedLabels DEF Sound
<1>2. PICK N : N = {b.name : b \in s.caches}
  OBVIOUS
<1>3. Bare(Join(N, Comma)) /\ SplitCsv(Join(N, Comma)) = N
  <2>1. IsFiniteSet(N)
    <3>1. PICK f : f = [b \in s.caches |-> b.name]
      OBVIOUS
    <3>2. f \in [s.caches -> N] /\ \A x \in N : \E b \in s.caches : f[b] = x
      BY <1>2, <3>1
    <3>3. f \in Surjection(s.caches, N) /\ IsFiniteSet(s.caches)
      BY <3>2 DEF Sound, Surjection
    <3>4. QED
      BY <3>3, FS_Surjection
  <2>2. \A l \in N : Label(l)
    BY <1>2 DEF Sound
  <2>3. QED
    BY <2>1, <2>2, JoinedLabels
<1>4. ASSUME NEW c, c \notin White \cup {"\\"} PROVE Bare(<<c>>)
  BY <1>4, SymbolText DEF Bare, Symbols
<1>5. Bare(Mode(s)) /\ Bare(Ipv6ToAnnotation(s.network.spec.ipv6))
  <2>1. Bare(<<"netns">>) /\ Bare(<<"open">>) /\ Bare(<<"enabled">>) /\ Bare(<<"disabled">>)
    BY <1>4 DEF White
  <2>2. QED
    BY <2>1 DEF Mode, Ipv6ToAnnotation
<1>6. ASSUME s.network # None PROVE Bare(DnsToAnnotation(s.network.spec.dns))
  <2>1. PICK dns : dns = s.network.spec.dns
    OBVIOUS
  <2>2. CASE dns = None
    <3>1. Bare(<<"forward">>)
      BY <1>4 DEF White
    <3>2. QED
      BY <2>1, <2>2, <3>1 DEF DnsToAnnotation
  <2>3. CASE dns # None
    <3>1. Sq(dns) /\ \A a \in ToSet(dns) : Bare(a)
      BY <1>6, <2>1, <2>3 DEF Sound
    <3>2. PICK x : x = <<"static:">>
      OBVIOUS
    <3>3. Bare(x)
      BY <1>4, <3>2 DEF White
    <3>4. PICK v : v = JoinSeq(dns, Comma)
      OBVIOUS
    <3>5. Bare(v)
      <4>1. Comma \notin White \cup {"\\"}
        BY Zenon DEF Comma, White
      <4>2. \A t \in ToSet(dns) : Sq(t) /\ ToSet(t) \cap (White \cup {"\\"}) = {}
        BY <3>1 DEF Bare, Symbols
      <4>3. Sq(v) /\ ToSet(v) \cap (White \cup {"\\"}) = {}
        BY <3>1, <3>4, <4>1, <4>2, JoinedWithout
      <4>4. QED
        BY <4>3 DEF Bare, Symbols
    <3>6. PICK w : w = x \o v
      OBVIOUS
    <3>7. Bare(w)
      <4>1. Sq(w) /\ ToSet(w) = ToSet(x) \cup ToSet(v)
        BY <3>3, <3>5, <3>6, ConcatText DEF Bare
      <4>2. QED
        BY <3>3, <3>5, <4>1 DEF Bare, Symbols
    <3>8. QED
      BY <2>1, <2>3, <3>2, <3>4, <3>6, <3>7 DEF DnsToAnnotation
  <2>4. QED
    BY <2>2, <2>3
<1>7. QED
  BY <1>1, <1>2, <1>3, <1>5, <1>6

\* What a file says of each key, with the lines of its annotations
LEMMA AnnotationsTell ==
  ASSUME NEW s, Sound(s)
  PROVE  /\ Sq(Annotations(s)) /\ Len(Annotations(s)) >= 1 /\ Len(Annotations(s)) \in Nat
         /\ Annotations(s)[1] = Digest("X-Ghars-Spec-Hash", SpecHash(s))
         /\ \A l \in ToSet(Annotations(s)) : Tells(l, s)
         /\ {"X-Ghars-Runner-Url", "X-Ghars-Auth-Name", "X-Ghars-Labels", "X-Ghars-Arch",
             "X-Ghars-Caches", "X-Ghars-Effective-Version", "X-Ghars-Trust-Zone",
             "X-Ghars-Network-Mode"} \subseteq {l.key : l \in ToSet(Annotations(s))}
         /\ s.sha # None => \E l \in ToSet(Annotations(s)) : l.key = "X-Ghars-Runner-Sha256"
         /\ s.tarball # None =>
              \E l \in ToSet(Annotations(s)) : l.key = "X-Ghars-Runner-Tarball-Hash"
         /\ s.network # None =>
              {"X-Ghars-Dns", "X-Ghars-Ipv6"} \subseteq {l.key : l \in ToSet(Annotations(s))}
<1>1. /\ \A t \in {s.name, s.url, s.auth, s.zone, s.arch, s.version} : Bare(t)
        /\ s.version # None
  BY DEF Sound
<1>2. Bare(<<>>)
  BY EmptySeq DEF Bare, Sq, Symbols, ToSet
<1>3. PICK a1 : a1 = Digest("X-Ghars-Spec-Hash", SpecHash(s))
  OBVIOUS
<1>4. PICK a2 : a2 = Line("X-Ghars-Runner-Name", s.name)
  OBVIOUS
<1>5. PICK a3 : a3 = Line("X-Ghars-Runner-Url", s.url)
  OBVIOUS
<1>6. PICK a4 : a4 = Line("X-Ghars-Auth-Name", s.auth)
  OBVIOUS
<1>7. PICK a5 : a5 = Line("X-Ghars-Labels", Join(s.labels, Comma))
  OBVIOUS
<1>8. PICK a6 : a6 = Line("X-Ghars-Arch", s.arch)
  OBVIOUS
<1>9. PICK a7 : a7 = Line("X-Ghars-Caches", Join({b.name : b \in s.caches}, Comma))
  OBVIOUS
<1>10. PICK a8 : a8 = Line("X-Ghars-Effective-Version", s.version)
  OBVIOUS
<1>11. PICK b1 : b1 = Line("X-Ghars-Runner-Sha256", s.sha)
  OBVIOUS
<1>12. PICK c1 : c1 = Digest("X-Ghars-Runner-Tarball-Hash", s.tarball)
  OBVIOUS
<1>13. PICK d1 : d1 = Line("X-Ghars-Trust-Zone", s.zone)
  OBVIOUS
<1>14. PICK d2 : d2 = Line("X-Ghars-Network-Mode", Mode(s))
  OBVIOUS
<1>15. PICK e1 : e1 = Digest("X-Ghars-Netns-Subnet", s.network.subnet)
  OBVIOUS
<1>16. PICK f1 : f1 = Line("X-Ghars-Dns", DnsToAnnotation(s.network.spec.dns))
  OBVIOUS
<1>17. PICK f2 : f2 = Line("X-Ghars-Ipv6", Ipv6ToAnnotation(s.network.spec.ipv6))
  OBVIOUS
<1>18. a1.key = "X-Ghars-Spec-Hash" /\ (Tells(a1, s))
  <2>1. "X-Ghars-Spec-Hash" # NoKey
    BY Zenon DEF NoKey
  <2>2. a1.key = "X-Ghars-Spec-Hash" /\ a1.ref = SpecHash(s)
    BY <1>3, LineFields
  <2>4. IsAnnotation(a1)
    BY <1>3, <1>2, <2>1, AnnotationOf
  <2>5. QED
    BY <2>2, <2>4 DEF Tells, Says
<1>19. a2.key = "X-Ghars-Runner-Name" /\ (Tells(a2, s))
  <2>1. "X-Ghars-Runner-Name" # NoKey
    BY Zenon DEF NoKey
  <2>2. a2.key = "X-Ghars-Runner-Name" /\ a2.val = s.name
    BY <1>4, LineFields
  <2>3. Bare(s.name)
    BY <1>1, AnnotationTexts DEF Sound
  <2>4. IsAnnotation(a2)
    BY <1>4, <2>1, <2>3, AnnotationOf
  <2>5. QED
    BY <2>2, <2>4 DEF Tells, Says
<1>20. a3.key = "X-Ghars-Runner-Url" /\ (Tells(a3, s))
  <2>1. "X-Ghars-Runner-Url" # NoKey
    BY Zenon DEF NoKey
  <2>2. a3.key = "X-Ghars-Runner-Url" /\ a3.val = s.url
    BY <1>5, LineFields
  <2>3. Bare(s.url)
    BY <1>1, AnnotationTexts DEF Sound
  <2>4. IsAnnotation(a3)
    BY <1>5, <2>1, <2>3, AnnotationOf
  <2>5. QED
    BY <2>2, <2>4 DEF Tells, Says
<1>21. a4.key = "X-Ghars-Auth-Name" /\ (Tells(a4, s))
  <2>1. "X-Ghars-Auth-Name" # NoKey
    BY Zenon DEF NoKey
  <2>2. a4.key = "X-Ghars-Auth-Name" /\ a4.val = s.auth
    BY <1>6, LineFields
  <2>3. Bare(s.auth)
    BY <1>1, AnnotationTexts DEF Sound
  <2>4. IsAnnotation(a4)
    BY <1>6, <2>1, <2>3, AnnotationOf
  <2>5. QED
    BY <2>2, <2>4 DEF Tells, Says
<1>22. a5.key = "X-Ghars-Labels" /\ (Tells(a5, s))
  <2>1. "X-Ghars-Labels" # NoKey
    BY Zenon DEF NoKey
  <2>2. a5.key = "X-Ghars-Labels" /\ a5.val = Join(s.labels, Comma)
    BY <1>7, LineFields
  <2>3. Bare(Join(s.labels, Comma))
    BY <1>1, AnnotationTexts DEF Sound
  <2>4. IsAnnotation(a5)
    BY <1>7, <2>1, <2>3, AnnotationOf
  <2>5. QED
    BY <2>2, <2>4 DEF Tells, Says
<1>23. a6.key = "X-Ghars-Arch" /\ (Tells(a6, s))
  <2>1. "X-Ghars-Arch" # NoKey
    BY Zenon DEF NoKey
  <2>2. a6.key = "X-Ghars-Arch" /\ a6.val = s.arch
    BY <1>8, LineFields
  <2>3. Bare(s.arch)
    BY <1>1, AnnotationTexts DEF Sound
  <2>4. IsAnnotation(a6)
    BY <1>8, <2>1, <2>3, AnnotationOf
  <2>5. QED
    BY <2>2, <2>4 DEF Tells, Says
<1>24. a7.key = "X-Ghars-Caches" /\ (Tells(a7, s))
  <2>1. "X-Ghars-Caches" # NoKey
    BY Zenon DEF NoKey
  <2>2. a7.key = "X-Ghars-Caches" /\ a7.val = Join({b.name : b \in s.caches}, Comma)
    BY <1>9, LineFields
  <2>3. Bare(Join({b.name : b \in s.caches}, Comma))
    BY <1>1, AnnotationTexts DEF Sound
  <2>4. IsAnnotation(a7)
    BY <1>9, <2>1, <2>3, AnnotationOf
  <2>5. QED
    BY <2>2, <2>4 DEF Tells, Says
<1>25. a8.key = "X-Ghars-Effective-Version" /\ (Tells(a8, s))
  <2>1. "X-Ghars-Effective-Version" # NoKey
    BY Zenon DEF NoKey
  <2>2. a8.key = "X-Ghars-Effective-Version" /\ a8.val = s.version
    BY <1>10, LineFields
  <2>3. Bare(s.version)
    BY <1>1, AnnotationTexts DEF Sound
  <2>4. IsAnnotation(a8)
    BY <1>10, <2>1, <2>3, AnnotationOf
  <2>5. QED
    BY <2>2, <2>4 DEF Tells, Says
<1>26. b1.key = "X-Ghars-Runner-Sha256" /\ (s.sha # None => Tells(b1, s))
  <2>1. "X-Ghars-Runner-Sha256" # NoKey
    BY Zenon DEF NoKey
  <2>2. b1.key = "X-Ghars-Runner-Sha256" /\ b1.val = s.sha
    BY <1>11, LineFields
  <2>3. ASSUME s.sha # None PROVE Bare(s.sha)
    BY <2>3, <1>1, AnnotationTexts DEF Sound
  <2>4. ASSUME s.sha # None PROVE IsAnnotation(b1)
    BY <2>4, <1>11, <2>1, <2>3, AnnotationOf
  <2>5. QED
    BY <2>2, <2>4 DEF Tells, Says
<1>27. c1.key = "X-Ghars-Runner-Tarball-Hash" /\ (s.tarball # None => Tells(c1, s))
  <2>1. "X-Ghars-Runner-Tarball-Hash" # NoKey
    BY Zenon DEF NoKey
  <2>2. c1.key = "X-Ghars-Runner-Tarball-Hash" /\ c1.ref = s.tarball
    BY <1>12, LineFields
  <2>4. IsAnnotation(c1)
    BY <1>12, <1>2, <2>1, AnnotationOf
  <2>5. QED
    BY <2>2, <2>4 DEF Tells, Says
<1>28. d1.key = "X-Ghars-Trust-Zone" /\ (Tells(d1, s))
  <2>1. "X-Ghars-Trust-Zone" # NoKey
    BY Zenon DEF NoKey
  <2>2. d1.key = "X-Ghars-Trust-Zone" /\ d1.val = s.zone
    BY <1>13, LineFields
  <2>3. Bare(s.zone)
    BY <1>1, AnnotationTexts DEF Sound
  <2>4. IsAnnotation(d1)
    BY <1>13, <2>1, <2>3, AnnotationOf
  <2>5. QED
    BY <2>2, <2>4 DEF Tells, Says
<1>29. d2.key = "X-Ghars-Network-Mode" /\ (Tells(d2, s))
  <2>1. "X-Ghars-Network-Mode" # NoKey
    BY Zenon DEF NoKey
  <2>2. d2.key = "X-Ghars-Network-Mode" /\ d2.val = Mode(s)
    BY <1>14, LineFields
  <2>3. Bare(Mode(s))
    BY <1>1, AnnotationTexts DEF Sound
  <2>4. IsAnnotation(d2)
    BY <1>14, <2>1, <2>3, AnnotationOf
  <2>5. QED
    BY <2>2, <2>4 DEF Tells, Says
<1>30. e1.key = "X-Ghars-Netns-Subnet" /\ (Tells(e1, s))
  <2>1. "X-Ghars-Netns-Subnet" # NoKey
    BY Zenon DEF NoKey
  <2>2. e1.key = "X-Ghars-Netns-Subnet" /\ e1.ref = s.network.subnet
    BY <1>15, LineFields
  <2>4. IsAnnotation(e1)
    BY <1>15, <1>2, <2>1, AnnotationOf
  <2>5. QED
    BY <2>2, <2>4 DEF Tells, Says
<1>31. f1.key = "X-Ghars-Dns" /\ (s.network # None => Tells(f1, s))
  <2>1. "X-Ghars-Dns" # NoKey
    BY Zenon DEF NoKey
  <2>2. f1.key = "X-Ghars-Dns" /\ f1.val = DnsToAnnotation(s.network.spec.dns)
    BY <1>16, LineFields
  <2>3. ASSUME s.network # None PROVE Bare(DnsToAnnotation(s.network.spec.dns))
    BY <2>3, <1>1, AnnotationTexts DEF Sound
  <2>4. ASSUME s.network # None PROVE IsAnnotation(f1)
    BY <2>4, <1>16, <2>1, <2>3, AnnotationOf
  <2>5. QED
    BY <2>2, <2>4 DEF Tells, Says
<1>32. f2.key = "X-Ghars-Ipv6" /\ (s.network # None => Tells(f2, s))
  <2>1. "X-Ghars-Ipv6" # NoKey
    BY Zenon DEF NoKey
  <2>2. f2.key = "X-Ghars-Ipv6" /\ f2.val = Ipv6ToAnnotation(s.network.spec.ipv6)
    BY <1>17, LineFields
  <2>3. ASSUME s.network # None PROVE Bare(Ipv6ToAnnotation(s.network.spec.ipv6))
    BY <2>3, <1>1, AnnotationTexts DEF Sound
  <2>4. ASSUME s.network # None PROVE IsAnnotation(f2)
    BY <2>4, <1>17, <2>1, <2>3, AnnotationOf
  <2>5. QED
    BY <2>2, <2>4 DEF Tells, Says
<1>33. PICK a : a = <<a1, a2, a3, a4, a5, a6, a7, a8>>
  OBVIOUS
<1>34. PICK b : b = When(s.sha # None, << b1 >>)
  OBVIOUS
<1>35. PICK c : c = When(s.tarball # None, << c1 >>)
  OBVIOUS
<1>36. PICK d : d = << d1, d2 >>
  OBVIOUS
<1>37. PICK e : e = When(s.network # None /\ s.network.subnet # None, << e1 >>)
  OBVIOUS
<1>38. PICK f : f = When(s.network # None, << f1, f2 >>)
  OBVIOUS
<1>39. Sq(<<>>) /\ ToSet(<<>>) = {}
  BY EmptySeq DEF Sq, ToSet
<1>40. Sq(a) /\ ToSet(a) = {a1, a2, a3, a4, a5, a6, a7, a8} /\ a[1] = a1 /\ Len(a) = 8
  BY <1>33, OctetElements
<1>41. Sq(b) /\ ToSet(b) = IF s.sha # None THEN {b1} ELSE {}
  BY <1>34, <1>39, SymbolText DEF When
<1>42. Sq(c) /\ ToSet(c) = IF s.tarball # None THEN {c1} ELSE {}
  BY <1>35, <1>39, SymbolText DEF When
<1>43. Sq(d) /\ ToSet(d) = {d1, d2}
  BY <1>36, PairElements
<1>44. Sq(e) /\ ToSet(e) \subseteq {e1}
  BY <1>37, <1>39, SymbolText DEF When
<1>45. Sq(f) /\ ToSet(f) = IF s.network # None THEN {f1, f2} ELSE {}
  BY <1>38, <1>39, PairElements DEF When
<1>46. PICK u : u = a \o b
  OBVIOUS
<1>47. Sq(u) /\ ToSet(u) = ToSet(a) \cup ToSet(b) /\ u[1] = a1 /\ Len(u) >= 1 /\ Len(u) \in Nat
  <2>1. IsConcat(u, a, b)
    BY <1>46, <1>40, <1>41, Concat
  <2>2. 1 \in 1..Len(a)
    BY <1>40, <2>1 DEF IsConcat
  <2>3. QED
    BY <1>40, <2>1, <2>2 DEF IsConcat
<1>48. PICK v : v = u \o c
  OBVIOUS
<1>49. Sq(v) /\ ToSet(v) = ToSet(u) \cup ToSet(c) /\ v[1] = a1 /\ Len(v) >= 1 /\ Len(v) \in Nat
  <2>1. IsConcat(v, u, c)
    BY <1>48, <1>47, <1>42, Concat
  <2>2. 1 \in 1..Len(u)
    BY <1>47, <2>1 DEF IsConcat
  <2>3. QED
    BY <1>47, <2>1, <2>2 DEF IsConcat
<1>50. PICK w : w = v \o d
  OBVIOUS
<1>51. Sq(w) /\ ToSet(w) = ToSet(v) \cup ToSet(d) /\ w[1] = a1 /\ Len(w) >= 1 /\ Len(w) \in Nat
  <2>1. IsConcat(w, v, d)
    BY <1>50, <1>49, <1>43, Concat
  <2>2. 1 \in 1..Len(v)
    BY <1>49, <2>1 DEF IsConcat
  <2>3. QED
    BY <1>49, <2>1, <2>2 DEF IsConcat
<1>52. PICK x : x = w \o e
  OBVIOUS
<1>53. Sq(x) /\ ToSet(x) = ToSet(w) \cup ToSet(e) /\ x[1] = a1 /\ Len(x) >= 1 /\ Len(x) \in Nat
  <2>1. IsConcat(x, w, e)
    BY <1>52, <1>51, <1>44, Concat
  <2>2. 1 \in 1..Len(w)
    BY <1>51, <2>1 DEF IsConcat
  <2>3. QED
    BY <1>51, <2>1, <2>2 DEF IsConcat
<1>54. PICK y : y = x \o f
  OBVIOUS
<1>55. Sq(y) /\ ToSet(y) = ToSet(x) \cup ToSet(f) /\ y[1] = a1 /\ Len(y) >= 1 /\ Len(y) \in Nat
  <2>1. IsConcat(y, x, f)
    BY <1>54, <1>53, <1>45, Concat, SMTT(30)
  <2>2. 1 \in 1..Len(x)
    BY <1>53, <2>1 DEF IsConcat
  <2>3. QED
    BY <1>53, <2>1, <2>2 DEF IsConcat
<1>56. y = Annotations(s)
  BY <1>1, <1>3, <1>4, <1>5, <1>6, <1>7, <1>8, <1>9, <1>10, <1>11, <1>12, <1>13, <1>14, <1>15,
     <1>16, <1>17, <1>33, <1>34, <1>35, <1>36, <1>37, <1>38, <1>46, <1>48, <1>50, <1>52, <1>54
     DEF Annotations
<1>57. ToSet(y) = ToSet(a) \cup ToSet(b) \cup ToSet(c) \cup ToSet(d) \cup ToSet(e) \cup ToSet(f)
  BY <1>47, <1>49, <1>51, <1>53, <1>55
<1>58. \A l \in ToSet(y) : Tells(l, s)
  <2>1. \A l \in ToSet(a) : Tells(l, s)
    BY <1>40, <1>18, <1>19, <1>20, <1>21, <1>22, <1>23, <1>24, <1>25
  <2>2. \A l \in ToSet(b) \cup ToSet(c) : Tells(l, s)
    BY <1>41, <1>42, <1>26, <1>27
  <2>3. \A l \in ToSet(d) \cup ToSet(e) \cup ToSet(f) : Tells(l, s)
    BY <1>43, <1>44, <1>45, <1>28, <1>29, <1>30, <1>31, <1>32
  <2>4. QED
    BY <1>57, <2>1, <2>2, <2>3
<1>59. /\ {a3, a4, a5, a6, a7, a8, d1, d2} \subseteq ToSet(y)
        /\ (s.sha # None => b1 \in ToSet(y)) /\ (s.tarball # None => c1 \in ToSet(y))
  BY <1>57, <1>40, <1>41, <1>42, <1>43
<1>60. {"X-Ghars-Runner-Url", "X-Ghars-Auth-Name", "X-Ghars-Labels", "X-Ghars-Arch",
         "X-Ghars-Caches", "X-Ghars-Effective-Version", "X-Ghars-Trust-Zone",
         "X-Ghars-Network-Mode"} \subseteq {l.key : l \in ToSet(y)}
  <2>1. {a3.key, a4.key, a5.key, a6.key, a7.key, a8.key, d1.key, d2.key} \subseteq {l.key : l \in ToSet(y)}
    BY <1>59
  <2>2. QED
    BY <2>1, <1>20, <1>21, <1>22, <1>23, <1>24, <1>25, <1>28, <1>29
<1>61. s.network # None => {"X-Ghars-Dns", "X-Ghars-Ipv6"} \subseteq {l.key : l \in ToSet(y)}
  BY <1>31, <1>32, <1>45, <1>57
<1>62. QED
  BY <1>3, <1>55, <1>56, <1>58, <1>59, <1>60, <1>61, <1>26, <1>27

\* An annotation with a key of its own is the last one of that key.
LEMMA FinalFound ==
  ASSUME NEW unit, NEW body, NEW m \in Nat, Parsed(unit, body, m, AnnotationKeys),
         NEW key \in AnnotationKeys, \E i \in 2..m : body[i].key = key
  PROVE  \E i \in 2..m : body[i].key = key /\ Final(unit, key) = body[i]
<1>0. Len(unit) \in Nat /\ m - 1 <= Len(unit)
  BY DEF Parsed
<1>1. DOMAIN unit = 1..Len(unit)
  BY ElementsOf DEF Parsed, Sq
<1> DEFINE P == Places(unit, key)
<1>2. ASSUME NEW j \in P PROVE j \in 1..(m - 1) /\ body[j + 1].key = key /\ unit[j][2] = body[j + 1]
  <2>1. j \in 1..Len(unit) /\ unit[j][2].key = key
    BY <1>1 DEF Places
  <2>2. j < m
    <3> SUFFICES ASSUME ~(j < m) PROVE FALSE
      OBVIOUS
    <3>1. j \in m..Len(unit)
      BY <1>0, <2>1
    <3>2. QED
      BY <2>1, <3>1 DEF Parsed
  <2>3. j \in 1..(m - 1)
    BY <1>0, <2>1, <2>2
  <2>4. unit[j] = <<"[Unit]", body[j + 1]>>
    BY <2>3 DEF Parsed
  <2>5. QED
    BY <2>1, <2>3, <2>4
<1>3. PICK i \in 2..m : body[i].key = key
  OBVIOUS
<1>4. i - 1 \in P
  <2>1. i - 1 \in 1..(m - 1) /\ i - 1 \in 1..Len(unit) /\ (i - 1) + 1 = i
    BY <1>0
  <2>2. unit[i - 1] = <<"[Unit]", body[i]>>
    BY <2>1 DEF Parsed
  <2>3. QED
    BY <1>1, <1>3, <2>1, <2>2 DEF Places
<1> HIDE DEF P
<1>5. PICK j \in P : \A k \in P : k <= j
  <2>1. m - 1 \in Nat /\ P \in SUBSET (1..(m - 1)) /\ P # {}
    BY <1>2, <1>4
  <2>2. QED
    BY <2>1, GreatestNatural
<1>6. Max(P) = j
  <2>1. \A x \in P : x \in Nat
    BY <1>2
  <2>2. \A x \in P : (\A y \in P : x >= y) => x = j
    <3> SUFFICES ASSUME NEW x \in P, \A y \in P : x >= y PROVE x = j
      OBVIOUS
    <3>1. x >= j /\ x <= j
      BY <1>5
    <3>2. x \in Nat /\ j \in Nat
      BY <2>1
    <3>3. QED
      BY <3>1, <3>2
  <2>3. \A y \in P : j >= y
    BY <1>5, <2>1
  <2>4. QED
    BY <2>2, <2>3, Zenon DEF Max
<1>7. Final(unit, key) = unit[j][2]
  BY <1>4, <1>6 DEF Final, P
<1>8. j + 1 \in 2..m /\ body[j + 1].key = key /\ unit[j][2] = body[j + 1]
  BY <1>2, <1>5
<1>9. QED
  BY <1>7, <1>8

\* The parsed drop-in of a spec, key by key
LEMMA IdentityParsed ==
  ASSUME NEW s, Sound(s), NEW u, u = ParsedUnit(RenderIdentity(s))
  PROVE  /\ DiscoveredHash(u) = SpecHash(s)
         /\ \A key \in AnnotationKeys :
              IF \E l \in ToSet(Annotations(s)) : l.key = key
              THEN \E l \in ToSet(Annotations(s)) : l.key = key /\ Final(u, key) = l
              ELSE Final(u, key) = Line(key, None)
<1>1. PICK h : h = << Section("[Unit]") >>
  OBVIOUS
<1>2. PICK a : a = Annotations(s)
  OBVIOUS
<1>3. PICK c : c = IdentityService(s)
  OBVIOUS
<1>4. PICK x : x = h \o a
  OBVIOUS
<1>5. PICK body : body = x \o c
  OBVIOUS
<1>6. u = ParsedUnit(body)
  BY <1>1, <1>2, <1>3, <1>4, <1>5 DEF RenderIdentity
<1>7. Sq(h) /\ Len(h) = 1 /\ h[1] = Section("[Unit]")
  BY <1>1, SymbolText
<1>8. /\ Sq(a) /\ Len(a) >= 1 /\ a[1] = Digest("X-Ghars-Spec-Hash", SpecHash(s))
      /\ \A l \in ToSet(a) : Tells(l, s)
  BY <1>2, AnnotationsTell
<1>9. Sq(c) /\ \A l \in ToSet(c) : Quiet(l)
  BY <1>3, ServiceQuiet
<1>10. IsConcat(x, h, a)
  BY <1>4, <1>7, <1>8, Concat
<1>11. IsConcat(body, x, c)
  <2>1. Sq(x)
    BY <1>10 DEF IsConcat
  <2>2. QED
    BY <1>5, <1>9, <2>1, Concat
<1>12. PICK m \in Nat : m = Len(a) + 1
  BY <1>10 DEF IsConcat
<1>13. /\ Len(a) \in Nat /\ Len(x) = m /\ Len(body) \in Nat /\ m <= Len(body) /\ m >= 2
       /\ Len(body) = m + Len(c) /\ Len(c) \in Nat
  BY <1>7, <1>8, <1>10, <1>11, <1>12 DEF IsConcat
<1>14. /\ body[1] = Section("[Unit]")
       /\ \A i \in 2..m : body[i] = a[i - 1] /\ i - 1 \in 1..Len(a)
       /\ \A i \in (m + 1)..Len(body) : body[i] = c[i - m] /\ i - m \in 1..Len(c)
  <2>1. \A i \in 1..m : body[i] = x[i]
    BY <1>11, <1>13 DEF IsConcat
  <2>2. x[1] = h[1]
    BY <1>7, <1>10 DEF IsConcat
  <2>3. \A i \in 1..Len(a) : x[1 + i] = a[i]
    BY <1>7, <1>10 DEF IsConcat
  <2>4. \A i \in 1..Len(c) : body[m + i] = c[i]
    BY <1>11, <1>13 DEF IsConcat
  <2>5. body[1] = Section("[Unit]")
    BY <1>7, <1>13, <2>1, <2>2
  <2>6. ASSUME NEW i \in 2..m PROVE body[i] = a[i - 1] /\ i - 1 \in 1..Len(a)
    <3>1. i \in 1..m /\ i - 1 \in 1..Len(a) /\ 1 + (i - 1) = i
      BY <1>12, <1>13
    <3>2. QED
      BY <2>1, <2>3, <3>1
  <2>7. ASSUME NEW i \in (m + 1)..Len(body) PROVE body[i] = c[i - m] /\ i - m \in 1..Len(c)
    <3>1. i - m \in 1..Len(c) /\ m + (i - m) = i
      BY <1>13
    <3>2. QED
      BY <2>4, <3>1
  <2>8. QED
    BY <2>5, <2>6, <2>7
<1>15. ToSet(a) = {a[i] : i \in 1..Len(a)} /\ ToSet(c) = {c[i] : i \in 1..Len(c)}
  BY <1>8, <1>9, ElementsOf DEF Sq
<1>16. \A i \in 2..m : body[i] \in ToSet(a)
  BY <1>14, <1>15
<1>17. \A i \in 2..m : IsAnnotation(body[i])
  BY <1>8, <1>16 DEF Tells
<1>18. \A i \in (m + 1)..Len(body) : Quiet(body[i])
  BY <1>9, <1>14, <1>15
<1>19. Parsed(u, body, m, AnnotationKeys)
  <2>1. m \in 1..Len(body)
    BY <1>13
  <2>2. QED
    BY <1>6, <1>13, <1>14, <1>17, <1>18, <2>1, AnnotationsParsed DEF Quiet
<1>20. DiscoveredHash(u) = SpecHash(s)
  <2>1. body[2] = Digest("X-Ghars-Spec-Hash", SpecHash(s)) /\ Len(body) >= 2
    <3>1. 2 \in 2..m /\ 2 - 1 = 1
      BY <1>13
    <3>2. QED
      BY <1>8, <1>13, <1>14, <3>1
  <2>2. QED
    BY <1>6, <1>13, <1>14, <2>1, HashFound
<1>21. ASSUME NEW key \in AnnotationKeys, NEW l \in ToSet(a), l.key = key
       PROVE  \E k \in ToSet(a) : k.key = key /\ Final(u, key) = k
  <2>1. PICK i \in 1..Len(a) : l = a[i]
    BY <1>15
  <2>2. i + 1 \in 2..m /\ (i + 1) - 1 = i
    BY <1>12, <1>13
  <2>3. body[i + 1] = l
    BY <1>14, <2>1, <2>2
  <2>4. PICK j \in 2..m : body[j].key = key /\ Final(u, key) = body[j]
    BY <1>19, <1>21, <2>2, <2>3, FinalFound
  <2>5. QED
    BY <1>16, <2>4
<1>22. ASSUME NEW key \in AnnotationKeys, ~ \E l \in ToSet(a) : l.key = key
       PROVE  Final(u, key) = Line(key, None)
  <2>1. \A j \in 2..m : body[j].key # key
    BY <1>16, <1>22
  <2>2. QED
    BY <1>19, <2>1, AnnotationMissing
<1>23. QED
  BY <1>2, <1>20, <1>21, <1>22

-----------------------------------------------------------------------------
(* A runner read back from its files *)

\* Discovery recovers from the 00-ghars drop-in of a spec what was put there.
LEMMA AnnotationsRead ==
  ASSUME NEW s, Sound(s), NEW a, a = Discover(ParsedUnit(RenderIdentity(s))).annotations
  PROVE  /\ a.url = s.url /\ a.auth = s.auth /\ a.version = s.version /\ a.labels = s.labels
         /\ a.arch = s.arch /\ a.sha = s.sha /\ a.tarball = s.tarball /\ a.zone = s.zone
         /\ a.mode = Mode(s) /\ a.caches = {b.name : b \in s.caches}
         /\ s.network # None => /\ a.dns = DnsToAnnotation(s.network.spec.dns)
                               /\ a.ipv6 = Ipv6ToAnnotation(s.network.spec.ipv6)
<1>1. PICK u : u = ParsedUnit(RenderIdentity(s))
  OBVIOUS
<1>2. \A key \in AnnotationKeys :
        IF \E l \in ToSet(Annotations(s)) : l.key = key
        THEN \E l \in ToSet(Annotations(s)) : l.key = key /\ Final(u, key) = l
        ELSE Final(u, key) = Line(key, None)
  BY <1>1, IdentityParsed
<1>3. \A l \in ToSet(Annotations(s)) : Says(l, s)
  BY AnnotationsTell DEF Tells
<1>4. {"X-Ghars-Runner-Url", "X-Ghars-Auth-Name", "X-Ghars-Labels", "X-Ghars-Arch",
       "X-Ghars-Caches", "X-Ghars-Effective-Version", "X-Ghars-Trust-Zone",
       "X-Ghars-Network-Mode"} \subseteq {l.key : l \in ToSet(Annotations(s))}
  BY AnnotationsTell
<1>5. ASSUME NEW key \in AnnotationKeys, key \in {l.key : l \in ToSet(Annotations(s))}
      PROVE  Final(u, key).key = key /\ Says(Final(u, key), s)
  BY <1>2, <1>3, <1>5
<1>6. Final(u, "X-Ghars-Runner-Url").val = s.url
  <2>1. "X-Ghars-Runner-Url" \in AnnotationKeys
    BY DEF AnnotationKeys
  <2>2. "X-Ghars-Runner-Url" \in {l.key : l \in ToSet(Annotations(s))}
    BY <1>4
  <2>3. PICK l : l = Final(u, "X-Ghars-Runner-Url")
    OBVIOUS
  <2>4. l.key = "X-Ghars-Runner-Url" /\ Says(l, s)
    BY <1>5, <2>1, <2>2, <2>3
  <2>5. QED
    BY <2>3, <2>4 DEF Says
<1>7. Final(u, "X-Ghars-Auth-Name").val = s.auth
  <2>1. "X-Ghars-Auth-Name" \in AnnotationKeys
    BY DEF AnnotationKeys
  <2>2. "X-Ghars-Auth-Name" \in {l.key : l \in ToSet(Annotations(s))}
    BY <1>4
  <2>3. PICK l : l = Final(u, "X-Ghars-Auth-Name")
    OBVIOUS
  <2>4. l.key = "X-Ghars-Auth-Name" /\ Says(l, s)
    BY <1>5, <2>1, <2>2, <2>3
  <2>5. QED
    BY <2>3, <2>4 DEF Says
<1>8. Final(u, "X-Ghars-Labels").val = Join(s.labels, Comma)
  <2>1. "X-Ghars-Labels" \in AnnotationKeys
    BY DEF AnnotationKeys
  <2>2. "X-Ghars-Labels" \in {l.key : l \in ToSet(Annotations(s))}
    BY <1>4
  <2>3. PICK l : l = Final(u, "X-Ghars-Labels")
    OBVIOUS
  <2>4. l.key = "X-Ghars-Labels" /\ Says(l, s)
    BY <1>5, <2>1, <2>2, <2>3
  <2>5. QED
    BY <2>3, <2>4 DEF Says
<1>9. Final(u, "X-Ghars-Arch").val = s.arch
  <2>1. "X-Ghars-Arch" \in AnnotationKeys
    BY DEF AnnotationKeys
  <2>2. "X-Ghars-Arch" \in {l.key : l \in ToSet(Annotations(s))}
    BY <1>4
  <2>3. PICK l : l = Final(u, "X-Ghars-Arch")
    OBVIOUS
  <2>4. l.key = "X-Ghars-Arch" /\ Says(l, s)
    BY <1>5, <2>1, <2>2, <2>3
  <2>5. QED
    BY <2>3, <2>4 DEF Says
<1>10. Final(u, "X-Ghars-Caches").val = Join({b.name : b \in s.caches}, Comma)
  <2>1. "X-Ghars-Caches" \in AnnotationKeys
    BY DEF AnnotationKeys
  <2>2. "X-Ghars-Caches" \in {l.key : l \in ToSet(Annotations(s))}
    BY <1>4
  <2>3. PICK l : l = Final(u, "X-Ghars-Caches")
    OBVIOUS
  <2>4. l.key = "X-Ghars-Caches" /\ Says(l, s)
    BY <1>5, <2>1, <2>2, <2>3
  <2>5. QED
    BY <2>3, <2>4 DEF Says
<1>11. Final(u, "X-Ghars-Effective-Version").val = s.version
  <2>1. "X-Ghars-Effective-Version" \in AnnotationKeys
    BY DEF AnnotationKeys
  <2>2. "X-Ghars-Effective-Version" \in {l.key : l \in ToSet(Annotations(s))}
    BY <1>4
  <2>3. PICK l : l = Final(u, "X-Ghars-Effective-Version")
    OBVIOUS
  <2>4. l.key = "X-Ghars-Effective-Version" /\ Says(l, s)
    BY <1>5, <2>1, <2>2, <2>3
  <2>5. QED
    BY <2>3, <2>4 DEF Says
<1>12. Final(u, "X-Ghars-Trust-Zone").val = s.zone
  <2>1. "X-Ghars-Trust-Zone" \in AnnotationKeys
    BY DEF AnnotationKeys
  <2>2. "X-Ghars-Trust-Zone" \in {l.key : l \in ToSet(Annotations(s))}
    BY <1>4
  <2>3. PICK l : l = Final(u, "X-Ghars-Trust-Zone")
    OBVIOUS
  <2>4. l.key = "X-Ghars-Trust-Zone" /\ Says(l, s)
    BY <1>5, <2>1, <2>2, <2>3
  <2>5. QED
    BY <2>3, <2>4 DEF Says
<1>13. Final(u, "X-Ghars-Network-Mode").val = Mode(s)
  <2>1. "X-Ghars-Network-Mode" \in AnnotationKeys
    BY DEF AnnotationKeys
  <2>2. "X-Ghars-Network-Mode" \in {l.key : l \in ToSet(Annotations(s))}
    BY <1>4
  <2>3. PICK l : l = Final(u, "X-Ghars-Network-Mode")
    OBVIOUS
  <2>4. l.key = "X-Ghars-Network-Mode" /\ Says(l, s)
    BY <1>5, <2>1, <2>2, <2>3
  <2>5. QED
    BY <2>3, <2>4 DEF Says
<1>14. Final(u, "X-Ghars-Runner-Sha256").val = s.sha
  <2>1. "X-Ghars-Runner-Sha256" \in AnnotationKeys
    BY DEF AnnotationKeys
  <2>2. PICK l : l = Final(u, "X-Ghars-Runner-Sha256")
    OBVIOUS
  <2>3. CASE s.sha # None
    <3>1. "X-Ghars-Runner-Sha256" \in {x.key : x \in ToSet(Annotations(s))}
      BY <2>3, AnnotationsTell
    <3>2. l.key = "X-Ghars-Runner-Sha256" /\ Says(l, s)
      BY <1>5, <2>1, <2>2, <3>1
    <3>3. QED
      BY <2>2, <3>2 DEF Says
  <2>4. CASE s.sha = None
    <3>1. ~ \E x \in ToSet(Annotations(s)) : x.key = "X-Ghars-Runner-Sha256"
      <4> SUFFICES ASSUME NEW x \in ToSet(Annotations(s)), x.key = "X-Ghars-Runner-Sha256"
            PROVE FALSE
        OBVIOUS
      <4>1. Says(x, s)
        BY <1>3
      <4>2. QED
        BY <2>4, <4>1 DEF Says
    <3>2. l = Line("X-Ghars-Runner-Sha256", None)
      BY <1>2, <2>1, <2>2, <3>1
    <3>3. QED
      BY <2>2, <2>4, <3>2, LineFields
  <2>5. QED
    BY <2>3, <2>4
<1>15. Final(u, "X-Ghars-Runner-Tarball-Hash").ref = s.tarball
  <2>1. "X-Ghars-Runner-Tarball-Hash" \in AnnotationKeys
    BY DEF AnnotationKeys
  <2>2. PICK l : l = Final(u, "X-Ghars-Runner-Tarball-Hash")
    OBVIOUS
  <2>3. CASE s.tarball # None
    <3>1. "X-Ghars-Runner-Tarball-Hash" \in {x.key : x \in ToSet(Annotations(s))}
      BY <2>3, AnnotationsTell
    <3>2. l.key = "X-Ghars-Runner-Tarball-Hash" /\ Says(l, s)
      BY <1>5, <2>1, <2>2, <3>1
    <3>3. QED
      BY <2>2, <3>2 DEF Says
  <2>4. CASE s.tarball = None
    <3>1. ~ \E x \in ToSet(Annotations(s)) : x.key = "X-Ghars-Runner-Tarball-Hash"
      <4> SUFFICES ASSUME NEW x \in ToSet(Annotations(s)), x.key = "X-Ghars-Runner-Tarball-Hash"
            PROVE FALSE
        OBVIOUS
      <4>1. Says(x, s)
        BY <1>3
      <4>2. QED
        BY <2>4, <4>1 DEF Says
    <3>2. l = Line("X-Ghars-Runner-Tarball-Hash", None)
      BY <1>2, <2>1, <2>2, <3>1
    <3>3. QED
      BY <2>2, <2>4, <3>2, LineFields
  <2>5. QED
    BY <2>3, <2>4
<1>16. s.network # None => Final(u, "X-Ghars-Dns").val = DnsToAnnotation(s.network.spec.dns)
  <2>1. "X-Ghars-Dns" \in AnnotationKeys
    BY DEF AnnotationKeys
  <2>2. PICK l : l = Final(u, "X-Ghars-Dns")
    OBVIOUS
  <2>3. ASSUME s.network # None PROVE l.val = DnsToAnnotation(s.network.spec.dns)
    <3>1. "X-Ghars-Dns" \in {x.key : x \in ToSet(Annotations(s))}
      BY <2>3, AnnotationsTell
    <3>2. l.key = "X-Ghars-Dns" /\ Says(l, s)
      BY <1>5, <2>1, <2>2, <3>1
    <3>3. QED
      BY <3>2 DEF Says
  <2>4. QED
    BY <2>2, <2>3
<1>17. s.network # None => Final(u, "X-Ghars-Ipv6").val = Ipv6ToAnnotation(s.network.spec.ipv6)
  <2>1. "X-Ghars-Ipv6" \in AnnotationKeys
    BY DEF AnnotationKeys
  <2>2. PICK l : l = Final(u, "X-Ghars-Ipv6")
    OBVIOUS
  <2>3. ASSUME s.network # None PROVE l.val = Ipv6ToAnnotation(s.network.spec.ipv6)
    <3>1. "X-Ghars-Ipv6" \in {x.key : x \in ToSet(Annotations(s))}
      BY <2>3, AnnotationsTell
    <3>2. l.key = "X-Ghars-Ipv6" /\ Says(l, s)
      BY <1>5, <2>1, <2>2, <3>1
    <3>3. QED
      BY <3>2 DEF Says
  <2>4. QED
    BY <2>2, <2>3
<1>18. PICK v : v = DiscoveredAnnotations(u)
  OBVIOUS
<1>19. a = v
  BY <1>1, <1>18 DEF Discover
<1>20. /\ v.url = Final(u, "X-Ghars-Runner-Url").val /\ v.auth = Final(u, "X-Ghars-Auth-Name").val
       /\ v.version = Final(u, "X-Ghars-Effective-Version").val
       /\ v.labels = SplitCsv(Final(u, "X-Ghars-Labels").val)
       /\ v.arch = Final(u, "X-Ghars-Arch").val /\ v.sha = Final(u, "X-Ghars-Runner-Sha256").val
       /\ v.tarball = Final(u, "X-Ghars-Runner-Tarball-Hash").ref
       /\ v.zone = Final(u, "X-Ghars-Trust-Zone").val
       /\ v.mode = Final(u, "X-Ghars-Network-Mode").val
       /\ v.caches = SplitCsv(Final(u, "X-Ghars-Caches").val)
       /\ v.dns = Final(u, "X-Ghars-Dns").val /\ v.ipv6 = Final(u, "X-Ghars-Ipv6").val
  BY <1>18 DEF DiscoveredAnnotations
<1>21. /\ SplitCsv(Join(s.labels, Comma)) = s.labels
        /\ SplitCsv(Join({b.name : b \in s.caches}, Comma)) = {b.name : b \in s.caches}
  BY AnnotationTexts
<1>22. QED
  BY <1>19, <1>20, <1>21, <1>6, <1>7, <1>8, <1>9, <1>10, <1>11, <1>12, <1>13, <1>14, <1>15,
     <1>16, <1>17

\* The hash in the drop-in of a cache pool is that of the binding it was rendered from.
LEMMA PoolHashRead ==
  ASSUME NEW b
  PROVE  DiscoveredHash(ParsedUnit(RenderCacheDropIn(b))) = CachePoolHash(b)
<1>1. PICK h : h = << Section("[Unit]") >>
  OBVIOUS
<1>2. PICK l : l = Digest("X-Ghars-Spec-Hash", CachePoolHash(b))
  OBVIOUS
<1>3. PICK l2 : l2 = Line("X-Ghars-Pool-Name", b.name)
  OBVIOUS
<1>4. PICK l3 : l3 = Digest("X-Ghars-Pool-Kinds", b.kinds)
  OBVIOUS
<1>5. PICK t : t = <<l, l2, l3>>
  OBVIOUS
<1>6. PICK w : w = When("sccache" \in b.kinds, << Line("X-Ghars-Sccache-Mode", <<b.server>>) >>)
  OBVIOUS
<1>7. PICK a : a = t \o w
  OBVIOUS
<1>8. Sq(t) /\ Len(t) = 3 /\ t[1] = l
  BY <1>5 DEF Sq, ToSet
<1>9. Sq(w)
  BY <1>6, SymbolText, EmptySeq DEF When, Sq
<1>10. IsConcat(a, t, w)
  BY <1>7, <1>8, <1>9, Concat
<1>11. Sq(a) /\ Len(a) \in Nat /\ Len(a) >= 3 /\ a[1] = l
  BY <1>8, <1>10 DEF IsConcat
<1>12. PICK s : s = PoolService(b)
  OBVIOUS
<1>13. Sq(s)
  <2>1. PICK p1 : p1 = Section("[Service]")
    OBVIOUS
  <2>2. PICK p2 : p2 = Line("User", b.zone)
    OBVIOUS
  <2>3. PICK p : p = <<p1, p2>>
    OBVIOUS
  <2>4. PICK q : q = IF "sccache" \in b.kinds /\ b.server # "per_runner"
                     THEN << Line("SCCACHE_DIR", b.name), Line("SCCACHE_CACHE_SIZE", b.size),
                             Line("SCCACHE_SERVER_UDS", b.name), Line("ExecStart", b.sccache) >>
                     ELSE << Line("ExecStart", b.sleep) >>
    OBVIOUS
  <2>5. Sq(p)
    BY <2>3, PairElements
  <2>6. Sq(q)
    <3>1. \A x1, x2, x3, x4 : Sq(<<x1, x2, x3, x4>>)
      BY DEF Sq, ToSet
    <3>2. QED
      BY <2>4, <3>1, SymbolText
  <2>7. Sq(p \o q)
    BY <2>5, <2>6, ConcatText
  <2>8. QED
    BY <1>12, <2>1, <2>2, <2>3, <2>4, <2>7 DEF PoolService
<1>14. PICK x : x = h \o a
  OBVIOUS
<1>15. Sq(h) /\ Len(h) = 1 /\ h[1] = Section("[Unit]")
  BY <1>1, SymbolText
<1>16. IsConcat(x, h, a)
  BY <1>11, <1>14, <1>15, Concat
<1>17. PICK body : body = x \o s
  OBVIOUS
<1>18. IsConcat(body, x, s)
  <2>1. Sq(x)
    BY <1>16 DEF IsConcat
  <2>2. QED
    BY <1>13, <1>17, <2>1, Concat
<1>19. Len(x) \in Nat /\ Len(x) >= 4 /\ x[1] = Section("[Unit]") /\ x[2] = l
  <2>1. 1 \in 1..Len(h) /\ 1 \in 1..Len(a) /\ Len(h) + 1 = 2
    BY <1>11, <1>15
  <2>2. QED
    BY <1>11, <1>15, <1>16, <2>1 DEF IsConcat
<1>20. Len(body) \in Nat /\ Len(body) >= 2 /\ body[1] = Section("[Unit]") /\ body[2] = l
  <2>1. 1 \in 1..Len(x) /\ 2 \in 1..Len(x)
    BY <1>19
  <2>2. QED
    BY <1>18, <1>19, <2>1 DEF IsConcat
<1>21. DiscoveredHash(ParsedUnit(body)) = CachePoolHash(b)
  BY <1>2, <1>20, HashFound
<1>22. RenderCacheDropIn(b) = body
  BY <1>1, <1>2, <1>3, <1>4, <1>5, <1>6, <1>7, <1>12, <1>14, <1>17
     DEF RenderCacheDropIn, PoolAnnotations
<1>23. QED
  BY <1>21, <1>22

-----------------------------------------------------------------------------
(* From a config to the specs that it asks for *)

\* What is not larger than one of these numbers is one of them.
LEMMA SmallerDecimal ==
  ASSUME NEW m \in Decimals, NEW j \in Nat, j <= m
  PROVE  j \in Decimals /\ m \in Nat
  BY SMT DEF Decimals

\* The decimal digits of a number
LEMMA DigitsText ==
  ASSUME NEW i \in Decimals
  PROVE  /\ Digits(i) \in Text /\ Sq(Digits(i)) /\ Len(Digits(i)) = Width(i)
         /\ Width(i) \in 1..4
<1>1. PICK d : d = <<"0", "1", "2", "3", "4", "5", "6", "7", "8", "9">>
  OBVIOUS
<1>2. \A j \in 1..10 : d[j] \in Digit
  <2>1. d[1] \in Digit /\ d[2] \in Digit /\ d[3] \in Digit /\ d[4] \in Digit /\ d[5] \in Digit
    BY <1>1 DEF Digit
  <2>2. d[6] \in Digit /\ d[7] \in Digit /\ d[8] \in Digit /\ d[9] \in Digit /\ d[10] \in Digit
    BY <1>1 DEF Digit
  <2>3. \A j \in 1..10 : j \in {1, 2, 3, 4, 5, 6, 7, 8, 9, 10}
    OBVIOUS
  <2>4. QED
    BY <2>1, <2>2, <2>3
<1>3. Digit \subseteq STRING
  BY UnitsConstants
<1>4. PICK unit : unit = <<1000, 100, 10, 1>>
  OBVIOUS
<1>5. PICK w : w = Width(i)
  OBVIOUS
<1>6. w \in 1..4
  BY <1>5 DEF Width, Decimals
<1>7. PICK f : f = [k \in 1..w |-> d[((i \div unit[(4 - w) + k]) % 10) + 1]]
  OBVIOUS
<1>8. ASSUME NEW k \in 1..w PROVE f[k] \in STRING
  <2>1. PICK j \in 1..4 : j = (4 - w) + k
    BY <1>6
  <2>2. PICK u \in Nat \ {0} : u = unit[j]
    BY <1>4
  <2>3. (i \div u) % 10 \in 0..9
    BY <2>2, SMTT(30) DEF Decimals
  <2>4. PICK m \in 1..10 : m = ((i \div u) % 10) + 1
    BY <2>3
  <2>5. f[k] = d[m]
    BY <1>7, <2>1, <2>2, <2>4
  <2>6. QED
    BY <1>2, <1>3, <2>5
<1>9. Digits(i) = f
  BY <1>1, <1>4, <1>5, <1>7 DEF Digits, Decimal
<1>10. f \in [1..w -> STRING]
  BY <1>7, <1>8
<1>11. f \in Seq(STRING) /\ Len(f) = w
  BY <1>6, <1>10
<1>12. f \in Text /\ Sq(f)
  BY <1>11, SqOf DEF Text
<1>13. QED
  BY <1>5, <1>6, <1>9, <1>11, <1>12

\* x is what block r stands for, or one of the runners it stands for.
InstanceOf(x, r) ==
  /\ x = [r EXCEPT !.name = x.name, !.count = None]
  /\ x.name \in Text /\ ValidateIdentifier(x.name)
  /\ r.count # 0 /\ Len(x.name) <= WorstCaseLen(r)

\* A config that a plan is made of
Usable(c) == IsConfig(c) /\ LoadConfig(c) /\ Plannable(c)

\* A runner has the fields of a RunnerSpec.
IsBlock(r) ==
  r = [name |-> r.name, count |-> r.count, url |-> r.url, auth |-> r.auth,
       labels |-> r.labels, version |-> r.version, sha |-> r.sha, tarball |-> r.tarball,
       arch |-> r.arch, caches |-> r.caches, zone |-> r.zone, network |-> r.network,
       memory |-> r.memory, cpus |-> r.cpus, mems |-> r.mems, proxy |-> r.proxy,
       hooks |-> r.hooks, hard |-> r.hard, env |-> r.env]

\* The fields of a runner in a config
LEMMA RunnerFields ==
  ASSUME NEW c, Usable(c), NEW r \in Runners(c)
  PROVE  /\ IsRunner(r) /\ ValidateIdentifier(r.name)
         /\ IsBlock(r)
         /\ r.name \in Text /\ r.count \in Option(Nat)
<1>1. IsRunner(r)
  BY DEF Usable, IsConfig
<1>2. ValidateIdentifier(r.name)
  BY DEF Usable, LoadConfig, ValidateRunnerNames
<1>3. PICK e : e = r.env
  OBVIOUS
<1>4. r \in [name : Text, count : Option(Nat), url : Text, auth : Option(Text), labels : Texts,
            version : Option(Text), sha : Option(Text), tarball : Option(Text),
            arch : Option(Archs), caches : Texts, zone : Text, network : Option(Text),
            memory : Option(Text), cpus : Option(Text), mems : Option(Text),
            proxy : Option(ProxyTables), hooks : Option(HooksTables), hard : HardeningTables,
            env : {e}]
  BY <1>1, <1>3 DEF IsRunner
<1>5. IsBlock(r)
  BY <1>4 DEF IsBlock
<1>6. QED
  BY <1>1, <1>2, <1>4, <1>5

\* The names that a block generates
LEMMA GeneratedName ==
  ASSUME NEW c, Usable(c), NEW r \in Runners(c), IsCountBlock(r), NEW i \in 1..r.count,
         NEW n, n = r.name \o <<"-">> \o Digits(i)
  PROVE  n \in Text /\ Len(n) <= WorstCaseLen(r) /\ r.count \in Decimals
<1>1. r.count \in Nat /\ r.count > 1 /\ r.count # None
  BY RunnerFields DEF IsCountBlock, Option
<1>2. r.count <= MaxCount
  <2>1. PICK j \in DOMAIN c.runners : c.runners[j] = r
    BY DEF Runners, ToSet
  <2>2. QED
    BY <2>1 DEF Usable, Plannable, Expandable
<1>3. r.count \in Decimals /\ i \in Decimals
  <2>1. PICK m : m = MaxCount
    OBVIOUS
  <2>2. PICK k : k = r.count
    OBVIOUS
  <2>3. m \in Decimals
    BY <2>1, InputsConstants
  <2>4. k \in Nat /\ k > 1 /\ k <= m /\ i \in 1..k
    BY <1>1, <1>2, <2>1, <2>2
  <2>5. k \in Decimals /\ m \in Nat
    BY <2>3, <2>4, SmallerDecimal
  <2>6. i \in Nat /\ i <= m
    BY <2>4, <2>5
  <2>7. i \in Decimals
    BY <2>3, <2>6, SmallerDecimal
  <2>8. QED
    BY <2>2, <2>5, <2>7
<1>4. r.name \in Text
  BY RunnerFields
<1>5. PICK a : a = r.name
  OBVIOUS
<1>6. PICK b : b = <<"-">>
  OBVIOUS
<1>7. PICK d : d = Digits(i)
  OBVIOUS
<1>8. PICK e : e = a \o b
  OBVIOUS
<1>9. a \in Seq(STRING) /\ b \in Seq(STRING) /\ d \in Seq(STRING) /\ Len(b) = 1
  <2>1. "-" \in STRING
    BY UnitsConstants
  <2>2. b \in Seq(STRING) /\ Len(b) = 1
    BY <1>6, <2>1, Single
  <2>3. QED
    BY <1>3, <1>4, <1>5, <1>7, <2>2, DigitsText DEF Text
<1>10. e \in Seq(STRING) /\ Len(e) = Len(a) + 1
  <2>1. a \o b \in Seq(STRING) /\ Len(a \o b) = Len(a) + Len(b)
    BY <1>9, ConcatProperties
  <2>2. QED
    BY <1>8, <1>9, <2>1
<1>11. e \o d \in Seq(STRING) /\ Len(e \o d) = Len(a) + 1 + Len(d)
  <2>1. e \o d \in Seq(STRING) /\ Len(e \o d) = Len(e) + Len(d)
    BY <1>9, <1>10, ConcatProperties
  <2>2. QED
    BY <1>10, <2>1
<1>12. n = e \o d
  BY <1>5, <1>6, <1>7, <1>8
<1>13. Len(d) <= Len(Digits(r.count)) /\ Len(Digits(r.count)) \in Nat /\ Len(d) \in Nat
  <2>1. r.count \in Decimals
    BY <1>3
  <2>2. Len(Digits(r.count)) = Width(r.count)
    BY <2>1, DigitsText
  <2>3. Len(d) = Width(i)
    BY <1>3, <1>7, DigitsText
  <2>4. PICK k : k = r.count
    OBVIOUS
  <2>5. k \in Nat /\ i \in Nat /\ i <= k
    <3>1. k \in Decimals /\ i \in 1..k
      BY <1>3, <2>4
    <3>2. QED
      BY <3>1 DEF Decimals
  <2>6. PICK y : y = Len(Digits(r.count))
    OBVIOUS
  <2>7. PICK z : z = Len(d)
    OBVIOUS
  <2>8. y = Width(k) /\ z = Width(i)
    BY <2>2, <2>3, <2>4, <2>6, <2>7
  <2>9. z <= y /\ y \in Nat /\ z \in Nat
    BY <2>5, <2>8 DEF Width
  <2>10. QED
    BY <2>6, <2>7, <2>9
<1>14. WorstCaseLen(r) = Len(a) + (1 + Len(Digits(r.count)))
  BY <1>5 DEF WorstCaseLen
<1>15. Len(a) \in Nat
  BY <1>9, LenProperties
<1>16. Len(n) = Len(a) + 1 + Len(d) /\ n \in Text
  BY <1>11, <1>12 DEF Text
<1>17. Len(n) <= Len(a) + (1 + Len(Digits(r.count)))
  BY <1>13, <1>15, <1>16
<1>18. QED
  BY <1>3, <1>14, <1>16, <1>17

\* What a block stands for
LEMMA InstancesOf ==
  ASSUME NEW c, Usable(c), NEW r \in Runners(c)
  PROVE  Sq(Instances(c, r)) /\ \A x \in ToSet(Instances(c, r)) : InstanceOf(x, r)
<1>0. Sq(<<>>) /\ ToSet(<<>>) = {}
  BY EmptySeq DEF Sq, ToSet
<1>1. CASE ~IsCountBlock(r)
  <2>1. CASE r.count = 0
    BY <1>0, <1>1, <2>1 DEF Instances
  <2>2. CASE r.count # 0
    <3>1. PICK x : x = [r EXCEPT !.count = None]
      OBVIOUS
    <3>2. Instances(c, r) = <<x>>
      BY <1>1, <2>2, <3>1 DEF Instances
    <3>3. x.name = r.name /\ x = [r EXCEPT !.name = r.name, !.count = None]
      <4>1. r = [r EXCEPT !.name = r.name]
        BY RunnerFields DEF IsBlock
      <4>2. x.name = r.name
        BY <3>1, RunnerFields DEF IsBlock
      <4>3. QED
        BY <3>1, <4>1, <4>2
    <3>4. Len(x.name) <= WorstCaseLen(r)
      <4>1. Len(r.name) \in Nat
        BY RunnerFields, LenProperties DEF Text
      <4>2. WorstCaseLen(r) = Len(r.name) + 0
        BY <1>1 DEF WorstCaseLen
      <4>3. QED
        BY <3>3, <4>1, <4>2
    <3>5. InstanceOf(x, r)
      BY <2>2, <3>3, <3>4, RunnerFields DEF InstanceOf
    <3>6. QED
      BY <3>2, <3>5, SymbolText
  <2>3. QED
    BY <2>1, <2>2
<1>2. CASE IsCountBlock(r)
  <2>1. PICK g : g = Generated(r)
    OBVIOUS
  <2>2. r.count \in Nat /\ r.count # 0 /\ r.count # None
    BY <1>2, RunnerFields DEF IsCountBlock, Option
  <2> DEFINE name(i) == r.name \o <<"-">> \o Digits(i)
  <2>3. g = [i \in 1..r.count |-> [r EXCEPT !.name = name(i), !.count = None]]
    BY <2>1 DEF Generated
  <2>4. DOMAIN g = 1..r.count
    BY <2>3
  <2>5. ToSet(g) = {g[i] : i \in 1..r.count}
    BY <2>4 DEF ToSet
  <2>6. ASSUME NEW x \in ToSet(g) PROVE InstanceOf(x, r)
    <3>1. PICK i \in 1..r.count : x = g[i]
      BY <2>5
    <3>2. PICK n : n = name(i)
      OBVIOUS
    <3>3. x = [r EXCEPT !.name = n, !.count = None]
      BY <2>3, <3>1, <3>2
    <3>4. x.name = n
      <4>1. IsBlock(r)
        BY RunnerFields
      <4>2. QED
        BY <3>3, <4>1 DEF IsBlock
    <3>5. n \in Text /\ Len(n) <= WorstCaseLen(r)
      BY <1>2, <3>2, GeneratedName
    <3>6. ValidateIdentifier(x.name)
      <4>1. PICK j \in DOMAIN c.runners : c.runners[j] = r
        BY DEF Runners, ToSet
      <4>2. \A y \in ToSet(Generated(r)) : ValidateIdentifier(y.name)
        BY <1>2, <4>1 DEF Usable, Plannable, Expandable
      <4>3. QED
        BY <2>1, <4>2
    <3>7. QED
      BY <2>2, <3>3, <3>4, <3>5, <3>6 DEF InstanceOf
  <2> DEFINE e(i) == IF g[i].name \in ExplicitNames(c) THEN <<>> ELSE <<g[i]>>
  <2>7. PICK q : q = [i \in 1..r.count |-> e(i)]
    OBVIOUS
  <2>8. Instances(c, r) = FlattenSeq(q)
    BY <1>2, <2>1, <2>4, <2>7 DEF Instances
  <2>9. PICK X : X = ToSet(g)
    OBVIOUS
  <2>10. \A i \in 1..r.count : e(i) \in Seq(X)
    <3> TAKE i \in 1..r.count
    <3>1. g[i] \in X
      BY <2>5, <2>9
    <3>2. <<>> \in Seq(X) /\ <<g[i]>> \in Seq(X)
      BY <3>1
    <3>3. QED
      BY <3>2
  <2> HIDE DEF e, name
  <2>11. q \in Seq(Seq(X))
    BY <2>2, <2>7, <2>10, IsASeq
  <2>12. FlattenSeq(q) \in Seq(X)
    BY <2>11, FlattenedElements
  <2>13. Sq(FlattenSeq(q)) /\ ToSet(FlattenSeq(q)) \subseteq X
    BY <2>12, ElementsOf, SqOf
  <2>14. QED
    BY <2>6, <2>8, <2>9, <2>13
<1>3. QED
  BY <1>1, <1>2

\* What all blocks stand for
LEMMA Expanded ==
  ASSUME NEW c, Usable(c), NEW x, x = ExpandCounts(c)
  PROVE  /\ Sq(x) /\ Len(x) \in Nat /\ DOMAIN x = 1..Len(x)
         /\ \A i \in 1..Len(x) : \E r \in Runners(c) : InstanceOf(x[i], r)
<1>1. PICK q : q = [i \in 1..Len(c.runners) |-> Instances(c, c.runners[i])]
  OBVIOUS
<1>2. /\ Len(c.runners) \in Nat /\ DOMAIN c.runners = 1..Len(c.runners)
      /\ \A i \in 1..Len(c.runners) : c.runners[i] \in Runners(c)
  <2>1. c.runners \in Seq(Runners(c))
    BY DEF Usable, IsConfig
  <2>2. QED
    BY <2>1, LenProperties, ElementOfSeq
<1>3. x = FlattenSeq(q)
  BY <1>1, <1>2 DEF ExpandCounts
<1> DEFINE X == UNION {ToSet(Instances(c, r)) : r \in Runners(c)}
<1>4. ASSUME NEW i \in 1..Len(c.runners) PROVE Instances(c, c.runners[i]) \in Seq(X)
  <2>1. PICK s : s = Instances(c, c.runners[i])
    OBVIOUS
  <2>2. Sq(s) /\ ToSet(s) \subseteq X
    BY <1>2, <2>1, InstancesOf
  <2> HIDE DEF X
  <2>3. s \in Seq(X)
    BY <2>2, SeqMonotonic DEF Sq
  <2>4. QED
    BY <2>1, <2>3
<1>5. \A y \in X : \E r \in Runners(c) : InstanceOf(y, r)
  BY InstancesOf
<1> HIDE DEF X
<1>6. q \in Seq(Seq(X))
  BY <1>1, <1>2, <1>4, IsASeq
<1>7. x \in Seq(X)
  BY <1>3, <1>6, FlattenedElements
<1>8. Sq(x) /\ Len(x) \in Nat /\ DOMAIN x = 1..Len(x) /\ \A i \in 1..Len(x) : x[i] \in X
  BY <1>7, SqOf, LenProperties, ElementOfSeq
<1>9. QED
  BY <1>5, <1>8

-----------------------------------------------------------------------------
(* Values that the checks let through *)

\* A text of letters, digits and a few signs is bare, and can stand in a list.
LEMMA PlainText ==
  ASSUME NEW s \in Text, s # <<>>, Over(s, Lower \cup Upper \cup Digit \cup {"-", ".", "_", "/", "github"})
  PROVE  Bare(s) /\ s # None /\ Comma \notin ToSet(s)
<1>1. Sq(s) /\ s # None
  BY SqOf, InputsConstants DEF Text
<1>2. \A x \in Lower \cup Upper \cup {"-", ".", "_", "/", "github"} : x \notin {" ", "NL", "\\"}
  BY DEF Lower, Upper
<1>3. \A x \in Digit : x \notin {" ", "NL", "\\"}
  BY DEF Digit
<1>4. Comma \notin Lower \cup Upper \cup {"-", ".", "_", "/", "github"}
  BY Zenon DEF Lower, Upper, Comma
<1>5. Comma \notin Digit
  BY Zenon DEF Digit, Comma
<1>6. Symbols(s) \subseteq Lower \cup Upper \cup Digit \cup {"-", ".", "_", "/", "github"}
  BY DEF Over
<1>7. Bare(s)
  BY <1>1, <1>2, <1>3, <1>6 DEF Bare, White
<1>8. QED
  BY <1>1, <1>4, <1>5, <1>6, <1>7 DEF Symbols

\* A name
LEMMA IdentifierText ==
  ASSUME NEW s \in Text, ValidateIdentifier(s)
  PROVE  Label(s) /\ s # None
<1>1. s # <<>> /\ Over(s, Lower \cup Upper \cup Digit \cup {"-", ".", "_", "/", "github"})
  BY DEF ValidateIdentifier, Over
<1>2. QED
  BY <1>1, PlainText DEF Label

\* A version
LEMMA VersionText ==
  ASSUME NEW v \in Text, ValidateVersion(v)
  PROVE  Bare(v) /\ v \notin {None, <<>>}
<1>1. Over(v, Lower \cup Upper \cup Digit \cup {"-", ".", "_", "/", "github"})
  BY DEF ValidateVersion, Over
<1>2. v # <<>>
  <2> SUFFICES ASSUME v = <<>> PROVE FALSE
    OBVIOUS
  <2>1. PICK d : d = {i \in DOMAIN v : v[i] = "."}
    OBVIOUS
  <2>2. Cardinality(d) = 2
    BY <2>1 DEF ValidateVersion
  <2>3. DOMAIN v = {}
    BY EmptySeq, LenProperties
  <2>4. d = {}
    BY <2>1, <2>3
  <2>5. QED
    BY <2>2, <2>4, FS_EmptySet
<1>3. QED
  BY <1>1, <1>2, PlainText

\* The address of a repository or an organisation
LEMMA UrlText ==
  ASSUME NEW u \in Text, ValidateUrl(u)
  PROVE  Bare(u) /\ u \notin {None, <<>>}
<1>1. Len(u) \in Nat /\ DOMAIN u = 1..Len(u) /\ ToSet(u) = {u[i] : i \in 1..Len(u)}
      /\ u \in Seq(STRING) /\ (u = <<>> <=> Len(u) = 0)
  BY ElementsOf DEF Text
<1>2. PICK path : path = IF u # <<>> /\ u[Len(u)] = "/" THEN Front(u) ELSE u
  OBVIOUS
<1> DEFINE part == Lower \cup Upper \cup Digit \cup {".", "_", "-"}
<1>3. Len(path) >= 3 /\ path[1] = "github"
  BY <1>2 DEF ValidateUrl
<1>0. Over(Tail(path), part \cup {"/"})
  BY <1>2 DEF ValidateUrl
<1> HIDE DEF part
<1>4. path \in Seq(STRING) /\ Len(path) \in Nat /\ Len(path) <= Len(u)
      /\ (\A i \in 1..Len(path) : path[i] = u[i])
      /\ \A i \in 1..Len(u) : i > Len(path) => u[i] = "/"
  <2>1. CASE u # <<>> /\ u[Len(u)] = "/"
    <3>1. path = SubSeq(u, 1, Len(u) - 1)
      BY <1>2, <2>1 DEF Front
    <3>2. Len(u) > 0
      BY <1>1, <2>1
    <3>3. \A i \in 1..(Len(u) - 1) : u[i] \in STRING
      BY <1>1, ElementOfSeq
    <3>4. /\ SubSeq(u, 1, Len(u) - 1) \in Seq(STRING)
          /\ Len(SubSeq(u, 1, Len(u) - 1)) =
               IF 1 <= Len(u) - 1 THEN (Len(u) - 1) - 1 + 1 ELSE 0
          /\ \A i \in 1..((Len(u) - 1) - 1 + 1) :
               SubSeq(u, 1, Len(u) - 1)[i] = u[1 + i - 1]
      BY <1>1, <3>2, <3>3, SubSeqProperties
    <3>5. path \in Seq(STRING) /\ Len(path) = Len(u) - 1
      BY <1>1, <3>1, <3>2, <3>4
    <3>6. \A i \in 1..Len(path) : path[i] = u[i]
      BY <1>1, <3>1, <3>2, <3>4, <3>5
    <3>7. QED
      BY <1>1, <2>1, <3>2, <3>5, <3>6
  <2>2. CASE ~(u # <<>> /\ u[Len(u)] = "/")
    BY <1>1, <1>2, <2>2
  <2>3. QED
    BY <2>1, <2>2
<1>5. ASSUME NEW i \in 2..Len(path) PROVE path[i] \in part \cup {"/"}
  <2>1. path # <<>>
    BY <1>3, <1>4, EmptySeq
  <2>2. Tail(path) \in Seq(STRING) /\ Len(Tail(path)) = Len(path) - 1
        /\ \A j \in 1..Len(Tail(path)) : Tail(path)[j] = path[j + 1]
    BY <1>4, <2>1, HeadTailProperties
  <2>3. PICK t : t = Tail(path)
    OBVIOUS
  <2>4. i - 1 \in 1..Len(t) /\ (i - 1) + 1 = i
    BY <1>4, <2>2, <2>3
  <2>5. t \in Seq(STRING) /\ path[i] = t[i - 1]
    BY <2>2, <2>3, <2>4
  <2>6. t[i - 1] \in ToSet(t)
    BY <2>4, <2>5, ElementsOf
  <2>7. ToSet(t) \subseteq part \cup {"/"}
    BY <1>0, <2>3 DEF Over, Symbols
  <2>8. QED
    BY <2>5, <2>6, <2>7
<1>6. ASSUME NEW i \in 1..Len(u) PROVE u[i] \in part \cup {"/", "github"}
  <2>1. PICK m : m = Len(path)
    OBVIOUS
  <2>2. m \in Nat /\ i \in Nat /\ 1 <= i /\ i <= Len(u)
    BY <1>1, <1>4, <2>1
  <2>3. CASE i = 1
    <3>1. 1 \in 1..Len(path)
      BY <1>3, <1>4
    <3>2. QED
      BY <1>3, <1>4, <2>3, <3>1
  <2>4. CASE i > m
    BY <1>4, <2>1, <2>4
  <2>5. CASE i \in 2..m
    <3>1. path[i] \in part \cup {"/"}
      BY <1>5, <2>1, <2>5
    <3>2. i \in 1..Len(path)
      BY <2>1, <2>2, <2>5
    <3>3. QED
      BY <1>4, <3>1, <3>2
  <2>6. i = 1 \/ i > m \/ i \in 2..m
    BY <2>2
  <2>7. QED
    BY <2>3, <2>4, <2>5, <2>6
<1>7. Over(u, part \cup {"/", "github"})
  BY <1>1, <1>6 DEF Over, Symbols
<1>8. u # <<>>
  <2>1. Len(u) # 0
    BY <1>1, <1>3, <1>4
  <2>2. QED
    BY <1>1, <2>1
<1>9. QED
  BY <1>7, <1>8, PlainText DEF Over, part

-----------------------------------------------------------------------------
(* Specs *)

\* A spec has the fields of an EffectiveRunnerSpec.
IsSpec(s) ==
  s = [name |-> s.name, url |-> s.url, arch |-> s.arch, labels |-> s.labels,
       memory |-> s.memory, version |-> s.version, sha |-> s.sha, tarball |-> s.tarball,
       auth |-> s.auth, caches |-> s.caches, zone |-> s.zone, network |-> s.network,
       proxy |-> s.proxy, hooks |-> s.hooks, hard |-> s.hard, cpus |-> s.cpus,
       mems |-> s.mems, env |-> s.env, schema |-> s.schema]

\* The spec with the version v
Pinned(s, v) == [s EXCEPT !.version = v]

\* Two specs that differ in nothing but the version
SameButVersion(t, s) ==
  /\ t.name = s.name /\ t.url = s.url /\ t.arch = s.arch /\ t.labels = s.labels
  /\ t.memory = s.memory /\ t.sha = s.sha /\ t.tarball = s.tarball /\ t.auth = s.auth
  /\ t.caches = s.caches /\ t.zone = s.zone /\ t.network = s.network /\ t.proxy = s.proxy
  /\ t.hooks = s.hooks /\ t.hard = s.hard /\ t.cpus = s.cpus /\ t.mems = s.mems
  /\ t.env = s.env /\ t.schema = s.schema

\* A spec gets a version.
LEMMA WithVersion ==
  ASSUME NEW s, IsSpec(s), NEW v, NEW t, t = Pinned(s, v)
  PROVE  IsSpec(t) /\ t.version = v /\ SameButVersion(t, s)
BY DEF IsSpec, SameButVersion, Pinned

\* A version that is there already
LEMMA SameVersion ==
  ASSUME NEW s, IsSpec(s), NEW v, s.version = v
  PROVE  Pinned(s, v) = s
BY DEF IsSpec, Pinned

\* The later of two versions is the one that stays.
LEMMA VersionTwice ==
  ASSUME NEW s, IsSpec(s), NEW v, NEW w
  PROVE  Pinned(Pinned(s, v), w) = Pinned(s, w)
BY DEF IsSpec, Pinned

\* What a spec hash tells of the spec: every field, but of the caches no binaries.
LEMMA HashTells ==
  ASSUME NEW s, IsSpec(s), NEW t, IsSpec(t), SpecHash(s) = SpecHash(t)
  PROVE  /\ s.version = t.version /\ s.name = t.name /\ s.url = t.url /\ s.arch = t.arch
         /\ s.labels = t.labels /\ s.memory = t.memory /\ s.sha = t.sha
         /\ s.tarball = t.tarball /\ s.auth = t.auth /\ s.zone = t.zone
         /\ s.network = t.network /\ s.proxy = t.proxy /\ s.hooks = t.hooks /\ s.hard = t.hard
         /\ s.cpus = t.cpus /\ s.mems = t.mems /\ s.env = t.env /\ s.schema = t.schema
         /\ {CachePoolHash(b) : b \in s.caches} = {CachePoolHash(b) : b \in t.caches}
<1>1. PICK a : a = {CachePoolHash(b) : b \in s.caches}
  OBVIOUS
<1>2. PICK b : b = {CachePoolHash(x) : x \in t.caches}
  OBVIOUS
<1>3. SpecHash(s) = [s EXCEPT !.caches = a]
  BY <1>1 DEF SpecHash
<1>4. SpecHash(t) = [t EXCEPT !.caches = b]
  BY <1>2 DEF SpecHash
<1>5. [s EXCEPT !.caches = a] = [t EXCEPT !.caches = b]
  BY <1>3, <1>4
<1>6. a = b
  <2>1. [s EXCEPT !.caches = a].caches = a
    BY DEF IsSpec
  <2>2. [t EXCEPT !.caches = b].caches = b
    BY DEF IsSpec
  <2>3. QED
    BY <1>5, <2>1, <2>2
<1>7. QED
  BY <1>1, <1>2, <1>5, <1>6 DEF IsSpec

\* What a spec that was lowered is like, before the renderer has looked at it
Typed(s) ==
  /\ IsSpec(s)
  /\ Label(s.name) /\ Label(s.auth) /\ Label(s.zone) /\ Len(s.zone) <= TRUST_ZONE_MAX_LEN
  /\ s.url \in Text /\ s.arch \in Archs
  /\ s.version # None => s.version \in Text /\ ValidateVersion(s.version)
  /\ s.tarball # None => s.version # None
  /\ s.sha # None => s.sha \in Text /\ Symbols(s.sha) \cap {" ", "\\"} = {}
  /\ IsFiniteSet(s.labels)
  /\ \A l \in s.labels : l \in Text /\ l # <<>> /\ Symbols(l) \cap {" ", "\\", Comma} = {}
  /\ IsFiniteSet(s.caches) /\ \A b \in s.caches : Label(b.name)
  /\ s.network # None => s.network.spec.dns \in Option(Seq(Addresses))
  /\ IsFiniteSet(DOMAIN s.env.vars)
  /\ \A k \in DOMAIN s.env.vars : k \in Text /\ s.env.vars[k] \in Text
  /\ s.env.prepend \in Texts /\ s.env.append \in Texts

\* A value that the renderer lets through is one line.
LEMMA CheckedText ==
  ASSUME NEW t \in Text, CheckIdentityField(t)
  PROVE  OneLine(t)
<1>1. Sq(t)
  BY SqOf DEF Text
<1>2. QED
  BY <1>1 DEF OneLine, CheckIdentityField, Control, Symbols

\* Address lists are bare.
LEMMA AddressText ==
  ASSUME NEW d \in Seq(Addresses)
  PROVE  Sq(d) /\ \A a \in ToSet(d) : Bare(a)
<1>1. Sq(d) /\ ToSet(d) \subseteq Addresses
  BY SqOf, ElementsOf
<1>2. ASSUME NEW a \in Addresses PROVE Bare(a)
  <2>1. a \in Text /\ Symbols(a) \subseteq Lower \cup Upper \cup Digit \cup {".", ":"}
    BY DEF Addresses, Over
  <2>2. Sq(a)
    BY <2>1, SqOf DEF Text
  <2>3. \A x \in Lower \cup Upper \cup {".", ":"} : x \notin {" ", "NL", "\\"}
    BY DEF Lower, Upper
  <2>4. \A x \in Digit : x \notin {" ", "NL", "\\"}
    BY DEF Digit
  <2>5. QED
    BY <2>1, <2>2, <2>3, <2>4 DEF Bare, White
<1>3. QED
  BY <1>1, <1>2

\* What the renderer lets through, with a version, is sound.
LEMMA SoundSpec ==
  ASSUME NEW s, Typed(s), Renderable(s), Bare(s.url), s.url \notin {None, <<>>},
         NEW v \in Text, ValidateVersion(v), NEW t, t = Pinned(s, v)
  PROVE  Sound(t)
<1>1. IsSpec(t) /\ t.version = v /\ SameButVersion(t, s)
  BY WithVersion DEF Typed
<1>2. Bare(s.name) /\ Bare(s.auth) /\ Bare(s.zone) /\ s.name # <<>> /\ s.auth # <<>> /\ s.zone # <<>>
      /\ s.name # None /\ s.auth # None /\ s.zone # None
  BY InputsConstants DEF Typed, Label
<1>3. Bare(s.arch) /\ s.arch \notin {None, <<>>}
  <2>1. PICK a : a \in {"x86_64", "aarch64"} /\ s.arch = <<a>>
    BY DEF Typed, Archs
  <2>2. Sq(<<a>>) /\ ToSet(<<a>>) = {a} /\ <<a>> # <<>>
    BY SymbolText
  <2>3. a \notin {" ", "NL", "\\"}
    BY <2>1
  <2>4. s.arch # None
    BY InputsConstants DEF Typed
  <2>5. QED
    BY <2>1, <2>2, <2>3, <2>4 DEF Bare, Symbols, White
<1>4. Bare(v) /\ v \notin {None, <<>>}
  BY VersionText
<1>5. \A x \in {t.name, t.url, t.auth, t.zone, t.arch, t.version} : Bare(x) /\ x \notin {None, <<>>}
  BY <1>1, <1>2, <1>3, <1>4 DEF SameButVersion
<1>6. t.sha # None => Bare(t.sha)
  <2> SUFFICES ASSUME s.sha # None PROVE Bare(s.sha)
    BY <1>1 DEF SameButVersion
  <2>1. s.sha \in Text /\ Symbols(s.sha) \cap {" ", "\\"} = {}
    BY DEF Typed
  <2>2. CheckIdentityField(s.sha)
    BY DEF Renderable, ValidateIdentityFields
  <2>3. OneLine(s.sha)
    BY <2>1, <2>2, CheckedText
  <2>4. QED
    BY <2>1, <2>3 DEF OneLine, Bare, Symbols, White
<1>7. IsFiniteSet(t.labels) /\ \A l \in t.labels : Label(l)
  <2>1. t.labels = s.labels
    BY <1>1 DEF SameButVersion
  <2>2. ASSUME NEW l \in s.labels PROVE Label(l)
    <3>1. l \in Text /\ l # <<>> /\ Symbols(l) \cap {" ", "\\", Comma} = {}
      BY DEF Typed
    <3>2. CheckIdentityField(l)
      BY DEF Renderable, ValidateIdentityFields
    <3>3. OneLine(l)
      BY <3>1, <3>2, CheckedText
    <3>4. QED
      BY <3>1, <3>3 DEF OneLine, Bare, Symbols, White, Label
  <2>3. QED
    BY <2>1, <2>2 DEF Typed
<1>8. IsFiniteSet(t.caches) /\ \A b \in t.caches : Label(b.name)
  BY <1>1 DEF SameButVersion, Typed
<1>9. t.network # None /\ t.network.spec.dns # None =>
        Sq(t.network.spec.dns) /\ \A a \in ToSet(t.network.spec.dns) : Bare(a)
  <2> SUFFICES ASSUME s.network # None, s.network.spec.dns # None
               PROVE  Sq(s.network.spec.dns) /\ \A a \in ToSet(s.network.spec.dns) : Bare(a)
    BY <1>1 DEF SameButVersion
  <2>1. s.network.spec.dns \in Seq(Addresses)
    BY DEF Typed, Option
  <2>2. QED
    BY <2>1, AddressText
<1>10. t.env = s.env
  BY <1>1 DEF SameButVersion
<1>11. IsFiniteSet(DOMAIN s.env.vars)
       /\ \A k \in DOMAIN s.env.vars : OneLine(k) /\ OneLine(s.env.vars[k])
  <2>1. CheckEnvironment(s.env)
    BY DEF Renderable
  <2>2. QED
    BY <2>1, CheckedText DEF CheckEnvironment, Typed
<1>12. ASSUME NEW q, q \in {s.env.prepend, s.env.append}
       PROVE  Sq(q) /\ \A p \in ToSet(q) : OneLine(p)
  <2>1. q \in Seq(Text)
    BY <1>12 DEF Typed, Texts
  <2>2. Sq(q) /\ ToSet(q) \subseteq Text
    BY <2>1, SqOf, ElementsOf
  <2>3. \A p \in ToSet(q) : CheckIdentityField(p)
    BY <1>12 DEF Renderable, CheckEnvironment
  <2>4. QED
    BY <2>2, <2>3, CheckedText
<1>13. QED
  BY <1>5, <1>6, <1>7, <1>8, <1>9, <1>10, <1>11, <1>12 DEF Sound

-----------------------------------------------------------------------------
(* What a config asks for *)

\* The position of the instance that a name stands for: of two with one name, the later
Place(x, n) ==
  CHOOSE i \in DOMAIN x : x[i].name = n /\ \A j \in DOMAIN x : x[j].name = n => j <= i

Named(c) == {ExpandCounts(c)[i].name : i \in DOMAIN ExpandCounts(c)}

\* The spec of a runner, before the version is looked up
Lowered(c, n, k) ==
  LowerToEffective(c, ExpandCounts(c)[Place(ExpandCounts(c), n)], Place(ExpandCounts(c), n) - 1, k)

\* The specs of a config
LEMMA DesiredIs ==
  ASSUME NEW c, NEW l, NEW k
  PROVE  Desired(c, l, k) = [n \in Named(c) |-> Tracked(Lowered(c, n, k), l)]
BY Zenon DEF Desired, DesiredOf, Table, Named, Lowered, Place

\* A name stands for one instance.
LEMMA Placed ==
  ASSUME NEW c, Usable(c), NEW x, x = ExpandCounts(c), NEW n \in Named(c), NEW p, p = Place(x, n)
  PROVE  p \in 1..Len(x) /\ x[p].name = n
<1>1. Len(x) \in Nat /\ DOMAIN x = 1..Len(x)
  BY Expanded
<1> DEFINE S == {i \in 1..Len(x) : x[i].name = n}
<1>2. S \in SUBSET (1..Len(x)) /\ S # {}
  BY <1>1 DEF Named
<1>3. PICK m \in S : \A k \in S : k <= m
  BY <1>1, <1>2, GreatestNatural
<1>4. \E i \in DOMAIN x : x[i].name = n /\ \A j \in DOMAIN x : x[j].name = n => j <= i
  BY <1>1, <1>3
<1>5. p \in DOMAIN x /\ x[p].name = n
  BY <1>4, Zenon DEF Place
<1>6. QED
  BY <1>1, <1>5

\* Every instance can be lowered.
LEMMA Instance ==
  ASSUME NEW c, Usable(c), NEW n \in Named(c), NEW p, p = Place(ExpandCounts(c), n)
  PROVE  /\ p \in Nat /\ p >= 1
         /\ \E r \in Runners(c), y \in {ExpandCounts(c)[p]} :
              /\ InstanceOf(y, r) /\ y.name = n /\ y = ExpandCounts(c)[p]
              /\ Lowerable(c, y, p - 1)
              /\ \A k : Lowered(c, n, k) = LowerToEffective(c, y, p - 1, k)
<1>1. PICK x : x = ExpandCounts(c)
  OBVIOUS
<1>2. p \in 1..Len(x) /\ x[p].name = n
  BY <1>1, Placed
<1>3. Len(x) \in Nat /\ DOMAIN x = 1..Len(x) /\ \E r \in Runners(c) : InstanceOf(x[p], r)
  BY <1>1, <1>2, Expanded
<1>4. Lowerable(c, x[p], p - 1)
  BY <1>1, <1>2, <1>3 DEF Usable, Plannable
<1>5. \A k : Lowered(c, n, k) = LowerToEffective(c, x[p], p - 1, k)
  BY <1>1 DEF Lowered
<1>6. p \in Nat /\ p >= 1
  BY <1>2, <1>3
<1>7. QED
  BY <1>1, <1>2, <1>3, <1>4, <1>5, <1>6

\* An instance has what its block says.
LEMMA InstanceFields ==
  ASSUME NEW c, Usable(c), NEW r \in Runners(c), NEW y, InstanceOf(y, r)
  PROVE  /\ y.url = r.url /\ y.auth = r.auth /\ y.labels = r.labels /\ y.version = r.version
         /\ y.sha = r.sha /\ y.tarball = r.tarball /\ y.arch = r.arch /\ y.caches = r.caches
         /\ y.zone = r.zone /\ y.network = r.network /\ y.memory = r.memory
         /\ y.cpus = r.cpus /\ y.mems = r.mems /\ y.proxy = r.proxy /\ y.hooks = r.hooks
         /\ y.hard = r.hard /\ y.env = r.env /\ y.count = None
         /\ IsBlock(y)
<1>1. PICK m : m = y.name
  OBVIOUS
<1>2. y = [r EXCEPT !.name = m, !.count = None]
  BY <1>1 DEF InstanceOf
<1>3. IsBlock(r)
  BY RunnerFields
<1>4. QED
  BY <1>2, <1>3 DEF IsBlock

\* The field of a spec by field
LEMMA LoweredFields ==
  ASSUME NEW c, NEW y, NEW slot, NEW k, NEW s, s = LowerToEffective(c, y, slot, k)
  PROVE  /\ IsSpec(s) /\ s.name = y.name /\ s.url = y.url
         /\ s.arch = Or(Or(y.arch, c.defaults.arch), HostArch)
         /\ s.labels = MergeLabels(y, c.defaults)
         /\ s.memory = NonEmpty(Or(y.memory, c.defaults.memory))
         /\ s.version = Or(y.version, c.defaults.version)
         /\ s.sha = NonEmpty(Or(y.sha, c.defaults.sha)) /\ s.tarball = NonEmpty(y.tarball)
         /\ s.auth = Or(y.auth, c.defaults.auth)
         /\ s.caches = {EffectiveCacheBinding(m, c.pools[m], k) : m \in ToSet(y.caches)}
         /\ s.zone = RunnerZone(y) /\ s.network = NetworkBinding(c, y, slot)
         /\ s.proxy = (IF Or(y.proxy, c.proxy) # None /\ EmptyProxy(Or(y.proxy, c.proxy))
                       THEN None ELSE Or(y.proxy, c.proxy))
         /\ s.hooks = (IF Or(y.hooks, c.hooks) # None /\ EmptyHooks(Or(y.hooks, c.hooks))
                       THEN None ELSE Or(y.hooks, c.hooks))
         /\ s.hard = MergeHardening(y.hard, c.defaults.hard)
         /\ s.cpus = NonEmpty(y.cpus) /\ s.mems = NonEmpty(y.mems)
         /\ s.env = MergeEnvironment(y.env, c.defaults.env) /\ s.schema = k
BY DEF LowerToEffective, MergeDefaults, IsSpec

\* The image of a finite list is finite.
LEMMA FiniteElements ==
  ASSUME NEW X, NEW s \in Seq(X)
  PROVE  IsFiniteSet(ToSet(s))
<1>1. Len(s) \in Nat /\ DOMAIN s = 1..Len(s)
  BY LenProperties
<1>2. IsFiniteSet(1..Len(s))
  BY <1>1, FS_Interval
<1>3. s \in Surjection(1..Len(s), ToSet(s))
  BY <1>1, LenProperties DEF Surjection, ToSet
<1>4. QED
  BY <1>2, <1>3, FS_Surjection

\* The types of what [defaults] and a runner say
LEMMA SourceTypes ==
  ASSUME NEW c, Usable(c), NEW r \in Runners(c), NEW y, InstanceOf(y, r)
  PROVE  /\ y.name \in Text /\ ValidateIdentifier(y.name)
         /\ y.url \in Text /\ y.labels \in Seq(Text) /\ c.defaults.labels \in Seq(Text)
         /\ y.auth \in Option(Text) /\ c.defaults.auth \in Option(Text)
         /\ y.sha \in Option(Text) /\ c.defaults.sha \in Option(Text)
         /\ y.version \in Option(Text) /\ c.defaults.version \in Option(Text)
         /\ y.arch \in Option(Archs) /\ c.defaults.arch \in Option(Archs)
         /\ y.caches \in Seq(Text) /\ y.tarball \in Option(Text) /\ y.zone \in Text
         /\ y.network \in Option(Text) /\ c.defaults.network \in Option(Text)
         /\ IsEnvironment(y.env) /\ IsEnvironment(c.defaults.env)
<1>1. IsRunner(r) /\ IsDefaults(c.defaults)
  BY DEF Usable, IsConfig
<1>2. PICK e : e = r.env
  OBVIOUS
<1>3. PICK d : d = c.defaults
  OBVIOUS
<1>4. PICK f : f = d.env
  OBVIOUS
<1>5. r \in [name : Text, count : Option(Nat), url : Text, auth : Option(Text), labels : Texts,
            version : Option(Text), sha : Option(Text), tarball : Option(Text),
            arch : Option(Archs), caches : Texts, zone : Text, network : Option(Text),
            memory : Option(Text), cpus : Option(Text), mems : Option(Text),
            proxy : Option(ProxyTables), hooks : Option(HooksTables), hard : HardeningTables,
            env : {e}]
  BY <1>1, <1>2 DEF IsRunner
<1>6. d \in [auth : Option(Text), labels : Texts, version : Option(Text), sha : Option(Text),
            arch : Option(Archs), network : Option(Text), memory : Option(Text),
            hard : HardeningTables, env : {f}]
  BY <1>1, <1>3, <1>4 DEF IsDefaults
<1>7. /\ d.labels \in Texts /\ d.auth \in Option(Text) /\ d.sha \in Option(Text)
      /\ d.version \in Option(Text) /\ d.arch \in Option(Archs) /\ d.network \in Option(Text)
  BY <1>6
<1>8. /\ r.url \in Text /\ r.labels \in Texts /\ r.auth \in Option(Text) /\ r.sha \in Option(Text)
      /\ r.version \in Option(Text) /\ r.arch \in Option(Archs) /\ r.caches \in Texts
      /\ r.tarball \in Option(Text) /\ r.zone \in Text /\ r.network \in Option(Text)
  BY <1>5
<1>9. IsEnvironment(r.env) /\ IsEnvironment(c.defaults.env)
  BY <1>1 DEF IsRunner, IsDefaults
<1>10. y.name \in Text /\ ValidateIdentifier(y.name)
  BY DEF InstanceOf
<1>11. /\ y.url = r.url /\ y.auth = r.auth /\ y.labels = r.labels /\ y.version = r.version
       /\ y.sha = r.sha /\ y.tarball = r.tarball /\ y.arch = r.arch /\ y.caches = r.caches
       /\ y.zone = r.zone /\ y.network = r.network /\ y.env = r.env
  BY InstanceFields
<1>12. QED
  BY <1>3, <1>7, <1>8, <1>9, <1>10, <1>11 DEF Texts

\* The names in a spec
LEMMA LoweredNames ==
  ASSUME NEW c, Usable(c), NEW r \in Runners(c), NEW y, InstanceOf(y, r), NEW slot,
         Lowerable(c, y, slot), NEW k, NEW s, s = LowerToEffective(c, y, slot, k)
  PROVE  /\ Label(s.name) /\ Label(s.auth) /\ Label(s.zone) /\ Len(s.zone) <= TRUST_ZONE_MAX_LEN
         /\ s.url \in Text /\ s.arch \in Archs
<1>1. Label(s.name) /\ s.url \in Text
  BY LoweredFields, SourceTypes, IdentifierText
<1>2. Label(s.auth)
  <2>1. s.auth \in DOMAIN c.auth
    BY LoweredFields DEF Lowerable, AuthKnown
  <2>2. s.auth \in Text /\ ValidateIdentifier(s.auth)
    BY <2>1 DEF Usable, IsConfig, LoadConfig, ValidateAuthKeys
  <2>3. QED
    BY <2>2, IdentifierText
<1>3. Label(s.zone) /\ Len(s.zone) <= TRUST_ZONE_MAX_LEN
  <2>1. s.zone = IF y.zone = <<>> THEN DefaultZone ELSE y.zone
    BY LoweredFields DEF RunnerZone
  <2>2. y.zone \in Text /\ ValidateTrustZone(y.zone)
    <3>1. ValidateTrustZone(r.zone)
      BY DEF Usable, LoadConfig, ValidateTrustZones
    <3>2. QED
      BY <3>1, InstanceFields, SourceTypes
  <2>3. s.zone \in Text /\ ValidateTrustZone(s.zone)
    BY <2>1, <2>2, InputsConstants
  <2>4. QED
    BY <2>3, IdentifierText DEF ValidateTrustZone
<1>4. s.arch \in Archs
  <2>1. s.arch = Or(Or(y.arch, c.defaults.arch), HostArch)
    BY LoweredFields
  <2>2. y.arch \in Option(Archs) /\ c.defaults.arch \in Option(Archs) /\ HostArch \in Archs
    BY SourceTypes, InputsConstants
  <2>3. QED
    BY <2>1, <2>2 DEF Or, Option
<1>5. QED
  BY <1>1, <1>2, <1>3, <1>4

\* The versions and digests in a spec
LEMMA LoweredPins ==
  ASSUME NEW c, Usable(c), Plain(c), NEW r \in Runners(c), NEW y, InstanceOf(y, r), NEW slot,
         Lowerable(c, y, slot), NEW k, NEW s, s = LowerToEffective(c, y, slot, k)
  PROVE  /\ s.version # None => s.version \in Text /\ ValidateVersion(s.version)
         /\ s.tarball # None => s.version # None
         /\ s.sha # None => s.sha \in Text /\ Symbols(s.sha) \cap {" ", "\\"} = {}
<1>1. s.version # None => s.version \in Text /\ ValidateVersion(s.version)
  <2>1. s.version = Or(y.version, c.defaults.version)
    BY LoweredFields
  <2>2. y.version \in Option(Text) /\ c.defaults.version \in Option(Text)
    BY SourceTypes
  <2>3. \A v \in {y.version, c.defaults.version} \ {None} : ValidateVersion(v)
    <3>1. y.version = r.version
      BY InstanceFields
    <3>2. QED
      BY <3>1 DEF Usable, LoadConfig, ValidateRunnerVersions
  <2>4. QED
    BY <2>1, <2>2, <2>3 DEF Or, Option
<1>2. s.tarball # None => s.version # None
  <2>1. s.tarball = NonEmpty(y.tarball) /\ s.version = Or(y.version, c.defaults.version)
    BY LoweredFields
  <2>2. y.tarball # None => Or(y.version, c.defaults.version) # None
    BY DEF Lowerable, TarballVersioned
  <2>3. QED
    BY <2>1, <2>2, InputsConstants DEF NonEmpty
<1>3. s.sha # None => s.sha \in Text /\ Symbols(s.sha) \cap {" ", "\\"} = {}
  <2>1. s.sha = NonEmpty(Or(y.sha, c.defaults.sha))
    BY LoweredFields
  <2>2. y.sha \in Option(Text) /\ c.defaults.sha \in Option(Text) /\ y.sha = r.sha
    BY SourceTypes, InstanceFields
  <2>3. \A d \in {r.sha, c.defaults.sha} \ {None} : Symbols(d) \cap {" ", "\\"} = {}
    BY DEF Plain
  <2>4. QED
    BY <2>1, <2>2, <2>3 DEF Or, NonEmpty, Option
<1>4. QED
  BY <1>1, <1>2, <1>3

\* The labels and caches of a spec
LEMMA LoweredLists ==
  ASSUME NEW c, Usable(c), Plain(c), NEW r \in Runners(c), NEW y, InstanceOf(y, r), NEW slot,
         Lowerable(c, y, slot), NEW k, NEW s, s = LowerToEffective(c, y, slot, k)
  PROVE  /\ IsFiniteSet(s.labels)
         /\ \A l \in s.labels : l \in Text /\ l # <<>> /\ Symbols(l) \cap {" ", "\\", Comma} = {}
         /\ IsFiniteSet(s.caches) /\ \A b \in s.caches : Label(b.name)
<1>1. /\ IsFiniteSet(s.labels)
      /\ \A l \in s.labels : l \in Text /\ l # <<>> /\ Symbols(l) \cap {" ", "\\", Comma} = {}
  <2>1. s.labels = MergeLabels(y, c.defaults)
    BY LoweredFields
  <2>2. PICK a : a = c.defaults.labels
    OBVIOUS
  <2>3. PICK b : b = y.labels
    OBVIOUS
  <2>4. a \in Seq(Text) /\ b \in Seq(Text) /\ b = r.labels
    BY <2>2, <2>3, SourceTypes, InstanceFields
  <2>5. a \o b \in Seq(Text) /\ ToSet(a \o b) = ToSet(a) \cup ToSet(b)
    BY <2>4, ConcatElements
  <2>6. IsFiniteSet(ToSet(a \o b)) /\ ToSet(a \o b) \subseteq Text
    BY <2>5, FiniteElements, ElementsOf
  <2>7. \A l \in ToSet(a) \cup ToSet(b) : l # <<>> /\ Symbols(l) \cap {" ", "\\", Comma} = {}
    BY <2>2, <2>4 DEF Plain
  <2>8. CASE a \o b = <<>>
    <3>1. s.labels = {y.name}
      BY <2>1, <2>2, <2>3, <2>8 DEF MergeLabels
    <3>2. Label(y.name)
      BY SourceTypes, IdentifierText
    <3>3. IsFiniteSet({y.name})
      BY FS_Singleton
    <3>4. QED
      BY <3>1, <3>2, <3>3 DEF Label, Bare, Symbols, White
  <2>9. CASE a \o b # <<>>
    <3>1. s.labels = ToSet(a \o b)
      BY <2>1, <2>2, <2>3, <2>9 DEF MergeLabels
    <3>2. QED
      BY <2>5, <2>6, <2>7, <3>1
  <2>10. QED
    BY <2>8, <2>9
<1>2. IsFiniteSet(s.caches) /\ \A b \in s.caches : Label(b.name)
  <2>1. s.caches = {EffectiveCacheBinding(m, c.pools[m], k) : m \in ToSet(y.caches)}
    BY LoweredFields
  <2>2. y.caches \in Seq(Text) /\ y.caches = r.caches
    BY SourceTypes, InstanceFields
  <2>3. IsFiniteSet(ToSet(y.caches)) /\ ToSet(y.caches) \subseteq Text
    BY <2>2, FiniteElements, ElementsOf
  <2>4. PICK f : f = [m \in ToSet(y.caches) |-> EffectiveCacheBinding(m, c.pools[m], k)]
    OBVIOUS
  <2>5. f \in Surjection(ToSet(y.caches), s.caches)
    BY <2>1, <2>4 DEF Surjection
  <2>6. IsFiniteSet(s.caches)
    BY <2>3, <2>5, FS_Surjection
  <2>7. \A m \in ToSet(y.caches) : Label(m)
    BY <2>2, <2>3, IdentifierText DEF Usable, LoadConfig, ValidateCachePoolNames
  <2>8. \A m : EffectiveCacheBinding(m, c.pools[m], k).name = m
    BY DEF EffectiveCacheBinding
  <2>9. QED
    BY <2>1, <2>6, <2>7, <2>8
<1>3. QED
  BY <1>1, <1>2

\* The network and the environment of a spec
LEMMA LoweredTables ==
  ASSUME NEW c, Usable(c), NEW r \in Runners(c), NEW y, InstanceOf(y, r), NEW slot,
         Lowerable(c, y, slot), NEW k, NEW s, s = LowerToEffective(c, y, slot, k)
  PROVE  /\ s.network # None => s.network.spec.dns \in Option(Seq(Addresses))
         /\ IsFiniteSet(DOMAIN s.env.vars)
         /\ \A m \in DOMAIN s.env.vars : m \in Text /\ s.env.vars[m] \in Text
         /\ s.env.prepend \in Texts /\ s.env.append \in Texts
<1>1. s.network # None => s.network.spec.dns \in Option(Seq(Addresses))
  <2> SUFFICES ASSUME s.network # None PROVE s.network.spec.dns \in Option(Seq(Addresses))
    OBVIOUS
  <2>1. s.network = NetworkBinding(c, y, slot)
    BY LoweredFields
  <2>2. PICK key : key = NetworkOf(c, y)
    OBVIOUS
  <2>3. key # None /\ s.network = EffectiveNetworkBinding(key, c.networks[key], slot)
    BY <2>1, <2>2 DEF NetworkBinding
  <2>4. PICK w : w = c.networks[key]
    OBVIOUS
  <2>5. IsNetwork(w)
    <3>1. key \in DOMAIN c.networks
      BY <2>2, <2>3 DEF Lowerable, NetworkUsable
    <3>2. QED
      BY <2>4, <3>1 DEF Usable, IsConfig
  <2>6. PICK g : g = w.egress
    OBVIOUS
  <2>7. w \in [mode : {"netns", "open"}, egress : {g}, allow : Seq(Cidrs), deny : Seq(Cidrs),
              families : Texts, dns : Option(Seq(Addresses)), ipv6 : BOOLEAN]
    BY <2>5, <2>6 DEF IsNetwork
  <2>8. s.network.spec.dns = w.dns
    <3>1. PICK f : f = ToSet(w.families)
      OBVIOUS
    <3>2. PICK a : a = {Trunc(x) : x \in ToSet(w.allow)}
      OBVIOUS
    <3>3. PICK d : d = {Trunc(x) : x \in ToSet(w.deny)}
      OBVIOUS
    <3>4. CanonicalizeNetworkSpec(w) = [w EXCEPT !.families = f, !.allow = a, !.deny = d]
      BY <2>7, <3>1, <3>2, <3>3 DEF CanonicalizeNetworkSpec
    <3>5. s.network.spec = CanonicalizeNetworkSpec(w)
      BY <2>3, <2>4 DEF EffectiveNetworkBinding
    <3>6. QED
      BY <2>7, <3>4, <3>5
  <2>9. QED
    BY <2>7, <2>8
<1>2. PICK e : e = y.env
  OBVIOUS
<1>3. PICK d : d = c.defaults.env
  OBVIOUS
<1>4. IsEnvironment(e) /\ IsEnvironment(d)
  BY <1>2, <1>3, SourceTypes
<1>5. s.env = MergeEnvironment(e, d)
  BY <1>2, <1>3, LoweredFields
<1>6. /\ IsFiniteSet(DOMAIN s.env.vars)
      /\ \A m \in DOMAIN s.env.vars : m \in Text /\ s.env.vars[m] \in Text
  <2>1. s.env.vars = [m \in DOMAIN e.vars \cup DOMAIN d.vars |->
                        IF m \in DOMAIN e.vars THEN e.vars[m] ELSE d.vars[m]]
    BY <1>5 DEF MergeEnvironment
  <2>2. IsFiniteSet(DOMAIN e.vars \cup DOMAIN d.vars)
    BY <1>4, FS_Union DEF IsEnvironment
  <2>3. QED
    BY <1>4, <2>1, <2>2 DEF IsEnvironment
<1>7. ASSUME NEW a \in Texts, NEW b \in Texts PROVE Additive(a, b) \in Texts
  <2>1. PICK q : q = a \o b
    OBVIOUS
  <2>2. q \in Seq(Text)
    BY <2>1, ConcatProperties DEF Texts
  <2>3. Deduped(q) \in Seq(Text)
    BY <2>2, DedupedElements
  <2>4. QED
    BY <2>1, <2>3 DEF Additive, Texts
<1>8. e.prepend \in Texts /\ e.append \in Texts /\ d.prepend \in Texts /\ d.append \in Texts
  <2>1. PICK ev : ev = e.vars
    OBVIOUS
  <2>2. PICK dv : dv = d.vars
    OBVIOUS
  <2>3. e \in [vars : {ev}, prepend : Texts, append : Texts]
        /\ d \in [vars : {dv}, prepend : Texts, append : Texts]
    BY <1>4, <2>1, <2>2 DEF IsEnvironment
  <2>4. QED
    BY <2>3
<1>9. s.env.prepend = Additive(d.prepend, e.prepend) /\ s.env.append = Additive(d.append, e.append)
  BY <1>5 DEF MergeEnvironment
<1>10. QED
  BY <1>1, <1>6, <1>7, <1>8, <1>9

\* What lowering makes of a usable config is typed.
LEMMA LoweredTyped ==
  ASSUME NEW c, Usable(c), Plain(c), NEW n \in Named(c), NEW k
  PROVE  Typed(Lowered(c, n, k)) /\ Lowered(c, n, k).name = n
<1>1. PICK p : p = Place(ExpandCounts(c), n)
  OBVIOUS
<1>2. PICK r \in Runners(c), y \in {ExpandCounts(c)[p]} :
        /\ InstanceOf(y, r) /\ y.name = n /\ Lowerable(c, y, p - 1)
        /\ Lowered(c, n, k) = LowerToEffective(c, y, p - 1, k)
  BY <1>1, Instance
<1>3. PICK s : s = Lowered(c, n, k)
  OBVIOUS
<1>4. IsSpec(s) /\ s.name = n
  BY <1>2, <1>3, LoweredFields
<1>5. /\ Label(s.name) /\ Label(s.auth) /\ Label(s.zone) /\ Len(s.zone) <= TRUST_ZONE_MAX_LEN
      /\ s.url \in Text /\ s.arch \in Archs
  BY <1>2, <1>3, LoweredNames
<1>6. /\ s.version # None => s.version \in Text /\ ValidateVersion(s.version)
      /\ s.tarball # None => s.version # None
      /\ s.sha # None => s.sha \in Text /\ Symbols(s.sha) \cap {" ", "\\"} = {}
  BY <1>2, <1>3, LoweredPins
<1>7. /\ IsFiniteSet(s.labels)
      /\ \A l \in s.labels : l \in Text /\ l # <<>> /\ Symbols(l) \cap {" ", "\\", Comma} = {}
      /\ IsFiniteSet(s.caches) /\ \A b \in s.caches : Label(b.name)
  BY <1>2, <1>3, LoweredLists
<1>8. /\ s.network # None => s.network.spec.dns \in Option(Seq(Addresses))
      /\ IsFiniteSet(DOMAIN s.env.vars)
      /\ \A m \in DOMAIN s.env.vars : m \in Text /\ s.env.vars[m] \in Text
      /\ s.env.prepend \in Texts /\ s.env.append \in Texts
  BY <1>2, <1>3, LoweredTables
<1>9. Typed(s)
  BY <1>4, <1>5, <1>6, <1>7, <1>8 DEF Typed
<1>10. QED
  BY <1>3, <1>4, <1>9

-----------------------------------------------------------------------------
(* From one plan to the next *)

\* Two specs of one runner under two renderers
SameButSchema(t, s) ==
  /\ t.name = s.name /\ t.url = s.url /\ t.arch = s.arch /\ t.labels = s.labels
  /\ t.memory = s.memory /\ t.version = s.version /\ t.sha = s.sha /\ t.tarball = s.tarball
  /\ t.auth = s.auth /\ t.zone = s.zone /\ t.network = s.network /\ t.proxy = s.proxy
  /\ t.hooks = s.hooks /\ t.hard = s.hard /\ t.cpus = s.cpus /\ t.mems = s.mems
  /\ t.env = s.env /\ {b.name : b \in t.caches} = {b.name : b \in s.caches}

\* The renderer shows in nothing but the schema.
LEMMA Schemaless ==
  ASSUME NEW c, Usable(c), NEW n \in Named(c), NEW k, NEW m
  PROVE  SameButSchema(Lowered(c, n, k), Lowered(c, n, m))
<1>1. PICK p : p = Place(ExpandCounts(c), n)
  OBVIOUS
<1>2. PICK r \in Runners(c), y \in {ExpandCounts(c)[p]} :
        \A j : Lowered(c, n, j) = LowerToEffective(c, y, p - 1, j)
  BY <1>1, Instance
<1>3. PICK s : s = Lowered(c, n, k)
  OBVIOUS
<1>4. PICK t : t = Lowered(c, n, m)
  OBVIOUS
<1>5. \A j, b : EffectiveCacheBinding(b, c.pools[b], j).name = b
  BY DEF EffectiveCacheBinding
<1>6. {b.name : b \in s.caches} = ToSet(y.caches) /\ {b.name : b \in t.caches} = ToSet(y.caches)
  <2>1. s.caches = {EffectiveCacheBinding(b, c.pools[b], k) : b \in ToSet(y.caches)}
    BY <1>2, <1>3, LoweredFields
  <2>2. t.caches = {EffectiveCacheBinding(b, c.pools[b], m) : b \in ToSet(y.caches)}
    BY <1>2, <1>4, LoweredFields
  <2>3. ASSUME NEW X, NEW q, \A b \in X : \E z \in q : z.name = b, \A z \in q : z.name \in X
        PROVE  {b.name : b \in q} = X
    BY <2>3
  <2>4. PICK X : X = ToSet(y.caches)
    OBVIOUS
  <2>5. (\A b \in X : \E z \in s.caches : z.name = b) /\ \A z \in s.caches : z.name \in X
    <3>1. ASSUME NEW b \in X PROVE \E z \in s.caches : z.name = b
      <4>1. PICK e : e = EffectiveCacheBinding(b, c.pools[b], k)
        OBVIOUS
      <4>2. e \in s.caches
        BY <2>1, <2>4, <4>1
      <4>3. QED
        BY <1>5, <4>1, <4>2
    <3>2. \A z \in s.caches : z.name \in X
      BY <1>5, <2>1, <2>4
    <3>3. QED
      BY <3>1, <3>2
  <2>6. (\A b \in X : \E z \in t.caches : z.name = b) /\ \A z \in t.caches : z.name \in X
    <3>1. ASSUME NEW b \in X PROVE \E z \in t.caches : z.name = b
      <4>1. PICK e : e = EffectiveCacheBinding(b, c.pools[b], m)
        OBVIOUS
      <4>2. e \in t.caches
        BY <2>2, <2>4, <4>1
      <4>3. QED
        BY <1>5, <4>1, <4>2
    <3>2. \A z \in t.caches : z.name \in X
      BY <1>5, <2>2, <2>4
    <3>3. QED
      BY <3>1, <3>2
  <2>7. {b.name : b \in s.caches} = X /\ {b.name : b \in t.caches} = X
    BY <2>3, <2>5, <2>6
  <2>8. QED
    BY <2>4, <2>7
<1>7. /\ s.name = t.name /\ s.url = t.url /\ s.arch = t.arch /\ s.labels = t.labels
      /\ s.memory = t.memory /\ s.version = t.version /\ s.sha = t.sha /\ s.tarball = t.tarball
      /\ s.auth = t.auth /\ s.zone = t.zone /\ s.network = t.network
  BY <1>2, <1>3, <1>4, LoweredFields
<1>8. /\ s.proxy = t.proxy /\ s.hooks = t.hooks /\ s.hard = t.hard /\ s.cpus = t.cpus
      /\ s.mems = t.mems /\ s.env = t.env
  BY <1>2, <1>3, <1>4, LoweredFields
<1>9. QED
  BY <1>3, <1>4, <1>6, <1>7, <1>8 DEF SameButSchema

\* Spec s is what config c asks of runner n under renderer k, with a version.
Asked(s, c, n, k) ==
  /\ SpecHash(s) = SpecHash(Pinned(Lowered(c, n, k), s.version))
  /\ Lowered(c, n, k).version \in {None, s.version}

\* What was asked for under one renderer agrees with what is asked for under another.
LEMMA AskedAgain ==
  ASSUME NEW c, Usable(c), Plain(c), NEW n \in Named(c), NEW s, IsSpec(s), NEW k,
         Asked(s, c, n, k), NEW m, NEW t, t = Pinned(Lowered(c, n, m), s.version)
  PROVE  /\ SameButSchema(t, s) /\ IsSpec(t)
         /\ Lowered(c, n, m).version \in {None, s.version} /\ Lowered(c, n, m).zone = s.zone
<1>1. PICK l : l = Lowered(c, n, k)
  OBVIOUS
<1>2. PICK w : w = Lowered(c, n, m)
  OBVIOUS
<1>3. IsSpec(l) /\ IsSpec(w)
  BY <1>1, <1>2, LoweredTyped DEF Typed
<1>4. PICK v : v = Pinned(l, s.version)
  OBVIOUS
<1>5. IsSpec(v) /\ v.version = s.version /\ SameButVersion(v, l)
  BY <1>3, <1>4, WithVersion
<1>6. IsSpec(t) /\ t.version = s.version /\ SameButVersion(t, w)
  BY <1>2, <1>3, WithVersion
<1>7. SameButSchema(l, w)
  BY <1>1, <1>2, Schemaless
<1>8. SpecHash(s) = SpecHash(v) /\ l.version \in {None, s.version}
  BY <1>1, <1>4 DEF Asked
<1>9. \A x : CachePoolHash(x).name = x.name
  BY DEF CachePoolHash
<1>10. {x.name : x \in s.caches} = {x.name : x \in v.caches}
  <2>1. {CachePoolHash(x) : x \in s.caches} = {CachePoolHash(x) : x \in v.caches}
    BY <1>3, <1>5, <1>8, HashTells
  <2>2. {x.name : x \in s.caches} = {z.name : z \in {CachePoolHash(x) : x \in s.caches}}
    BY <1>9
  <2>3. {x.name : x \in v.caches} = {z.name : z \in {CachePoolHash(x) : x \in v.caches}}
    BY <1>9
  <2>4. QED
    BY <2>1, <2>2, <2>3
<1>11. /\ s.name = v.name /\ s.url = v.url /\ s.arch = v.arch /\ s.labels = v.labels
       /\ s.memory = v.memory /\ s.sha = v.sha /\ s.tarball = v.tarball /\ s.auth = v.auth
       /\ s.zone = v.zone /\ s.network = v.network /\ s.proxy = v.proxy /\ s.hooks = v.hooks
       /\ s.hard = v.hard /\ s.cpus = v.cpus /\ s.mems = v.mems /\ s.env = v.env
  BY <1>5, <1>8, HashTells
<1>12. SameButSchema(t, s)
  <2>1. t.caches = w.caches /\ v.caches = l.caches
    BY <1>5, <1>6 DEF SameButVersion
  <2>2. {x.name : x \in l.caches} = {x.name : x \in w.caches}
    BY <1>7 DEF SameButSchema
  <2>3. {x.name : x \in t.caches} = {x.name : x \in s.caches}
    BY <1>10, <2>1, <2>2
  <2>4. /\ t.name = w.name /\ t.url = w.url /\ t.arch = w.arch /\ t.labels = w.labels
        /\ t.memory = w.memory /\ t.sha = w.sha /\ t.tarball = w.tarball /\ t.auth = w.auth
        /\ t.zone = w.zone /\ t.network = w.network /\ t.proxy = w.proxy
        /\ t.hooks = w.hooks /\ t.hard = w.hard /\ t.cpus = w.cpus /\ t.mems = w.mems
        /\ t.env = w.env
    BY <1>6 DEF SameButVersion
  <2>5. /\ v.name = l.name /\ v.url = l.url /\ v.arch = l.arch /\ v.labels = l.labels
        /\ v.memory = l.memory /\ v.sha = l.sha /\ v.tarball = l.tarball /\ v.auth = l.auth
        /\ v.zone = l.zone /\ v.network = l.network /\ v.proxy = l.proxy
        /\ v.hooks = l.hooks /\ v.hard = l.hard /\ v.cpus = l.cpus /\ v.mems = l.mems
        /\ v.env = l.env
    BY <1>5 DEF SameButVersion
  <2>6. /\ l.name = w.name /\ l.url = w.url /\ l.arch = w.arch /\ l.labels = w.labels
        /\ l.memory = w.memory /\ l.sha = w.sha /\ l.tarball = w.tarball /\ l.auth = w.auth
        /\ l.zone = w.zone /\ l.network = w.network /\ l.proxy = w.proxy
        /\ l.hooks = w.hooks /\ l.hard = w.hard /\ l.cpus = w.cpus /\ l.mems = w.mems
        /\ l.env = w.env
    BY <1>7 DEF SameButSchema
  <2>7. t.version = s.version
    BY <1>6
  <2>8. /\ v.name = s.name /\ v.url = s.url /\ v.arch = s.arch /\ v.labels = s.labels
        /\ v.memory = s.memory /\ v.sha = s.sha /\ v.tarball = s.tarball /\ v.auth = s.auth
        /\ v.zone = s.zone /\ v.network = s.network /\ v.proxy = s.proxy
        /\ v.hooks = s.hooks /\ v.hard = s.hard /\ v.cpus = s.cpus /\ v.mems = s.mems
        /\ v.env = s.env
    BY <1>11
  <2>9. /\ t.name = s.name /\ t.url = s.url /\ t.arch = s.arch /\ t.labels = s.labels
    BY <2>4, <2>5, <2>6, <2>8, Zenon
  <2>10. /\ t.memory = s.memory /\ t.sha = s.sha /\ t.tarball = s.tarball /\ t.auth = s.auth
    BY <2>4, <2>5, <2>6, <2>8, Zenon
  <2>11. /\ t.zone = s.zone /\ t.network = s.network /\ t.proxy = s.proxy
         /\ t.hooks = s.hooks
    BY <2>4, <2>5, <2>6, <2>8, Zenon
  <2>12. /\ t.hard = s.hard /\ t.cpus = s.cpus /\ t.mems = s.mems /\ t.env = s.env
    BY <2>4, <2>5, <2>6, <2>8, Zenon
  <2>13. QED
    BY <2>3, <2>7, <2>9, <2>10, <2>11, <2>12, Zenon DEF SameButSchema
<1>13. w.version \in {None, s.version} /\ w.zone = s.zone
  <2>1. w.version = l.version /\ w.zone = l.zone
    BY <1>7 DEF SameButSchema
  <2>2. v.zone = l.zone
    BY <1>5 DEF SameButVersion
  <2>3. QED
    BY <1>8, <1>11, <2>1, <2>2
<1>14. QED
  BY <1>2, <1>6, <1>12, <1>13

\* The specs of a plan
LEMMA Wanting ==
  ASSUME NEW i \in Accepted, NEW l \in Lookups, NEW k \in ToSet(Schemas)
  PROVE  /\ Wants[<<i, l, k>>] = [n \in Named(Configs[i]) |-> Tracked(Lowered(Configs[i], n, k), l)]
         /\ <<i, l, k>> \in DOMAIN Wants /\ Usable(Configs[i])
<1>1. PICK S : S = Accepted \X Lookups \X ToSet(Schemas)
  OBVIOUS
<1>2. <<i, l, k>> \in S
  BY <1>1
<1>3. Wants = [j \in S |-> Desired(Configs[j[1]], j[2], j[3])]
  BY <1>1, Zenon DEF Wants, Table
<1>4. Wants[<<i, l, k>>] = Desired(Configs[i], l, k) /\ <<i, l, k>> \in DOMAIN Wants
  BY <1>2, <1>3
<1>5. Usable(Configs[i])
  BY PlanConstants DEF Usable, Accepted
<1>6. QED
  BY <1>4, <1>5, DesiredIs

\* A spec gets the version that it says, or else the one that was looked up.
LEMMA TrackedIs ==
  ASSUME NEW s, Typed(s), NEW l
  PROVE  Tracked(s, l) = Pinned(s, Or(s.version, l))
<1>1. IsSpec(s) /\ (s.tarball # None => s.version # None)
  BY DEF Typed
<1>2. CASE s.version = None
  BY <1>1, <1>2 DEF Tracked, Or, Pinned
<1>3. CASE s.version # None
  <2>1. Pinned(s, s.version) = s
    BY <1>1, SameVersion
  <2>2. QED
    BY <1>3, <2>1 DEF Tracked, Or
<1>4. QED
  BY <1>2, <1>3

Versions == VersionsOf(Wanted)

\* What can be on the disk
Written(s) ==
  /\ s \in Specs /\ IsSpec(s) /\ Sound(s) /\ Renderable(s)
  /\ s.version \in Versions /\ s.version \in Text /\ ValidateVersion(s.version)

\* None is no set of labels, whatever the version.
LEMMA LabelsKnown ==
  ASSUME NEW s \in Specs
  PROVE  s.labels # None
<1>1. PICK w \in Wanted : s \in Versioned(w, Versions)
  BY DEF Specs, SpecsOf, Versions
<1>2. w.labels # None
  BY <1>1, LabelsAreSome
<1>3. CASE s = w
  BY <1>2, <1>3
<1>4. CASE s # w
  <2>1. PICK v : s = Pinned(w, v)
    BY <1>1, <1>4 DEF Versioned, Pinned
  <2>2. s.labels = w.labels
    BY <2>1 DEF Pinned
  <2>3. QED
    BY <1>2, <2>2
<1>5. QED
  BY <1>3, <1>4

\* Discovery finds what was written.
LEMMA WrittenFound ==
  ASSUME NEW s, Written(s), NEW f, f = Discovered[s]
  PROVE  /\ f.hash = SpecHash(s)
         /\ f.annotations.url = s.url /\ f.annotations.auth = s.auth
         /\ f.annotations.version = s.version /\ f.annotations.labels = s.labels
         /\ f.annotations.arch = s.arch /\ f.annotations.sha = s.sha
         /\ f.annotations.tarball = s.tarball /\ f.annotations.zone = s.zone
         /\ f.annotations.mode = Mode(s)
         /\ f.annotations.caches = {b.name : b \in s.caches}
         /\ s.network # None =>
              /\ f.annotations.dns = DnsToAnnotation(s.network.spec.dns)
              /\ f.annotations.ipv6 = Ipv6ToAnnotation(s.network.spec.ipv6)
<1>1. f = Discover(ParsedUnit(RenderIdentity(s)))
  BY DEF Discovered, Table, Written
<1>2. PICK u : u = ParsedUnit(RenderIdentity(s))
  OBVIOUS
<1>3. f.hash = DiscoveredHash(u)
  BY <1>1, <1>2 DEF Discover
<1>4. DiscoveredHash(u) = SpecHash(s)
  BY <1>2, IdentityParsed DEF Written
<1>5. QED
  BY <1>1, <1>3, <1>4, AnnotationsRead DEF Written

\* The version of a candidate: asked for, looked up, or the one that is installed
Chosen(w, l, old) == Or(Or(w.version, l), IF old.zone = w.zone THEN old.version ELSE None)

\* A runner that is there is compared with what the config asks for in this version.
LEMMA CandidateIs ==
  ASSUME NEW n \in DOMAIN runners, NEW old, old = runners[n].spec, Written(old),
         NEW w, Typed(w), NEW l, NEW want, want[n] = Tracked(w, l)
  PROVE  Candidate(n, want) = Pinned(w, Chosen(w, l, old))
<1>1. PICK x : x = Or(w.version, l)
  OBVIOUS
<1>2. PICK t : t = Pinned(w, x)
  OBVIOUS
<1>3. want[n] = t
  BY <1>1, <1>2, TrackedIs
<1>4. IsSpec(w) /\ IsSpec(t) /\ t.version = x /\ t.zone = w.zone
  <2>1. IsSpec(w)
    BY DEF Typed
  <2>2. IsSpec(t) /\ t.version = x /\ SameButVersion(t, w)
    BY <1>2, <2>1, WithVersion
  <2>3. QED
    BY <2>1, <2>2 DEF SameButVersion
<1>5. Found(n).annotations.version = old.version
  BY WrittenFound DEF Found
<1>6. Candidate(n, want) = InheritRunnerVersion(n, t, old.version)
  BY <1>3, <1>5 DEF Candidate
<1>7. old.version \notin {None, <<>>} /\ ValidateVersion(old.version)
  BY VersionText DEF Written
<1>8. CASE x = None /\ old.zone = w.zone
  <2>1. Candidate(n, want) = Pinned(t, old.version)
    BY <1>4, <1>6, <1>7, <1>8 DEF InheritRunnerVersion, Installed, Pinned
  <2>2. Pinned(t, old.version) = Pinned(w, old.version)
    BY <1>2, <1>4, VersionTwice
  <2>3. Chosen(w, l, old) = old.version
    BY <1>1, <1>8 DEF Chosen, Or
  <2>4. QED
    BY <2>1, <2>2, <2>3
<1>9. CASE ~(x = None /\ old.zone = w.zone)
  <2>1. Candidate(n, want) = t
    BY <1>4, <1>6, <1>9 DEF InheritRunnerVersion, Installed
  <2>2. Chosen(w, l, old) = x
    BY <1>1, <1>9 DEF Chosen, Or
  <2>3. QED
    BY <1>2, <2>1, <2>2
<1>10. QED
  BY <1>8, <1>9

\* What the planner makes of a runner that is there
LEMMA ComparedIs ==
  ASSUME NEW old, Written(old), NEW f, f = Discovered[old], NEW s, IsSpec(s),
         NEW good \in BOOLEAN, NEW kind, kind = Compared(f, s, good)
  PROVE  /\ kind \in {"noop", "update", "recreate"}
         /\ kind = "noop" <=> (SpecHash(old) = SpecHash(s) /\ good)
         /\ kind # "recreate" => s.url = old.url /\ s.labels = old.labels /\ s.version = old.version
         /\ SameButSchema(s, old) => kind # "recreate"
<1>1. /\ f.hash = SpecHash(old) /\ f.annotations.url = old.url
      /\ f.annotations.version = old.version /\ f.annotations.labels = old.labels
      /\ f.annotations.arch = old.arch /\ f.annotations.sha = old.sha
      /\ f.annotations.tarball = old.tarball /\ f.annotations.mode = Mode(old)
  BY WrittenFound
<1>2. kind \in {"noop", "update", "recreate"} /\ (kind = "noop" <=> (SpecHash(old) = SpecHash(s) /\ good))
  BY <1>1 DEF Compared
<1>3. PICK a : a = f.annotations
  OBVIOUS
<1>4. \A r : r \in ClassifyRecreateReasons(a, s) <=>
        \/ r = "url" /\ Differs(a.url, s.url)
        \/ r = "version" /\ Differs(a.version, OrEmpty(s.version))
        \/ r = "labels" /\ Differs(a.labels, s.labels)
        \/ r = "arch" /\ Differs(a.arch, s.arch)
        \/ r = "sha" /\ Differs(a.sha, OrEmpty(s.sha))
        \/ r = "tarball" /\ Differs(a.tarball, OrEmpty(s.tarball))
        \/ r = "network" /\ Differs(a.mode, Mode(s))
  BY DEF ClassifyRecreateReasons
<1>5. ASSUME kind # "recreate"
      PROVE  s.url = old.url /\ s.labels = old.labels /\ s.version = old.version
  <2>1. CASE kind = "noop"
    <3>1. SpecHash(old) = SpecHash(s)
      BY <1>2, <2>1
    <3>2. QED
      BY <3>1, HashTells DEF Written
  <2>2. CASE kind = "update"
    <3>1. ClassifyRecreateReasons(a, s) = {}
      BY <1>3, <2>2 DEF Compared
    <3>2. ~Differs(a.url, s.url) /\ ~Differs(a.labels, s.labels)
          /\ ~Differs(a.version, OrEmpty(s.version))
      BY <1>4, <3>1
    <3>3. a.url = s.url
      <4>1. old.url # None
        BY DEF Written, Sound
      <4>2. QED
        BY <1>1, <1>3, <3>2, <4>1 DEF Differs
    <3>4. a.labels = s.labels
      <4>1. old.labels # None
        BY LabelsKnown DEF Written
      <4>2. QED
        BY <1>1, <1>3, <3>2, <4>1 DEF Differs
    <3>5. OrEmpty(s.version) = old.version /\ old.version \notin {None, <<>>}
      <4>1. old.version \notin {None, <<>>}
        BY VersionText DEF Written
      <4>2. QED
        BY <1>1, <1>3, <3>2, <4>1 DEF Differs
    <3>6. QED
      BY <1>1, <1>3, <3>3, <3>4, <3>5 DEF OrEmpty
  <2>3. QED
    BY <1>2, <1>5, <2>1, <2>2
<1>6. ASSUME SameButSchema(s, old) PROVE kind # "recreate"
  <2>1. Mode(s) = Mode(old)
    BY <1>6 DEF SameButSchema, Mode
  <2>2. ClassifyRecreateReasons(a, s) = {}
    BY <1>1, <1>3, <1>4, <1>6, <2>1 DEF SameButSchema, Differs, OrEmpty
  <2>3. QED
    BY <1>3, <2>2 DEF Compared
<1>7. QED
  BY <1>2, <1>5, <1>6

-----------------------------------------------------------------------------
(* What an apply leaves on the host *)

\* A runner as the last apply of config i left it, but for what operators did since
Left(n, i) ==
  /\ runners[n] = [spec |-> runners[n].spec, intact |-> runners[n].intact,
                   extra |-> runners[n].extra]
  /\ runners[n].intact \in BOOLEAN /\ runners[n].extra \in BOOLEAN
  /\ Written(runners[n].spec)
  /\ registered[n] = [url |-> runners[n].spec.url, labels |-> runners[n].spec.labels]
  /\ \E k \in ToSet(Schemas) : Asked(runners[n].spec, Configs[i], n, k)

From(i) == DOMAIN runners = Named(Configs[i]) /\ \A n \in DOMAIN runners : Left(n, i)

\* Nothing has happened since the last apply.
Clean(i) ==
  /\ \A n \in DOMAIN runners :
       runners[n].intact /\ Asked(runners[n].spec, Configs[i], n, Schemas[schema])
  /\ DOMAIN pools = DOMAIN Refs[<<i, None, Schemas[schema]>>]
  /\ \A p \in DOMAIN pools :
       CachePoolHash(pools[p]) =
       CachePoolHash(CachePoolPlan(p, Refs[<<i, None, Schemas[schema]>>][p], Schemas[schema]))

\* Runners without a version of their own have the latest one.
Newest(i) ==
  \A n \in DOMAIN runners, k \in ToSet(Schemas) :
    Lowered(Configs[i], n, k).version = None => runners[n].spec.version = Releases[released]

Positions == released \in 1..Len(Releases) /\ schema \in 1..Len(Schemas)

Applied ==
  /\ applied = [cfg |-> applied.cfg, current |-> applied.current, clean |-> applied.clean]
  /\ applied.cfg \in Accepted /\ From(applied.cfg)
  /\ applied.current => Newest(applied.cfg)
  /\ applied.clean => Clean(applied.cfg)

\* The inductive invariant
HostInv ==
  /\ Positions
  /\ DOMAIN runners = {} \/ \E i \in Accepted : From(i)
  /\ applied # None => Applied

\* The releases are versions, and positions stay in the lists.
LEMMA ReleaseIs ==
  ASSUME Positions
  PROVE  /\ Releases[released] \in ToSet(Releases) /\ Releases[released] \in Text
         /\ ValidateVersion(Releases[released]) /\ Releases[released] \in Versions
         /\ Schemas[schema] \in ToSet(Schemas)
<1>1. Releases \in Seq(Text) /\ Schemas \in Seq(ToSet(Schemas))
  BY PlanConstants
<1>2. DOMAIN Releases = 1..Len(Releases) /\ DOMAIN Schemas = 1..Len(Schemas)
  BY <1>1, LenProperties
<1>3. Releases[released] \in ToSet(Releases) /\ Schemas[schema] \in ToSet(Schemas)
  BY <1>2 DEF Positions, ToSet
<1>4. ToSet(Releases) \subseteq Text
  BY <1>1, ElementsOf
<1>5. Releases[released] \in Text /\ ValidateVersion(Releases[released])
  BY <1>3, <1>4, PlanConstants
<1>6. QED
  BY <1>3, <1>5, InputsConstants DEF Versions, VersionsOf

\* What Execute does to each runner and pool
LEMMA Executed ==
  ASSUME NEW i, NEW online, Apply(i, online), NEW want, want = Wants[Input(i, online)],
         NEW refs, refs = Refs[Input(i, online)]
  PROVE  /\ DOMAIN runners' = DOMAIN want
         /\ \A n \in DOMAIN want :
              /\ runners'[n] = After(n, ActionKind(n, want), Candidate(n, want))
              /\ ActionKind(n, want) # "noop" => Renderable(Candidate(n, want))
              /\ registered'[n] = IF ActionKind(n, want) \in {"create", "recreate"}
                                  THEN [url |-> want[n].url, labels |-> want[n].labels]
                                  ELSE registered[n]
              /\ ActionKind(n, want) \in {"create", "recreate"} => ValidateUrl(want[n].url)
         /\ DOMAIN pools' = DOMAIN refs
         /\ \A p \in DOMAIN refs :
              pools'[p] = IF PoolKind(p, refs) = "noop" THEN pools[p]
                          ELSE CachePoolPlan(p, refs[p], Schemas[schema])
         /\ applied' = [cfg |-> i, current |-> online, clean |-> TRUE]
         /\ released' = released /\ schema' = schema
<1>1. PICK plan : plan = PlanFrom(want, refs)
  OBVIOUS
<1>2. Execute(want, refs, plan)
  BY <1>1 DEF Apply, PlanAndExecute
<1>3. PICK new : new = {n \in DOMAIN want : plan.runners[n] \in {"create", "recreate"}}
  OBVIOUS
<1>4. /\ AcceptedPlan(plan, want, refs)
      /\ \A n \in new : Creatable(want[n])
      /\ runners' = [n \in DOMAIN want |-> After(n, plan.runners[n], Candidate(n, want))]
      /\ pools' = [p \in DOMAIN refs |->
                     IF plan.pools[p] = "noop" THEN pools[p]
                     ELSE CachePoolPlan(p, refs[p], Schemas[schema])]
      /\ registered' = Registrations(want, new)
  BY <1>2, <1>3 DEF Execute
<1>5. \A n \in DOMAIN want : plan.runners[n] = ActionKind(n, want)
  BY <1>1 DEF PlanFrom
<1>6. \A p \in DOMAIN refs : plan.pools[p] = PoolKind(p, refs)
  BY <1>1 DEF PlanFrom
<1>7. DOMAIN runners' = DOMAIN want /\ DOMAIN pools' = DOMAIN refs
  BY <1>4
<1>8. \A n \in DOMAIN want : ActionKind(n, want) # "noop" => Renderable(Candidate(n, want))
  BY <1>4, <1>5 DEF AcceptedPlan, RenderableSpecs
<1>9. \A n \in DOMAIN want : n \in new <=> ActionKind(n, want) \in {"create", "recreate"}
  BY <1>3, <1>5
<1>10. ASSUME NEW n \in DOMAIN want
       PROVE  /\ runners'[n] = After(n, ActionKind(n, want), Candidate(n, want))
              /\ registered'[n] = IF ActionKind(n, want) \in {"create", "recreate"}
                                  THEN [url |-> want[n].url, labels |-> want[n].labels]
                                  ELSE registered[n]
              /\ ActionKind(n, want) \in {"create", "recreate"} => ValidateUrl(want[n].url)
  <2>1. runners'[n] = After(n, plan.runners[n], Candidate(n, want))
    BY <1>4
  <2>2. registered'[n] = IF n \in new THEN [url |-> want[n].url, labels |-> want[n].labels]
                         ELSE registered[n]
    BY <1>4 DEF Registrations
  <2>3. QED
    BY <1>4, <1>5, <1>9, <2>1, <2>2 DEF Creatable
<1>11. ASSUME NEW p \in DOMAIN refs
       PROVE  pools'[p] = IF PoolKind(p, refs) = "noop" THEN pools[p]
                          ELSE CachePoolPlan(p, refs[p], Schemas[schema])
  BY <1>4, <1>6
<1>12. /\ applied' = [cfg |-> i, current |-> online, clean |-> TRUE]
       /\ released' = released /\ schema' = schema
  BY DEF Apply
<1>13. QED
  BY <1>7, <1>8, <1>10, <1>11, <1>12

\* A version of the latest lookup or of a spec
LEMMA LookupIs ==
  ASSUME NEW l \in Lookups, l # None
  PROVE  l \in Text /\ ValidateVersion(l) /\ l \in ToSet(Releases)
<1>1. l \in ToSet(Releases)
  BY DEF Lookups
<1>2. Releases \in Seq(Text) /\ \A v \in ToSet(Releases) : ValidateVersion(v)
  BY PlanConstants
<1>3. QED
  BY <1>1, <1>2, ElementsOf

\* The planner asks for runner n of config i: it lowers to w, the renderer has let it
\* through with the version x, and it gets the version v.
Asking(i, n, l, k, w, x, v) ==
  /\ i \in Accepted /\ n \in Named(Configs[i]) /\ l \in Lookups /\ k \in ToSet(Schemas)
  /\ w = Lowered(Configs[i], n, k) /\ Bare(w.url) /\ w.url \notin {None, <<>>}
  /\ w.version \in {None, x} /\ Renderable(Pinned(w, x)) /\ x \in {None, v}
  /\ v \in Versions /\ v \in Text /\ ValidateVersion(v) /\ Or(w.version, l) \in {None, v}

\* What the planner asks for, in a version that there is, is one of the specs.
LEMMA PlannedSpec ==
  ASSUME NEW i \in Accepted, NEW n \in Named(Configs[i]), NEW k \in ToSet(Schemas),
         NEW w, w = Lowered(Configs[i], n, k), Typed(w),
         NEW l \in Lookups, NEW v \in Versions, Or(w.version, l) \in {None, v}
  PROVE  Pinned(w, v) \in Specs
<1>1. IsSpec(w)
  BY DEF Typed
<1>2. PICK want : want = Wants[<<i, l, k>>]
  OBVIOUS
<1>3. PICK t : t = want[n]
  OBVIOUS
<1>4. t = Pinned(w, Or(w.version, l))
  <2>1. want = [m \in Named(Configs[i]) |-> Tracked(Lowered(Configs[i], m, k), l)]
    BY <1>2, Wanting
  <2>2. t = Tracked(w, l)
    BY <1>3, <2>1
  <2>3. QED
    BY <1>1, <2>2, TrackedIs
<1>5. t \in Wanted
  <2>1. <<i, l, k>> \in DOMAIN Wants /\ n \in DOMAIN want
    <3>1. want = [m \in Named(Configs[i]) |-> Tracked(Lowered(Configs[i], m, k), l)]
      BY <1>2, Wanting
    <3>2. QED
      BY <3>1, Wanting
  <2>2. want \in Range(Wants) /\ t \in Range(want)
    BY <1>2, <1>3, <2>1 DEF Range
  <2>3. QED
    BY <2>2 DEF Wanted
<1>6. t.version = Or(w.version, l)
  BY <1>1, <1>4, WithVersion
<1>7. CASE Or(w.version, l) = v
  <2>1. Pinned(w, v) = t
    BY <1>4, <1>7
  <2>2. QED
    BY <1>5, <2>1 DEF Specs, SpecsOf, Versions, Versioned
<1>8. CASE Or(w.version, l) = None
  <2>1. Pinned(w, v) = Pinned(t, v)
    BY <1>1, <1>4, VersionTwice
  <2>2. Pinned(w, v) \in Versioned(t, Versions)
    BY <1>6, <1>8, <2>1 DEF Versioned, Pinned
  <2>3. QED
    BY <1>5, <2>2 DEF Specs, SpecsOf, Versions
<1>9. QED
  BY <1>7, <1>8

\* A version is nothing that the renderer refuses.
LEMMA RenderableVersion ==
  ASSUME NEW d, Renderable(d), NEW s, SameButVersion(s, d), ValidateVersion(s.version)
  PROVE  Renderable(s)
<1>1. CheckIdentityField(s.version)
  <2>1. Symbols(s.version) \subseteq Digit \cup {"."}
    BY DEF ValidateVersion, Over
  <2>2. Control \cap (Digit \cup {"."}) = {}
    BY DEF Control, Digit
  <2>3. QED
    BY <2>1, <2>2 DEF CheckIdentityField
<1>2. ValidateIdentityFields(s)
  BY <1>1 DEF Renderable, ValidateIdentityFields, SameButVersion
<1>3. QED
  BY <1>2 DEF Renderable, SameButVersion

\* What it asks for can be written.
LEMMA NewSpec ==
  ASSUME PlainConfigs, NEW i, NEW n, NEW l, NEW k, NEW w, NEW x, NEW v,
         Asking(i, n, l, k, w, x, v), NEW s, s = Pinned(w, v)
  PROVE  Written(s) /\ Asked(s, Configs[i], n, k) /\ s.version = v /\ SameButVersion(s, w)
<1> USE DEF Asking
<1>0. PICK d : d = Pinned(w, x)
  OBVIOUS
<1>1. Usable(Configs[i]) /\ Plain(Configs[i])
  BY Wanting, PlanConstants DEF PlainConfigs, Accepted
<1>2. Typed(w) /\ IsSpec(w)
  <2>1. Typed(w)
    BY <1>1, LoweredTyped
  <2>2. QED
    BY <2>1 DEF Typed
<1>3. IsSpec(s) /\ s.version = v /\ SameButVersion(s, w)
  BY <1>2, WithVersion
<1>5. IsSpec(d) /\ d.version = x /\ SameButVersion(d, w)
  <2>1. IsSpec(w)
    BY <1>2
  <2>2. QED
    BY <1>0, <2>1, WithVersion
<1>6. Typed(d)
  BY <1>2, <1>5 DEF Typed, SameButVersion
<1>7. s = Pinned(d, v)
  BY <1>0, <1>2, VersionTwice
<1>8. Sound(s)
  <2>1. Bare(d.url) /\ d.url \notin {None, <<>>} /\ Renderable(d)
    BY <1>0, <1>5 DEF SameButVersion
  <2>2. QED
    BY <1>6, <1>7, <2>1, SoundSpec
<1>9. s \in Specs
  <2>1. l \in Lookups /\ k \in ToSet(Schemas) /\ Or(w.version, l) \in {None, v} /\ v \in Versions
    OBVIOUS
  <2>2. QED
    BY <1>2, <2>1, PlannedSpec
<1>10. Asked(s, Configs[i], n, k)
  <2>1. w.version \in {None, v}
    <3>1. v # None
      BY VersionText
    <3>2. QED
      BY <3>1 DEF Or
  <2>2. QED
    BY <1>3, <2>1 DEF Asked
<1>11. Renderable(s)
  <2>1. Renderable(d)
    BY <1>0
  <2>2. SameButVersion(s, d)
    BY <1>3, <1>5 DEF SameButVersion
  <2>3. QED
    BY <1>3, <2>1, <2>2, RenderableVersion
<1>12. QED
  BY <1>3, <1>8, <1>9, <1>10, <1>11 DEF Written

\* A runner that an apply leaves as the config asks for it
Served(n, i, k) ==
  /\ Left(n, i) /\ runners[n].intact
  /\ Asked(runners[n].spec, Configs[i], n, k)

\* The version of a new runner
LEMMA ResolvedIs ==
  ASSUME NEW w, IsSpec(w), NEW x, NEW d, d = Pinned(w, x)
  PROVE  Resolved(d) = Pinned(w, Or(x, Releases[released]))
<1>1. IsSpec(d) /\ d.version = x
  BY WithVersion
<1>2. Resolved(d) = Pinned(d, Or(x, Releases[released]))
  BY <1>1 DEF Resolved, IsSpec, Pinned
<1>3. Pinned(d, Or(x, Releases[released])) = Pinned(w, Or(x, Releases[released]))
  BY VersionTwice
<1>4. QED
  BY <1>2, <1>3

\* A runner that is created, with the version x that was known, or else the latest
LEMMA CreatedRunner ==
  ASSUME PlainConfigs, HostInv, NEW i \in Accepted, NEW n \in Named(Configs[i]),
         NEW l \in Lookups, NEW k \in ToSet(Schemas), NEW w, w = Lowered(Configs[i], n, k),
         NEW x, Or(w.version, l) \in {None, x}, x \in {None} \cup Versions,
         x # None => x \in Text /\ ValidateVersion(x),
         NEW d, d = Pinned(w, x), Renderable(d), ValidateUrl(w.url),
         NEW e \in BOOLEAN,
         runners'[n] = [spec |-> Resolved(d), intact |-> TRUE, extra |-> e],
         registered'[n] = [url |-> w.url, labels |-> w.labels]
  PROVE  /\ Served(n, i, k)'
         /\ runners'[n].spec.version = Or(x, Releases[released])
<1>1. Usable(Configs[i]) /\ Plain(Configs[i])
  BY Wanting, PlanConstants DEF PlainConfigs, Accepted
<1>2. Typed(w)
  BY <1>1, LoweredTyped
<1>3. IsSpec(w) /\ w.url \in Text
  BY <1>2 DEF Typed
<1>4. Bare(w.url) /\ w.url \notin {None, <<>>}
  BY <1>3, UrlText
<1>5. PICK v : v = Or(x, Releases[released])
  OBVIOUS
<1>6. v \in Versions /\ v \in Text /\ ValidateVersion(v) /\ x \in {None, v}
  BY <1>5, ReleaseIs DEF Or, HostInv
<1>7. w.version \in {None, x} /\ Or(w.version, l) \in {None, v}
  BY <1>6 DEF Or
<1>8. PICK s : s = Pinned(w, v)
  OBVIOUS
<1>9. Written(s) /\ Asked(s, Configs[i], n, k) /\ s.version = v /\ SameButVersion(s, w)
  <2>1. Asking(i, n, l, k, w, x, v)
    BY <1>4, <1>6, <1>7 DEF Asking
  <2>2. QED
    BY <1>8, <2>1, NewSpec
<1>10. Resolved(d) = s
  BY <1>3, <1>5, <1>8, ResolvedIs
<1>11. runners'[n] = [spec |-> s, intact |-> TRUE, extra |-> e]
  BY <1>10
<1>12. registered'[n] = [url |-> s.url, labels |-> s.labels]
  BY <1>9 DEF SameButVersion
<1>13. Left(n, i)'
  BY <1>9, <1>11, <1>12 DEF Left
<1>14. QED
  BY <1>5, <1>9, <1>11, <1>13 DEF Served

\* An apply makes every runner what the config asks for.
LEMMA ApplyRunner ==
  ASSUME PlainConfigs, HostInv, NEW i \in Accepted, NEW online \in BOOLEAN, Apply(i, online),
         NEW n \in Named(Configs[i]), NEW k, k = Schemas[schema]
  PROVE  /\ Served(n, i, k)'
         /\ online /\ Lowered(Configs[i], n, k).version = None =>
              runners'[n].spec.version = Releases[released]
<1>1. PICK l : l = Latest(online)
  OBVIOUS
<1>2. /\ l \in Lookups /\ k \in ToSet(Schemas) /\ Releases[released] # None
      /\ online => l = Releases[released]
  <2>1. Releases[released] \in ToSet(Releases) /\ Releases[released] \in Text /\ k \in ToSet(Schemas)
    BY ReleaseIs DEF HostInv
  <2>2. QED
    BY <1>1, <2>1, InputsConstants DEF Latest, Lookups
<1>3. Usable(Configs[i]) /\ Plain(Configs[i])
  BY <1>2, Wanting, PlanConstants DEF PlainConfigs, Accepted
<1>4. PICK w : w = Lowered(Configs[i], n, k)
  OBVIOUS
<1>5. Typed(w)
  BY <1>3, <1>4, LoweredTyped
<1>6. IsSpec(w) /\ w.url \in Text /\ (w.version # None => w.version \in Text /\ ValidateVersion(w.version))
  BY <1>5 DEF Typed
<1>7. PICK want : want = Wants[Input(i, online)]
  OBVIOUS
<1>8. want = [m \in Named(Configs[i]) |-> Tracked(Lowered(Configs[i], m, k), l)]
  BY <1>1, <1>2, <1>7, Wanting DEF Input
<1>9. DOMAIN want = Named(Configs[i]) /\ want[n] = Tracked(w, l)
  BY <1>4, <1>8
<1>10. PICK x : x = Or(w.version, l)
  OBVIOUS
<1>11. want[n] = Pinned(w, x)
  BY <1>5, <1>9, <1>10, TrackedIs
<1>12. want[n].url = w.url /\ want[n].labels = w.labels /\ want[n].version = x
  <2>1. PICK t : t = want[n]
    OBVIOUS
  <2>2. SameButVersion(t, w) /\ t.version = x
    BY <1>6, <1>11, <2>1, WithVersion
  <2>3. QED
    BY <2>1, <2>2 DEF SameButVersion
<1>13. x \in {None} \cup Versions /\ (x # None => x \in Text /\ ValidateVersion(x))
  <2>1. x # None => x \in Text /\ ValidateVersion(x)
    BY <1>2, <1>6, <1>10, LookupIs DEF Or
  <2>2. want[n] \in Wanted
    <3>1. Input(i, online) \in DOMAIN Wants
      BY <1>1, <1>2, Wanting DEF Input
    <3>2. want \in Range(Wants) /\ want[n] \in Range(want)
      BY <1>7, <1>9, <3>1 DEF Range
    <3>3. QED
      BY <3>2 DEF Wanted
  <2>3. QED
    BY <1>12, <2>1, <2>2 DEF Versions, VersionsOf
<1>14. PICK kind : kind = ActionKind(n, want)
  OBVIOUS
<1>15. PICK d : d = Candidate(n, want)
  OBVIOUS
<1>16. /\ runners'[n] = After(n, kind, d)
       /\ kind # "noop" => Renderable(d)
       /\ registered'[n] = IF kind \in {"create", "recreate"}
                           THEN [url |-> w.url, labels |-> w.labels] ELSE registered[n]
       /\ kind \in {"create", "recreate"} => ValidateUrl(w.url)
  BY <1>7, <1>9, <1>12, <1>14, <1>15, Executed
<1>17. CASE n \notin DOMAIN runners
  <2>1. kind = "create" /\ d = want[n]
    BY <1>9, <1>14, <1>15, <1>17 DEF ActionKind, Candidate
  <2>2. runners'[n] = [spec |-> Resolved(d), intact |-> TRUE, extra |-> FALSE]
    BY <1>16, <2>1 DEF After
  <2>3. d = Pinned(w, x) /\ Renderable(d) /\ ValidateUrl(w.url)
    BY <1>11, <1>16, <2>1
  <2>4. registered'[n] = [url |-> w.url, labels |-> w.labels]
    BY <1>16, <2>1
  <2>5. Served(n, i, k)' /\ runners'[n].spec.version = Or(x, Releases[released])
    <3>1. PICK e \in BOOLEAN : e = FALSE
      OBVIOUS
    <3>2. runners'[n] = [spec |-> Resolved(d), intact |-> TRUE, extra |-> e]
      BY <2>2, <3>1
    <3>3. Or(w.version, l) \in {None, x} /\ d = Pinned(w, x) /\ Renderable(d) /\ ValidateUrl(w.url)
      BY <1>10, <2>3
    <3>4. QED
      BY <1>2, <1>4, <1>13, <2>4, <3>2, <3>3, CreatedRunner, SMTT(60)
  <2>6. QED
    BY <1>2, <1>4, <1>10, <2>5 DEF Or
<1>18. CASE n \in DOMAIN runners
  <2>1. PICK j \in Accepted : Left(n, j)
    BY <1>18 DEF HostInv, From
  <2>2. PICK old : old = runners[n].spec
    OBVIOUS
  <2>3. Written(old) /\ InSync(n) \in BOOLEAN /\ (InSync(n) => runners[n].intact)
    BY <2>1, <2>2 DEF Left, InSync
  <2>4. PICK y : y = Chosen(w, l, old)
    OBVIOUS
  <2>5. d = Pinned(w, y)
    BY <1>5, <1>9, <1>15, <1>18, <2>2, <2>3, <2>4, CandidateIs
  <2>6. IsSpec(d) /\ d.version = y /\ SameButVersion(d, w)
    <3>1. IsSpec(w)
      BY <1>6
    <3>2. QED
      BY <2>5, <3>1, WithVersion
  <2>7. /\ y \in {x, old.version, None} /\ (x # None => y = x)
        /\ old.version \in Versions /\ old.version \in Text /\ ValidateVersion(old.version)
        /\ old.version # None
    <3>1. old.version \in Versions /\ old.version \in Text /\ ValidateVersion(old.version)
      BY <2>3 DEF Written
    <3>2. old.version # None
      BY <3>1, VersionText
    <3>3. QED
      BY <1>10, <2>4, <3>1, <3>2 DEF Chosen, Or
  <2>8. kind = Compared(Found(n), d, InSync(n))
    BY <1>9, <1>14, <1>15, <1>18 DEF ActionKind
  <2>9. /\ kind \in {"noop", "update", "recreate"}
        /\ kind = "noop" <=> (SpecHash(old) = SpecHash(d) /\ InSync(n))
        /\ kind # "recreate" => d.url = old.url /\ d.labels = old.labels /\ d.version = old.version
    BY <2>2, <2>3, <2>6, <2>8, ComparedIs DEF Found
  <2>10. CASE kind = "recreate"
    <3>1. runners'[n] = [spec |-> Resolved(d), intact |-> TRUE, extra |-> runners[n].extra]
      BY <1>16, <2>5, <2>10 DEF After
    <3>2. Renderable(d) /\ ValidateUrl(w.url)
      BY <1>16, <2>10
    <3>3. registered'[n] = [url |-> w.url, labels |-> w.labels]
      BY <1>16, <2>10
    <3>4. runners[n].extra \in BOOLEAN
      BY <2>1 DEF Left
    <3>5. Or(w.version, l) \in {None, y} /\ y \in {None} \cup Versions
          /\ (y # None => y \in Text /\ ValidateVersion(y))
      BY <1>10, <1>13, <2>7
    <3>6. Served(n, i, k)' /\ runners'[n].spec.version = Or(y, Releases[released])
      BY <1>2, <1>4, <2>5, <3>1, <3>2, <3>3, <3>4, <3>5, CreatedRunner, SMTT(60)
    <3>7. QED
      BY <1>2, <1>4, <1>10, <2>7, <3>6 DEF Or
  <2>11. CASE kind # "recreate"
    <3>1. d.url = old.url /\ d.labels = old.labels /\ y = old.version /\ kind \in {"noop", "update"}
      BY <2>6, <2>9, <2>11
    <3>2. registered'[n] = [url |-> old.url, labels |-> old.labels]
      BY <1>16, <2>1, <2>2, <3>1 DEF Left
    <3>3. w.version \in {None, old.version} /\ Or(w.version, l) \in {None, old.version}
      BY <1>10, <2>7, <3>1 DEF Or
    <3>4. CASE kind = "noop"
      <4>1. runners'[n] = runners[n] /\ runners[n].intact
        BY <1>16, <2>3, <2>9, <3>4 DEF After
      <4>2. Asked(old, Configs[i], n, k)
        BY <1>4, <2>5, <2>9, <3>1, <3>3, <3>4 DEF Asked
      <4>3. Left(n, i)'
        BY <1>2, <2>1, <2>2, <3>2, <4>1, <4>2 DEF Left
      <4>4. Served(n, i, k)'
        BY <2>2, <4>1, <4>2, <4>3 DEF Served
      <4>5. QED
        BY <1>2, <1>4, <1>10, <2>2, <2>7, <3>1, <4>1, <4>4 DEF Or
    <3>5. CASE kind = "update"
      <4>1. runners'[n] = [runners[n] EXCEPT !.spec = d, !.intact = TRUE]
        BY <1>16, <3>5 DEF After
      <4>2. Bare(w.url) /\ w.url \notin {None, <<>>}
        <5>1. w.url = old.url
          BY <2>6, <3>1 DEF SameButVersion
        <5>2. QED
          BY <2>3, <5>1 DEF Written, Sound
      <4>3. Renderable(d)
        BY <1>16, <3>5
      <4>4. Written(d) /\ Asked(d, Configs[i], n, k)
        <5>1. y \in Versions /\ y \in Text /\ ValidateVersion(y) /\ w.version \in {None, y}
              /\ Or(w.version, l) \in {None, y}
          BY <2>7, <3>1, <3>3
        <5>2. Asking(i, n, l, k, w, y, y)
          BY <1>2, <1>4, <2>5, <4>2, <4>3, <5>1 DEF Asking
        <5>3. QED
          BY <2>5, <5>2, NewSpec
      <4>5. runners'[n] = [spec |-> d, intact |-> TRUE, extra |-> runners[n].extra]
            /\ runners[n].extra \in BOOLEAN
        BY <2>1, <4>1 DEF Left
      <4>6. registered'[n] = [url |-> d.url, labels |-> d.labels]
        BY <3>1, <3>2
      <4>7. Left(n, i)'
        BY <1>2, <4>4, <4>5, <4>6 DEF Left
      <4>8. Served(n, i, k)'
        BY <4>4, <4>5, <4>7 DEF Served
      <4>9. runners'[n].spec.version = old.version
        BY <2>6, <3>1, <4>5
      <4>10. QED
        BY <1>2, <1>4, <1>10, <2>7, <3>1, <4>8, <4>9 DEF Or
    <3>6. QED
      BY <3>1, <3>4, <3>5
  <2>12. QED
    BY <2>10, <2>11
<1>19. QED
  BY <1>17, <1>18

\* The pools that a set of bindings asks for
PoolsOf(all) ==
  [p \in {b.name : b \in all} |->
     [kinds |-> SetToSeq((CHOOSE b \in all : b.name = p).kinds),
      size |-> (CHOOSE b \in all : b.name = p).size, mode |-> (CHOOSE b \in all : b.name = p).mode,
      zone |-> (CHOOSE b \in all : b.name = p).zone,
      sccache |-> (CHOOSE b \in all : b.name = p).sccache,
      sleep |-> (CHOOSE b \in all : b.name = p).sleep,
      server |-> (CHOOSE b \in all : b.name = p).server]]

\* The lookup of the latest release does not show in the pools.
LEMMA RefsAlike ==
  ASSUME PlainConfigs, NEW i \in Accepted, NEW l \in Lookups, NEW k \in ToSet(Schemas)
  PROVE  Refs[<<i, l, k>>] = Refs[<<i, None, k>>]
<1>1. ASSUME NEW desired
      PROVE  ReferencedPools(desired) = PoolsOf(UNION {desired[n].caches : n \in DOMAIN desired})
  BY Zenon DEF ReferencedPools, PoolsOf
<1>2. Usable(Configs[i]) /\ Plain(Configs[i])
  BY Wanting, PlanConstants DEF PlainConfigs, Accepted
<1>3. PICK c : c = Configs[i]
  OBVIOUS
<1>4. ASSUME NEW m \in Lookups
      PROVE  Refs[<<i, m, k>>] = PoolsOf(UNION {Lowered(c, n, k).caches : n \in Named(c)})
  <2>1. PICK want : want = Wants[<<i, m, k>>]
    OBVIOUS
  <2>2. want = [n \in Named(c) |-> Tracked(Lowered(c, n, k), m)] /\ <<i, m, k>> \in DOMAIN Wants
    BY <1>3, <2>1, Wanting
  <2>3. ASSUME NEW n \in Named(c) PROVE want[n].caches = Lowered(c, n, k).caches
    <3>1. PICK w : w = Lowered(c, n, k)
      OBVIOUS
    <3>2. Typed(w) /\ IsSpec(w)
      <4>1. Typed(w)
        BY <1>2, <1>3, <3>1, LoweredTyped
      <4>2. QED
        BY <4>1 DEF Typed
    <3>3. PICK t : t = Pinned(w, Or(w.version, m))
      OBVIOUS
    <3>4. want[n] = t
      BY <2>2, <3>1, <3>2, <3>3, TrackedIs
    <3>5. t.caches = w.caches
      BY <3>2, <3>3, WithVersion DEF SameButVersion
    <3>6. QED
      BY <3>1, <3>4, <3>5
  <2>4. UNION {want[n].caches : n \in DOMAIN want} = UNION {Lowered(c, n, k).caches : n \in Named(c)}
    <3>1. DOMAIN want = Named(c)
      BY <2>2
    <3>2. QED
      BY <2>3, <3>1
  <2>5. PICK D : D = DOMAIN Wants
    OBVIOUS
  <2>6. Refs = [j \in D |-> ReferencedPools(Wants[j])]
    BY <2>5, Zenon DEF Refs, RefsOf, Table
  <2>7. Refs[<<i, m, k>>] = ReferencedPools(want)
    BY <2>1, <2>2, <2>5, <2>6
  <2>8. QED
    BY <1>1, <2>4, <2>7
<1>5. None \in Lookups
  BY DEF Lookups
<1>6. QED
  BY <1>4, <1>5

\* The invariant holds of an empty host.
LEMMA HostStart ==
  ASSUME Init
  PROVE  HostInv
<1>1. Releases \in Seq(Text) /\ Schemas \in Seq(ToSet(Schemas)) /\ Releases # <<>> /\ Schemas # <<>>
  BY PlanConstants
<1>2. Len(Releases) \in Nat \ {0} /\ Len(Schemas) \in Nat \ {0}
  BY <1>1, EmptySeq
<1>3. Positions
  BY <1>2 DEF Init, Positions
<1>4. DOMAIN runners = {}
  BY DEF Init, Empty
<1>5. QED
  BY <1>3, <1>4 DEF Init, HostInv

\* An apply makes the host what the config asks for.
LEMMA HostApply ==
  ASSUME PlainConfigs, HostInv, NEW i \in Accepted, NEW online \in BOOLEAN, Apply(i, online)
  PROVE  HostInv'
<1>1. PICK k : k = Schemas[schema]
  OBVIOUS
<1>2. PICK l : l = Latest(online)
  OBVIOUS
<1>3. l \in Lookups /\ k \in ToSet(Schemas)
  <2>1. Releases[released] \in ToSet(Releases) /\ k \in ToSet(Schemas)
    BY <1>1, ReleaseIs DEF HostInv
  <2>2. QED
    BY <1>2, <2>1 DEF Latest, Lookups
<1>4. PICK want : want = Wants[Input(i, online)]
  OBVIOUS
<1>5. PICK refs : refs = Refs[Input(i, online)]
  OBVIOUS
<1>6. /\ DOMAIN runners' = DOMAIN want /\ DOMAIN pools' = DOMAIN refs
      /\ \A p \in DOMAIN refs :
           pools'[p] = IF PoolKind(p, refs) = "noop" THEN pools[p]
                       ELSE CachePoolPlan(p, refs[p], k)
      /\ applied' = [cfg |-> i, current |-> online, clean |-> TRUE]
      /\ released' = released /\ schema' = schema
  BY <1>1, <1>4, <1>5, Executed
<1>7. DOMAIN want = Named(Configs[i])
  <2>1. want = [m \in Named(Configs[i]) |-> Tracked(Lowered(Configs[i], m, k), l)]
    BY <1>1, <1>2, <1>3, <1>4, Wanting DEF Input
  <2>2. QED
    BY <2>1
<1>8. ASSUME NEW n \in Named(Configs[i])
      PROVE  /\ Served(n, i, k)'
             /\ online /\ Lowered(Configs[i], n, k).version = None =>
                  runners'[n].spec.version = Releases[released]
  BY <1>1, ApplyRunner
<1>9. From(i)'
  BY <1>6, <1>7, <1>8 DEF From, Served
<1>10. online => Newest(i)'
  <2> SUFFICES ASSUME online, NEW n \in Named(Configs[i]), NEW m \in ToSet(Schemas),
                      Lowered(Configs[i], n, m).version = None
               PROVE  runners'[n].spec.version = Releases[released]
    BY <1>6, <1>7 DEF Newest
  <2>1. Lowered(Configs[i], n, k).version = None
    <3>1. Usable(Configs[i])
      BY <1>3, Wanting
    <3>2. QED
      BY <3>1, Schemaless DEF SameButSchema
  <2>2. QED
    BY <1>8, <2>1
<1>11. refs = Refs[<<i, None, k>>]
  BY <1>1, <1>2, <1>3, <1>5, RefsAlike DEF Input
<1>12. ASSUME NEW p \in DOMAIN refs
       PROVE  CachePoolHash(pools'[p]) = CachePoolHash(CachePoolPlan(p, refs[p], k))
  <2>1. CASE PoolKind(p, refs) # "noop"
    BY <1>6, <2>1
  <2>2. CASE PoolKind(p, refs) = "noop"
    <3>1. DiscoveredHash(ParsedUnit(RenderCacheDropIn(pools[p]))) =
          CachePoolHash(CachePoolPlan(p, refs[p], k))
      BY <1>1, <2>2 DEF PoolKind
    <3>2. QED
      BY <1>6, <2>2, <3>1, PoolHashRead
  <2>3. QED
    BY <2>1, <2>2
<1>13. Clean(i)'
  <2>1. \A n \in DOMAIN runners' :
          runners'[n].intact /\ Asked(runners'[n].spec, Configs[i], n, Schemas[schema'])
    BY <1>1, <1>6, <1>7, <1>8 DEF Served
  <2>2. DOMAIN pools' = DOMAIN Refs[<<i, None, Schemas[schema']>>]
    BY <1>1, <1>6, <1>11
  <2>3. \A p \in DOMAIN pools' :
          CachePoolHash(pools'[p]) =
          CachePoolHash(CachePoolPlan(p, Refs[<<i, None, Schemas[schema']>>][p], Schemas[schema']))
    BY <1>1, <1>6, <1>11, <1>12
  <2>4. QED
    BY <2>1, <2>2, <2>3 DEF Clean
<1>14. Applied'
  BY <1>6, <1>9, <1>10, <1>13 DEF Applied
<1>15. Positions'
  BY <1>6 DEF Positions, HostInv
<1>16. QED
  BY <1>9, <1>14, <1>15 DEF HostInv

\* What an operator does to a runner leaves its spec alone.
LEMMA HostEdit ==
  ASSUME HostInv, NEW n \in DOMAIN runners, OperatorDropIn(n) \/ EditUnit(n)
  PROVE  HostInv'
<1>1. UNCHANGED <<pools, registered, released, schema>>
  BY DEF OperatorDropIn, EditUnit
<1>2. DOMAIN runners' = DOMAIN runners
  BY DEF OperatorDropIn, EditUnit
<1>3. ASSUME NEW i, From(i) PROVE From(i)'
  <2> SUFFICES ASSUME NEW m \in DOMAIN runners PROVE Left(m, i)'
    BY <1>2, <1>3 DEF From
  <2>1. Left(m, i)
    BY <1>3 DEF From
  <2>2. /\ runners'[m].spec = runners[m].spec
        /\ runners'[m] = [spec |-> runners'[m].spec, intact |-> runners'[m].intact,
                          extra |-> runners'[m].extra]
        /\ runners'[m].intact \in BOOLEAN /\ runners'[m].extra \in BOOLEAN
    <3>1. CASE m # n
      <4>1. runners'[m] = runners[m]
        BY <3>1 DEF OperatorDropIn, EditUnit
      <4>2. QED
        BY <2>1, <4>1 DEF Left
    <3>2. CASE m = n /\ OperatorDropIn(n)
      <4>1. runners'[m] = [runners[m] EXCEPT !.extra = ~@]
        BY <3>2 DEF OperatorDropIn
      <4>2. QED
        BY <2>1, <4>1 DEF Left
    <3>3. CASE m = n /\ EditUnit(n)
      <4>1. runners'[m] = [runners[m] EXCEPT !.intact = FALSE]
        BY <3>3 DEF EditUnit
      <4>2. QED
        BY <2>1, <4>1 DEF Left
    <3>4. QED
      BY <3>1, <3>2, <3>3
  <2>3. QED
    BY <1>1, <2>1, <2>2 DEF Left
<1>4. \A m \in DOMAIN runners : runners'[m].spec = runners[m].spec
  <2> SUFFICES ASSUME NEW m \in DOMAIN runners PROVE runners'[m].spec = runners[m].spec
    OBVIOUS
  <2>1. PICK i \in Accepted : Left(m, i)
    BY DEF HostInv, From
  <2>2. CASE m # n
    BY <2>2 DEF OperatorDropIn, EditUnit
  <2>3. CASE m = n
    <3>1. runners'[m] = [runners[m] EXCEPT !.extra = ~@] \/ runners'[m] = [runners[m] EXCEPT !.intact = FALSE]
      BY <2>3 DEF OperatorDropIn, EditUnit
    <3>2. QED
      BY <2>1, <3>1 DEF Left
  <2>4. QED
    BY <2>2, <2>3
<1>5. ASSUME applied' # None PROVE Applied'
  <2>1. applied # None /\ applied' = [applied EXCEPT !.clean = FALSE]
    BY <1>5 DEF OperatorDropIn, EditUnit, Soiled
  <2>2. Applied
    BY <2>1 DEF HostInv
  <2>3. /\ applied' = [cfg |-> applied'.cfg, current |-> applied'.current, clean |-> applied'.clean]
        /\ applied'.cfg = applied.cfg /\ applied'.current = applied.current /\ applied'.clean = FALSE
    BY <2>1, <2>2 DEF Applied
  <2>4. PICK j \in Accepted : j = applied.cfg
    BY <2>2 DEF Applied
  <2>5. From(j)'
    BY <1>3, <2>2, <2>4 DEF Applied
  <2>6. applied.current => Newest(j)'
    BY <1>1, <1>2, <1>4, <2>2, <2>4 DEF Applied, Newest
  <2>7. applied'.cfg = j
    BY <2>3, <2>4
  <2>8. QED
    BY <2>2, <2>3, <2>5, <2>6, <2>7 DEF Applied
<1>6. QED
  BY <1>1, <1>2, <1>3, <1>5 DEF HostInv, Positions

\* A release or an upgrade leaves the host alone.
LEMMA HostElse ==
  ASSUME HostInv, NewRelease \/ Upgrade
  PROVE  HostInv'
<1>1. UNCHANGED <<runners, pools, registered>>
  BY DEF NewRelease, Upgrade
<1>2. Positions'
  <2>1. Len(Releases) \in Nat /\ Len(Schemas) \in Nat
    BY PlanConstants, LenProperties
  <2>2. QED
    BY <2>1 DEF HostInv, Positions, NewRelease, Upgrade
<1>3. ASSUME NEW i, From(i) PROVE From(i)'
  BY <1>1, <1>3 DEF From, Left
<1>4. ASSUME applied' # None PROVE Applied'
  <2>1. CASE NewRelease
    <3>1. applied # None /\ applied' = [applied EXCEPT !.current = FALSE] /\ schema' = schema
      BY <1>4, <2>1 DEF NewRelease
    <3>2. Applied
      BY <3>1 DEF HostInv
    <3>3. /\ applied' = [cfg |-> applied'.cfg, current |-> applied'.current, clean |-> applied'.clean]
          /\ applied'.cfg = applied.cfg /\ applied'.current = FALSE /\ applied'.clean = applied.clean
      BY <3>1, <3>2 DEF Applied
    <3>4. PICK j \in Accepted : j = applied.cfg
      BY <3>2 DEF Applied
    <3>5. applied.clean => Clean(j)'
      BY <1>1, <3>1, <3>2, <3>4 DEF Applied, Clean
    <3>6. From(j)' /\ applied'.cfg = j
      BY <1>3, <3>2, <3>3, <3>4 DEF Applied
    <3>7. QED
      BY <3>2, <3>3, <3>5, <3>6 DEF Applied
  <2>2. CASE Upgrade
    <3>1. applied # None /\ applied' = [applied EXCEPT !.clean = FALSE] /\ released' = released
      BY <1>4, <2>2 DEF Upgrade, Soiled
    <3>2. Applied
      BY <3>1 DEF HostInv
    <3>3. /\ applied' = [cfg |-> applied'.cfg, current |-> applied'.current, clean |-> applied'.clean]
          /\ applied'.cfg = applied.cfg /\ applied'.current = applied.current /\ applied'.clean = FALSE
      BY <3>1, <3>2 DEF Applied
    <3>4. PICK j \in Accepted : j = applied.cfg
      BY <3>2 DEF Applied
    <3>5. applied.current => Newest(j)'
      BY <1>1, <3>1, <3>2, <3>4 DEF Applied, Newest
    <3>6. From(j)' /\ applied'.cfg = j
      BY <1>3, <3>2, <3>3, <3>4 DEF Applied
    <3>7. QED
      BY <3>2, <3>3, <3>5, <3>6 DEF Applied
  <2>3. QED
    BY <2>1, <2>2
<1>5. QED
  BY <1>1, <1>2, <1>3, <1>4 DEF HostInv

\* Every run of the planner and of what happens between its applies stays in the
\* invariant: the runners are those of the last config, each with the files of a spec
\* that config asked for.
THEOREM HostAlways ==
  ASSUME PlainConfigs
  PROVE  Spec => []HostInv
<1>1. Init => HostInv
  BY HostStart
<1>2. HostInv /\ [Next]_vars => HostInv'
  <2> SUFFICES ASSUME HostInv, [Next]_vars PROVE HostInv'
    OBVIOUS
  <2>1. ASSUME NEW i \in Accepted, NEW online \in BOOLEAN, Apply(i, online) PROVE HostInv'
    BY <2>1, HostApply
  <2>2. ASSUME NEW n \in DOMAIN runners, OperatorDropIn(n) \/ EditUnit(n) PROVE HostInv'
    BY <2>2, HostEdit
  <2>3. ASSUME NewRelease \/ Upgrade PROVE HostInv'
    BY <2>3, HostElse
  <2>4. ASSUME UNCHANGED vars PROVE HostInv'
    BY <2>4 DEF vars, HostInv, Positions, From, Left, Applied, Newest, Clean
  <2>5. QED
    BY <2>1, <2>2, <2>3, <2>4 DEF Next
<1>3. QED
  BY <1>1, <1>2, PTL DEF Spec

-----------------------------------------------------------------------------
(* What a runner is, at any time *)

\* A runner is what some accepted config asked for.
LEMMA Standing ==
  ASSUME HostInv, NEW n \in DOMAIN runners
  PROVE  /\ \E i \in Accepted : Left(n, i) /\ n \in Named(Configs[i])
         /\ Written(runners[n].spec)
<1>1. PICK i \in Accepted : From(i)
  BY DEF HostInv
<1>2. Left(n, i) /\ n \in Named(Configs[i])
  BY <1>1 DEF From
<1>3. Written(runners[n].spec)
  BY <1>2 DEF Left
<1>4. QED
  BY <1>2, <1>3

\* AnnotationsRecovered, in a state
LEMMA RecoveredNow ==
  ASSUME HostInv
  PROVE  AnnotationsRecovered
<1> SUFFICES ASSUME NEW n \in DOMAIN runners, NEW s, s = runners[n].spec, NEW f, f = Found(n)
             PROVE  /\ ReconstructIdentity(f.annotations) = [url |-> s.url, auth |-> s.auth, zone |-> s.zone]
                    /\ f.hash = SpecHash(s)
                    /\ f.annotations.version = s.version /\ f.annotations.labels = s.labels
                    /\ f.annotations.caches = {b.name : b \in s.caches}
                    /\ f.annotations.mode = Mode(s)
  BY DEF AnnotationsRecovered, Recovers
<1>1. Written(s)
  BY Standing
<1>2. f = Discovered[s]
  BY DEF Found
<1>3. /\ f.hash = SpecHash(s)
      /\ f.annotations.url = s.url /\ f.annotations.auth = s.auth
      /\ f.annotations.version = s.version /\ f.annotations.labels = s.labels
      /\ f.annotations.zone = s.zone /\ f.annotations.mode = Mode(s)
      /\ f.annotations.caches = {b.name : b \in s.caches}
  BY <1>1, <1>2, WrittenFound
<1>4. s.url \notin {None, <<>>} /\ s.auth \notin {None, <<>>} /\ s.zone \notin {None, <<>>}
  BY <1>1 DEF Written, Sound
<1>5. ReconstructIdentity(f.annotations) = [url |-> s.url, auth |-> s.auth, zone |-> s.zone]
  BY <1>3, <1>4 DEF ReconstructIdentity, OrEmpty
<1>6. QED
  BY <1>3, <1>5

\* What the planner asks of a runner, when it plans the config of the last apply again:
\* what is installed, in the version that is installed
LEMMA Replanned ==
  ASSUME PlainConfigs, HostInv, applied # None,
         NEW online \in BOOLEAN, online => applied.current,
         NEW want, want = Wants[Input(applied.cfg, online)],
         NEW n \in DOMAIN runners, NEW old, old = runners[n].spec, NEW d, d = Candidate(n, want)
  PROVE  /\ n \in DOMAIN want /\ DOMAIN want = DOMAIN runners
         /\ Written(old) /\ IsSpec(d) /\ SameButSchema(d, old)
         /\ d = Pinned(Lowered(Configs[applied.cfg], n, Schemas[schema]), old.version)
<1>1. PICK i \in Accepted : i = applied.cfg
  BY DEF HostInv, Applied
<1>2. PICK c : c = Configs[i]
  OBVIOUS
<1>3. PICK k \in ToSet(Schemas) : k = Schemas[schema]
  BY ReleaseIs DEF HostInv
<1>4. PICK l : l = Latest(online)
  OBVIOUS
<1>5. l \in Lookups /\ (l # None => l = Releases[released] /\ online)
  BY <1>4, ReleaseIs DEF HostInv, Latest, Lookups
<1>6. From(i)
  BY <1>1 DEF HostInv, Applied
<1>7. DOMAIN runners = Named(c) /\ Left(n, i) /\ n \in Named(c)
  BY <1>2, <1>6 DEF From
<1>8. PICK w : w = Lowered(c, n, k)
  OBVIOUS
<1>9. Usable(c) /\ Plain(c)
  BY <1>2, <1>3, Wanting, PlanConstants DEF PlainConfigs, Accepted, Lookups
<1>10. want = [m \in Named(c) |-> Tracked(Lowered(c, m, k), l)]
  BY <1>1, <1>2, <1>3, <1>4, <1>5, Wanting DEF Input
<1>11. Typed(w)
  BY <1>7, <1>8, <1>9, LoweredTyped
<1>12. Written(old)
  BY <1>7 DEF Left
<1>13. PICK x : x = Chosen(w, l, old)
  OBVIOUS
<1>14. d = Pinned(w, x)
  <2>1. want[n] = Tracked(w, l)
    BY <1>7, <1>8, <1>10
  <2>2. QED
    BY <1>11, <1>12, <1>13, <2>1, CandidateIs
<1>15. PICK t : t = Pinned(w, old.version)
  OBVIOUS
<1>16. SameButSchema(t, old) /\ IsSpec(t) /\ w.version \in {None, old.version} /\ w.zone = old.zone
  <2>1. PICK j : Asked(old, c, n, j)
    BY <1>2, <1>7 DEF Left
  <2>2. IsSpec(old)
    BY <1>12 DEF Written
  <2>3. QED
    BY <1>7, <1>8, <1>9, <1>15, <2>1, <2>2, AskedAgain
<1>17. x = old.version
  <2>1. old.version # None
    BY <1>12, VersionText DEF Written
  <2>2. CASE w.version = old.version
    BY <1>13, <2>1, <2>2 DEF Chosen, Or
  <2>3. CASE w.version = None /\ l = None
    BY <1>13, <1>16, <2>3 DEF Chosen, Or
  <2>4. CASE w.version = None /\ l # None
    <3>1. Newest(i)
      BY <1>1, <1>5, <2>4 DEF HostInv, Applied
    <3>2. old.version = l
      BY <1>2, <1>3, <1>5, <1>8, <2>4, <3>1 DEF Newest
    <3>3. QED
      BY <1>13, <2>4, <3>2 DEF Chosen, Or
  <2>5. QED
    BY <1>16, <2>2, <2>3, <2>4
<1>18. d = t
  BY <1>14, <1>15, <1>17
<1>19. DOMAIN want = DOMAIN runners
  BY <1>7, <1>10
<1>20. QED
  BY <1>1, <1>2, <1>3, <1>7, <1>8, <1>12, <1>15, <1>16, <1>18, <1>19

\* The runners that the config of the last apply gives
LEMMA SameRunners ==
  ASSUME PlainConfigs, HostInv, applied # None, NEW online \in BOOLEAN,
         NEW want, want = Wants[Input(applied.cfg, online)]
  PROVE  DOMAIN want = DOMAIN runners
<1>1. From(applied.cfg) /\ applied.cfg \in Accepted
  BY DEF HostInv, Applied
<1>2. PICK k : k = Schemas[schema]
  OBVIOUS
<1>3. k \in ToSet(Schemas) /\ Latest(online) \in Lookups
  BY <1>2, ReleaseIs DEF HostInv, Latest, Lookups
<1>4. want = [m \in Named(Configs[applied.cfg]) |->
                Tracked(Lowered(Configs[applied.cfg], m, k), Latest(online))]
  BY <1>1, <1>2, <1>3, Wanting DEF Input
<1>5. QED
  BY <1>1, <1>4 DEF From

\* UnchangedConfigKeepsRunners, in a state
LEMMA KeptNow ==
  ASSUME PlainConfigs, HostInv
  PROVE  UnchangedConfigKeepsRunners
<1> SUFFICES ASSUME applied # None, NEW online \in BOOLEAN, online => applied.current,
                    NEW want, want = Wants[Input(applied.cfg, online)],
                    NEW refs, refs = Refs[Input(applied.cfg, online)],
                    NEW n \in DOMAIN PlanFrom(want, refs).runners
             PROVE  PlanFrom(want, refs).runners[n] \in {"noop", "update"}
  BY DEF UnchangedConfigKeepsRunners, Replans
<1>1. n \in DOMAIN want \cup DOMAIN runners /\ PlanFrom(want, refs).runners[n] = ActionKind(n, want)
  BY DEF PlanFrom
<1>2. PICK old : old = runners[n].spec
  OBVIOUS
<1>3. PICK d : d = Candidate(n, want)
  OBVIOUS
<1>4. n \in DOMAIN runners
  BY <1>1, SameRunners
<1>5. /\ n \in DOMAIN want /\ Written(old) /\ IsSpec(d) /\ SameButSchema(d, old)
  BY <1>2, <1>3, <1>4, Replanned
<1>6. ActionKind(n, want) = Compared(Discovered[old], d, InSync(n))
  BY <1>2, <1>3, <1>4, <1>5 DEF ActionKind, Found
<1>7. InSync(n) \in BOOLEAN
  BY DEF InSync
<1>8. PICK kind : kind = Compared(Discovered[old], d, InSync(n))
  OBVIOUS
<1>9. kind \in {"noop", "update", "recreate"} /\ kind # "recreate"
  BY <1>5, <1>7, <1>8, ComparedIs
<1>10. QED
  BY <1>1, <1>6, <1>8, <1>9

\* RegistrationCurrent, in a state
LEMMA RegisteredNow ==
  ASSUME PlainConfigs, HostInv
  PROVE  RegistrationCurrent
<1> SUFFICES ASSUME applied # None, NEW n \in DOMAIN runners,
                    NEW want, want = Wants[Input(applied.cfg, FALSE)]
             PROVE  registered[n] = [url |-> want[n].url, labels |-> want[n].labels]
  BY DEF RegistrationCurrent
<1>1. PICK i \in Accepted : i = applied.cfg
  BY DEF HostInv, Applied
<1>2. PICK c : c = Configs[i]
  OBVIOUS
<1>3. PICK k \in ToSet(Schemas) : k = Schemas[schema]
  BY ReleaseIs DEF HostInv
<1>4. None \in Lookups
  BY DEF Lookups
<1>5. Left(n, i) /\ n \in Named(c)
  BY <1>1, <1>2 DEF HostInv, Applied, From
<1>6. PICK old : old = runners[n].spec
  OBVIOUS
<1>7. registered[n] = [url |-> old.url, labels |-> old.labels] /\ IsSpec(old)
  BY <1>5, <1>6 DEF Left, Written
<1>8. Usable(c) /\ Plain(c)
  BY <1>2, <1>3, Wanting, PlanConstants DEF PlainConfigs, Accepted, Lookups
<1>9. PICK w : w = Lowered(c, n, k)
  OBVIOUS
<1>10. want[n] = Tracked(w, None)
  <2>1. want = [m \in Named(c) |-> Tracked(Lowered(c, m, k), None)]
    BY <1>1, <1>2, <1>3, <1>4, Wanting DEF Input, Latest
  <2>2. QED
    BY <1>5, <1>9, <2>1
<1>11. Typed(w)
  BY <1>5, <1>8, <1>9, LoweredTyped
<1>12. IsSpec(w)
  BY <1>11 DEF Typed
<1>13. PICK u : u = Pinned(w, Or(w.version, None))
  OBVIOUS
<1>14. want[n] = u
  BY <1>10, <1>11, <1>13, TrackedIs
<1>15. SameButVersion(u, w)
  BY <1>12, <1>13, WithVersion
<1>16. PICK t : t = Pinned(w, old.version)
  OBVIOUS
<1>17. SameButVersion(t, w)
  BY <1>12, <1>16, WithVersion
<1>18. SameButSchema(t, old)
  <2>1. PICK j : Asked(old, c, n, j)
    BY <1>2, <1>5, <1>6 DEF Left
  <2>2. QED
    BY <1>5, <1>7, <1>8, <1>9, <1>16, <2>1, AskedAgain
<1>19. QED
  BY <1>7, <1>14, <1>15, <1>17, <1>18 DEF SameButVersion, SameButSchema

\* A runner that an apply left, and that nobody touched since, has the hash of what the
\* planner asks for.
LEMMA CleanHash ==
  ASSUME PlainConfigs, HostInv, applied # None, applied.clean,
         NEW n \in DOMAIN runners, NEW old, old = runners[n].spec,
         NEW d, d = Pinned(Lowered(Configs[applied.cfg], n, Schemas[schema]), old.version)
  PROVE  SpecHash(old) = SpecHash(d) /\ runners[n].intact
BY DEF HostInv, Applied, Clean, Asked

\* The pools of the config that was applied last, planned again
LEMMA PoolsClean ==
  ASSUME PlainConfigs, HostInv, applied # None, applied.clean, NEW online \in BOOLEAN,
         NEW refs, refs = Refs[Input(applied.cfg, online)], NEW p \in DOMAIN refs \cup DOMAIN pools
  PROVE  PoolKind(p, refs) = "noop"
<1>1. PICK i \in Accepted : i = applied.cfg
  BY DEF HostInv, Applied
<1>2. PICK k \in ToSet(Schemas) : k = Schemas[schema]
  BY ReleaseIs DEF HostInv
<1>3. Latest(online) \in Lookups
  BY ReleaseIs DEF HostInv, Latest, Lookups
<1>4. refs = Refs[<<i, None, k>>]
  BY <1>1, <1>2, <1>3, RefsAlike DEF Input
<1>5. Clean(i)
  BY <1>1 DEF HostInv, Applied
<1>6. DOMAIN pools = DOMAIN refs /\ p \in DOMAIN refs /\ p \in DOMAIN pools
  BY <1>2, <1>4, <1>5 DEF Clean
<1>7. CachePoolHash(pools[p]) = CachePoolHash(CachePoolPlan(p, refs[p], Schemas[schema]))
  BY <1>2, <1>4, <1>5, <1>6 DEF Clean
<1>8. DiscoveredHash(ParsedUnit(RenderCacheDropIn(pools[p]))) = CachePoolHash(pools[p])
  BY PoolHashRead
<1>9. QED
  BY <1>6, <1>7, <1>8 DEF PoolKind

\* Idempotent, in a state
LEMMA IdempotentNow ==
  ASSUME PlainConfigs, HostInv
  PROVE  Idempotent
<1> SUFFICES ASSUME applied # None, applied.clean, NEW online \in BOOLEAN, online => applied.current,
                    NEW want, want = Wants[Input(applied.cfg, online)],
                    NEW refs, refs = Refs[Input(applied.cfg, online)],
                    NEW plan, plan = PlanFrom(want, refs)
             PROVE  /\ \A n \in DOMAIN plan.runners :
                         plan.runners[n] = IF runners[n].extra THEN "update" ELSE "noop"
                    /\ \A p \in DOMAIN plan.pools : plan.pools[p] = "noop"
  BY DEF Idempotent, Replans
<1>1. ASSUME NEW p \in DOMAIN plan.pools PROVE plan.pools[p] = "noop"
  <2>1. p \in DOMAIN refs \cup DOMAIN pools /\ plan.pools[p] = PoolKind(p, refs)
    BY <1>1 DEF PlanFrom
  <2>2. QED
    BY <2>1, PoolsClean
<1>2. ASSUME NEW n \in DOMAIN plan.runners
      PROVE  plan.runners[n] = IF runners[n].extra THEN "update" ELSE "noop"
  <2>1. DOMAIN want = DOMAIN runners
    BY SameRunners
  <2>2. n \in DOMAIN want \cup DOMAIN runners /\ plan.runners[n] = ActionKind(n, want)
    BY <1>2 DEF PlanFrom
  <2>3. n \in DOMAIN runners /\ n \in DOMAIN want
    BY <2>1, <2>2
  <2>4. PICK old : old = runners[n].spec
    OBVIOUS
  <2>5. PICK d : d = Candidate(n, want)
    OBVIOUS
  <2>6. /\ Written(old) /\ IsSpec(d) /\ SameButSchema(d, old)
        /\ d = Pinned(Lowered(Configs[applied.cfg], n, Schemas[schema]), old.version)
    BY <2>3, <2>4, <2>5, Replanned
  <2>7. SpecHash(old) = SpecHash(d) /\ runners[n].intact
    BY <2>3, <2>4, <2>6, CleanHash
  <2>8. InSync(n) \in BOOLEAN /\ (InSync(n) <=> ~runners[n].extra)
    BY <2>7 DEF InSync
  <2>9. PICK kind : kind = Compared(Discovered[old], d, InSync(n))
    OBVIOUS
  <2>10. /\ kind \in {"noop", "update", "recreate"} /\ kind # "recreate"
         /\ kind = "noop" <=> InSync(n)
    BY <2>6, <2>7, <2>8, <2>9, ComparedIs
  <2>11. ActionKind(n, want) = kind
    BY <2>3, <2>4, <2>5, <2>9 DEF ActionKind, Found
  <2>12. QED
    BY <2>2, <2>8, <2>10, <2>11
<1>3. QED
  BY <1>1, <1>2

\* A runner in a namespace has a short name, and the subnet of its place in the config.
LEMMA NetnsPlace ==
  ASSUME NEW c, Usable(c), NEW n \in Named(c), NEW k, NEW w, w = Lowered(c, n, k),
         Mode(w) = <<"netns">>, NEW p, p = Place(ExpandCounts(c), n)
  PROVE  Len(n) <= NETNS_RUNNER_NAME_MAX_LEN /\ w.network.subnet = p - 1 /\ p \in Nat
<1>1. p \in Nat
  BY Instance
<1>2. PICK r \in Runners(c), y \in {ExpandCounts(c)[p]} :
        /\ InstanceOf(y, r) /\ y.name = n /\ Lowerable(c, y, p - 1)
        /\ \A j : Lowered(c, n, j) = LowerToEffective(c, y, p - 1, j)
  BY Instance
<1>3. w = LowerToEffective(c, y, p - 1, k)
  BY <1>2
<1>4. w.network = NetworkBinding(c, y, p - 1)
  BY <1>3, LoweredFields
<1>5. PICK key : key = NetworkOf(c, y)
  OBVIOUS
<1>6. w.network # None /\ w.network.spec.mode = "netns"
  BY DEF Mode
<1>7. key # None /\ w.network = EffectiveNetworkBinding(key, c.networks[key], p - 1)
  BY <1>4, <1>5, <1>6 DEF NetworkBinding
<1>8. key \in DOMAIN c.networks
  BY <1>2, <1>5, <1>7 DEF Lowerable, NetworkUsable
<1>9. PICK net : net = c.networks[key]
  OBVIOUS
<1>10. net = [mode |-> net.mode, egress |-> net.egress, allow |-> net.allow, deny |-> net.deny,
              families |-> net.families, dns |-> net.dns, ipv6 |-> net.ipv6]
  BY <1>8, <1>9 DEF Usable, IsConfig, IsNetwork
<1>11. CanonicalizeNetworkSpec(net).mode = net.mode
  BY <1>10 DEF CanonicalizeNetworkSpec
<1>12. net.mode = "netns" /\ w.network.subnet = p - 1
  BY <1>6, <1>7, <1>9, <1>11 DEF EffectiveNetworkBinding
<1>13. NetworkOf(c, r) = key /\ r.count # 0 /\ Len(n) <= WorstCaseLen(r)
  <2>1. y.network = r.network
    BY <1>2, InstanceFields
  <2>2. QED
    BY <1>2, <1>5, <2>1 DEF NetworkOf, InstanceOf
<1>14. WorstCaseLen(r) <= NETNS_RUNNER_NAME_MAX_LEN
  BY <1>8, <1>9, <1>12, <1>13 DEF Usable, LoadConfig, ValidateNetnsRunnerNameLengths
<1>15. Len(n) \in Nat
  <2>1. n \in Text
    BY <1>2 DEF InstanceOf
  <2>2. QED
    BY <2>1, LenProperties DEF Text
<1>16. WorstCaseLen(r) \in Nat
  <2>1. IsRunner(r)
    BY RunnerFields
  <2>2. r.name \in Text /\ r.count \in Option(Nat)
    BY RunnerFields
  <2>3. Len(r.name) \in Nat
    BY <2>2, LenProperties DEF Text
  <2>4. CASE ~IsCountBlock(r)
    BY <2>3, <2>4 DEF WorstCaseLen
  <2>5. CASE IsCountBlock(r)
    <3>1. r.count \in Nat /\ r.count > 1
      BY <2>2, <2>5 DEF IsCountBlock, Option
    <3>2. PICK j \in 1..r.count : j = 1
      BY <3>1
    <3>3. PICK g : g = r.name \o <<"-">> \o Digits(j)
      OBVIOUS
    <3>4. r.count \in Decimals
      BY <2>5, <3>2, <3>3, GeneratedName
    <3>5. PICK e \in Decimals : e = r.count
      BY <3>4
    <3>6. Len(Digits(e)) \in Nat
      BY DigitsText
    <3>7. PICK q \in Nat : q = Len(Digits(r.count))
      BY <3>5, <3>6
    <3>8. PICK z \in Nat : z = Len(r.name)
      BY <2>3
    <3>9. WorstCaseLen(r) = z + (1 + q)
      BY <2>5, <3>7, <3>8 DEF WorstCaseLen
    <3>10. QED
      BY <3>9
  <2>6. QED
    BY <2>4, <2>5
<1>17. NETNS_RUNNER_NAME_MAX_LEN \in Int
  BY EmptySeq DEF NETNS_RUNNER_NAME_MAX_LEN, VethNameLen, IFNAMSIZ
<1>18. QED
  BY <1>1, <1>12, <1>13, <1>14, <1>15, <1>16, <1>17

\* The zone and the network of a runner are those of its config.
LEMMA AskedNetwork ==
  ASSUME PlainConfigs, NEW i \in Accepted, NEW n \in Named(Configs[i]), Left(n, i), NEW k
  PROVE  /\ Lowered(Configs[i], n, k).network = runners[n].spec.network
         /\ Len(runners[n].spec.zone) <= TRUST_ZONE_MAX_LEN /\ Len(runners[n].spec.zone) \in Nat
<1>1. PICK s : s = runners[n].spec
  OBVIOUS
<1>2. PICK w : w = Lowered(Configs[i], n, k)
  OBVIOUS
<1>3. PICK j : j \in ToSet(Schemas) /\ Asked(s, Configs[i], n, j)
  BY <1>1 DEF Left
<1>4. None \in Lookups
  BY DEF Lookups
<1>5. Usable(Configs[i]) /\ Plain(Configs[i])
  BY <1>3, <1>4, Wanting, PlanConstants DEF PlainConfigs, Accepted
<1>6. Typed(w)
  BY <1>5, <1>2, LoweredTyped
<1>7. IsSpec(w) /\ Len(w.zone) <= TRUST_ZONE_MAX_LEN /\ w.zone \in Text
  BY <1>6 DEF Typed, Label
<1>8. PICK t : t = Pinned(w, s.version)
  OBVIOUS
<1>9. SameButVersion(t, w)
  BY <1>7, <1>8, WithVersion
<1>10. SameButSchema(t, s)
  <2>1. IsSpec(s)
    BY <1>1 DEF Left, Written
  <2>2. QED
    BY <1>3, <1>5, <1>8, <1>2, <2>1, AskedAgain
<1>11. Len(w.zone) \in Nat
  BY <1>7, LenProperties DEF Text
<1>12. QED
  BY <1>7, <1>9, <1>10, <1>11, <1>1, <1>2 DEF SameButVersion, SameButSchema

\* NamesFit, in a state
LEMMA FitNow ==
  ASSUME PlainConfigs, HostInv
  PROVE  NamesFit
<1> SUFFICES ASSUME NEW n \in DOMAIN runners, NEW s, s = runners[n].spec
             PROVE  /\ UserNameLen(s.zone) <= SYSTEMD_USER_GROUP_NAME_MAX
                    /\ Mode(s) = <<"netns">> =>
                         /\ VethNameLen(n) < IFNAMSIZ
                         /\ \A m \in DOMAIN runners \ {n} :
                              Mode(runners[m].spec) = <<"netns">> =>
                                runners[m].spec.network.subnet # s.network.subnet
  BY DEF NamesFit
<1>1. PICK i \in Accepted : From(i)
  BY DEF HostInv
<1>2. PICK c : c = Configs[i]
  OBVIOUS
<1>3. DOMAIN runners = Named(c) /\ \A m \in DOMAIN runners : Left(m, i)
  BY <1>1, <1>2 DEF From
<1>4. PICK k \in ToSet(Schemas) : k = Schemas[schema]
  BY ReleaseIs DEF HostInv
<1>5. Usable(c)
  BY <1>2, <1>4, Wanting DEF Lookups
<1>6. ASSUME NEW m \in DOMAIN runners, NEW w, w = Lowered(c, m, k), NEW d, d = runners[m].spec
      PROVE  /\ w.network = d.network /\ Len(d.zone) <= TRUST_ZONE_MAX_LEN /\ Len(d.zone) \in Nat
             /\ Mode(d) = Mode(w)
  <2>1. w.network = d.network /\ Len(d.zone) <= TRUST_ZONE_MAX_LEN /\ Len(d.zone) \in Nat
    <3>1. Left(m, i) /\ m \in Named(Configs[i]) /\ w = Lowered(Configs[i], m, k)
      BY <1>2, <1>3, <1>6
    <3>2. QED
      BY <1>6, <3>1, AskedNetwork
  <2>2. QED
    BY <2>1 DEF Mode
<1>7. UserNameLen(s.zone) <= SYSTEMD_USER_GROUP_NAME_MAX
  <2>1. Len(s.zone) <= TRUST_ZONE_MAX_LEN /\ Len(s.zone) \in Nat
    BY <1>6
  <2>2. Len(<<>>) = 0
    BY LenProperties
  <2>3. QED
    BY <2>1, <2>2 DEF UserNameLen, TRUST_ZONE_MAX_LEN, SYSTEMD_USER_GROUP_NAME_MAX
<1>8. ASSUME Mode(s) = <<"netns">>
      PROVE  /\ VethNameLen(n) < IFNAMSIZ
             /\ \A m \in DOMAIN runners \ {n} :
                  Mode(runners[m].spec) = <<"netns">> =>
                    runners[m].spec.network.subnet # s.network.subnet
  <2>1. PICK x : x = ExpandCounts(c)
    OBVIOUS
  <2>2. ASSUME NEW m \in DOMAIN runners, NEW d, d = runners[m].spec, Mode(d) = <<"netns">>
        PROVE  /\ Len(m) <= NETNS_RUNNER_NAME_MAX_LEN
               /\ d.network.subnet = Place(x, m) - 1 /\ Place(x, m) \in Nat
    <3>1. PICK w : w = Lowered(c, m, k)
      OBVIOUS
    <3>2. w.network = d.network /\ Mode(d) = Mode(w)
      BY <1>6, <2>2, <3>1
    <3>3. QED
      BY <1>3, <1>5, <2>1, <2>2, <3>1, <3>2, NetnsPlace
  <2>3. VethNameLen(n) < IFNAMSIZ
    <3>1. Len(n) \in Nat
      <4>1. PICK r, y : InstanceOf(y, r) /\ y.name = n
        BY <1>3, <1>5, Instance
      <4>2. QED
        BY <4>1, LenProperties DEF InstanceOf, Text
    <3>2. Len(<<>>) = 0 /\ Len(n) <= NETNS_RUNNER_NAME_MAX_LEN
      BY <1>8, <2>2
    <3>3. QED
      BY <3>1, <3>2 DEF VethNameLen, NETNS_RUNNER_NAME_MAX_LEN, IFNAMSIZ
  <2>4. ASSUME NEW m \in DOMAIN runners \ {n}, NEW d, d = runners[m].spec, Mode(d) = <<"netns">>
        PROVE  d.network.subnet # s.network.subnet
    <3>1. x[Place(x, m)].name = m /\ x[Place(x, n)].name = n
      BY <1>3, <1>5, <2>1, Placed
    <3>2. Place(x, m) # Place(x, n)
      BY <2>4, <3>1
    <3>3. /\ d.network.subnet = Place(x, m) - 1 /\ Place(x, m) \in Nat
          /\ s.network.subnet = Place(x, n) - 1 /\ Place(x, n) \in Nat
      BY <1>8, <2>2, <2>4
    <3>4. QED
      BY <3>2, <3>3
  <2>5. QED
    BY <2>3, <2>4
<1>9. QED
  BY <1>7, <1>8

-----------------------------------------------------------------------------
(* The properties *)

\* What discovery reads from the files of a runner is what the renderer put there, for every
\* plain config (ParsedUnit, DiscoveredAnnotations, reconstruct_identity).
THEOREM Recovered ==
  ASSUME PlainConfigs
  PROVE  Spec => []AnnotationsRecovered
<1>1. HostInv => AnnotationsRecovered
  BY RecoveredNow
<1>2. QED
  BY <1>1, HostAlways, PTL

\* Planning again the config that was just applied gives nothing to do, whether or not
\* GitHub answers, for every plain config (plan_from_with_latest).
THEOREM AppliesAreIdempotent ==
  ASSUME PlainConfigs
  PROVE  Spec => []Idempotent
<1>1. HostInv => Idempotent
  BY IdempotentNow
<1>2. QED
  BY <1>1, HostAlways, PTL

\* Whatever operators and upgrades do, the unchanged config recreates no runner
\* (classify_recreate_reasons, inherit_runner_version).
THEOREM RunnersAreKept ==
  ASSUME PlainConfigs
  PROVE  Spec => []UnchangedConfigKeepsRunners
<1>1. HostInv => UnchangedConfigKeepsRunners
  BY KeptNow
<1>2. QED
  BY <1>1, HostAlways, PTL

\* GitHub knows every runner by the URL and the labels of the config that was applied
\* last (classify.rs 348-505).
THEOREM RegistrationsAreCurrent ==
  ASSUME PlainConfigs
  PROVE  Spec => []RegistrationCurrent
<1>1. HostInv => RegistrationCurrent
  BY RegisteredNow
<1>2. QED
  BY <1>1, HostAlways, PTL

\* User and interface names fit, and no two namespaces share a subnet, for every plain
\* config and every count (load.rs 1080-1202).
THEOREM EveryNameFits ==
  ASSUME PlainConfigs
  PROVE  Spec => []NamesFit
<1>1. HostInv => NamesFit
  BY FitNow
<1>2. QED
  BY <1>1, HostAlways, PTL

-----------------------------------------------------------------------------
(* What a hash tells of the files *)

\* Two bindings that are rendered alike
SameBinding(b, d) ==
  b.name = d.name /\ b.kinds = d.kinds /\ b.size = d.size /\ b.server = d.server

\* Two sets of bindings that differ in nothing that is rendered
Alike(B, D) ==
  /\ IsFiniteSet(B) /\ IsFiniteSet(D)
  /\ {b.name : b \in B} = {d.name : d \in D}
  /\ \A b \in B, d \in D : b.name = d.name => SameBinding(b, d)

\* The bindings of a spec are bindings, one for each name.
Bound(D) ==
  /\ IsFiniteSet(D)
  /\ \A d \in D : d = [name |-> d.name, kinds |-> d.kinds, size |-> d.size, mode |-> d.mode,
                       zone |-> d.zone, sccache |-> d.sccache, sleep |-> d.sleep,
                       server |-> d.server, schema |-> d.schema]
  /\ \A d, e \in D : d.name = e.name => d = e

\* The caches of a runner are bound by name.
LEMMA LoweredBound ==
  ASSUME NEW c, Usable(c), NEW n \in Named(c), NEW k, NEW w, w = Lowered(c, n, k), Typed(w)
  PROVE  Bound(w.caches)
<1>1. PICK p : p = Place(ExpandCounts(c), n)
  OBVIOUS
<1>2. PICK y : w = LowerToEffective(c, y, p - 1, k)
  BY <1>1, Instance
<1>3. w.caches = {EffectiveCacheBinding(m, c.pools[m], k) : m \in ToSet(y.caches)}
  BY <1>2, LoweredFields
<1>4. \A m : EffectiveCacheBinding(m, c.pools[m], k).name = m
  BY DEF EffectiveCacheBinding
<1>5. \A d \in w.caches : d = EffectiveCacheBinding(d.name, c.pools[d.name], k)
  BY <1>3, <1>4
<1>6. \A d, e \in w.caches : d.name = e.name => d = e
  BY <1>5
<1>7. ASSUME NEW d \in w.caches
      PROVE  d = [name |-> d.name, kinds |-> d.kinds, size |-> d.size, mode |-> d.mode,
                  zone |-> d.zone, sccache |-> d.sccache, sleep |-> d.sleep,
                  server |-> d.server, schema |-> d.schema]
  <2>1. PICK m : d = EffectiveCacheBinding(m, c.pools[m], k)
    BY <1>3
  <2>2. QED
    BY <2>1 DEF EffectiveCacheBinding
<1>8. IsFiniteSet(w.caches)
  BY DEF Typed
<1>9. QED
  BY <1>6, <1>7, <1>8 DEF Bound

\* A binding with the hash of another
LEMMA SameHash ==
  ASSUME NEW b, NEW d,
         d = [name |-> d.name, kinds |-> d.kinds, size |-> d.size, mode |-> d.mode,
              zone |-> d.zone, sccache |-> d.sccache, sleep |-> d.sleep,
              server |-> d.server, schema |-> d.schema],
         CachePoolHash(b) = CachePoolHash(d)
  PROVE  SameBinding(b, d)
<1>1. PICK h : h = CachePoolHash(b)
  OBVIOUS
<1>2. h = [b EXCEPT !.sccache = None, !.sleep = None]
  BY <1>1 DEF CachePoolHash
<1>3. h = [d EXCEPT !.sccache = None, !.sleep = None]
  BY <1>1 DEF CachePoolHash
<1>4. /\ DOMAIN h = {"name", "kinds", "size", "mode", "zone", "sccache", "sleep", "server", "schema"}
      /\ h.name = d.name /\ h.kinds = d.kinds /\ h.size = d.size /\ h.server = d.server
  BY <1>3
<1>5. DOMAIN b = DOMAIN h
  BY <1>2
<1>6. h.name = b.name /\ h.kinds = b.kinds /\ h.size = b.size /\ h.server = b.server
  BY <1>2, <1>4, <1>5
<1>7. QED
  BY <1>4, <1>6 DEF SameBinding

\* Bindings with the hashes of others
LEMMA HashesAlike ==
  ASSUME NEW B, IsFiniteSet(B), NEW D, Bound(D),
         {CachePoolHash(b) : b \in B} = {CachePoolHash(d) : d \in D}
  PROVE  /\ Alike(B, D)
         /\ Alike({b \in B : "sccache" \in b.kinds}, {d \in D : "sccache" \in d.kinds})
<1>1. ASSUME NEW b \in B PROVE \E d \in D : SameBinding(b, d)
  <2>1. PICK d \in D : CachePoolHash(b) = CachePoolHash(d)
    BY <1>1
  <2>2. QED
    BY <2>1, SameHash DEF Bound
<1>2. ASSUME NEW d \in D PROVE \E b \in B : SameBinding(b, d)
  <2>1. PICK b \in B : CachePoolHash(b) = CachePoolHash(d)
    BY <1>2
  <2>2. QED
    BY <2>1, SameHash DEF Bound
<1>3. \A b \in B, d \in D : b.name = d.name => SameBinding(b, d)
  BY <1>1 DEF Bound, SameBinding
<1>4. Alike(B, D)
  BY <1>1, <1>2, <1>3 DEF Alike, Bound, SameBinding
<1>5. PICK X : X = {b \in B : "sccache" \in b.kinds}
  OBVIOUS
<1>6. PICK Y : Y = {d \in D : "sccache" \in d.kinds}
  OBVIOUS
<1>7. X \subseteq B /\ Y \subseteq D /\ IsFiniteSet(X) /\ IsFiniteSet(Y)
  BY <1>5, <1>6, FS_Subset DEF Bound
<1>8. {b.name : b \in X} = {d.name : d \in Y}
  BY <1>1, <1>2, <1>5, <1>6 DEF SameBinding
<1>9. Alike(X, Y)
  BY <1>3, <1>7, <1>8 DEF Alike
<1>10. QED
  BY <1>4, <1>5, <1>6, <1>9

NamesOf(B) == {b.name : b \in B}

\* The bindings in order: one for each name
LEMMA RowsAre ==
  ASSUME NEW B, IsFiniteSet(NamesOf(B))
  PROVE  /\ DOMAIN ByName(B) = DOMAIN SetToSeq(NamesOf(B))
         /\ \A i \in DOMAIN SetToSeq(NamesOf(B)) :
              ByName(B)[i] \in B /\ ByName(B)[i].name = SetToSeq(NamesOf(B))[i]
<1>0. PICK N : N = NamesOf(B)
  OBVIOUS
<1>1. ByName(B) = [i \in DOMAIN SetToSeq({b.name : b \in B}) |->
                     CHOOSE b \in B : b.name = SetToSeq({d.name : d \in B})[i]]
  BY Zenon DEF ByName
<1>2. PICK names : names = SetToSeq({b.name : b \in B}) /\ names = SetToSeq(N)
  BY <1>0 DEF NamesOf
<1>3. names \in Seq(N)
  BY <1>0, <1>2, SetAsSeq
<1>4. DOMAIN ByName(B) = DOMAIN names
  BY <1>1, <1>2
<1>5. ASSUME NEW i \in DOMAIN names
      PROVE  ByName(B)[i] \in B /\ ByName(B)[i].name = names[i]
  <2>1. \E b \in B : b.name = SetToSeq({d.name : d \in B})[i]
    <3>1. names[i] \in N
      BY <1>3
    <3>2. QED
      BY <1>0, <1>2, <3>1 DEF NamesOf
  <2>2. ByName(B)[i] = CHOOSE b \in B : b.name = SetToSeq({d.name : d \in B})[i]
    BY <1>1, <1>2
  <2>3. QED
    BY <1>2, <2>1, <2>2
<1>6. QED
  BY <1>0, <1>2, <1>4, <1>5

\* In order, they are alike one by one.
LEMMA RowsAlike ==
  ASSUME NEW B, NEW D, Alike(B, D), NEW bs, bs = ByName(B), NEW ds, ds = ByName(D)
  PROVE  /\ DOMAIN bs = DOMAIN ds
         /\ \A i \in DOMAIN ds : SameBinding(bs[i], ds[i])
<1>1. PICK N : N = NamesOf(B) /\ N = NamesOf(D)
  BY DEF Alike, NamesOf
<1>2. IsFiniteSet(N)
  <2>1. PICK f : f = [b \in B |-> b.name]
    OBVIOUS
  <2>2. f \in Surjection(B, N)
    BY <1>1, <2>1 DEF Surjection, NamesOf
  <2>3. QED
    BY <2>2, FS_Surjection DEF Alike
<1>3. PICK names : names = SetToSeq(N)
  OBVIOUS
<1>4. DOMAIN bs = DOMAIN names /\ \A i \in DOMAIN names : bs[i] \in B /\ bs[i].name = names[i]
  BY <1>1, <1>2, <1>3, RowsAre
<1>5. DOMAIN ds = DOMAIN names /\ \A i \in DOMAIN names : ds[i] \in D /\ ds[i].name = names[i]
  BY <1>1, <1>2, <1>3, RowsAre
<1>6. QED
  BY <1>4, <1>5 DEF Alike

\* Two specs that show the same in their files
Shown(s, t) ==
  /\ s.version = t.version /\ s.name = t.name /\ s.url = t.url /\ s.arch = t.arch
  /\ s.labels = t.labels /\ s.memory = t.memory /\ s.sha = t.sha /\ s.tarball = t.tarball
  /\ s.auth = t.auth /\ s.zone = t.zone /\ s.network = t.network /\ s.proxy = t.proxy
  /\ s.hooks = t.hooks /\ s.hard = t.hard /\ s.cpus = t.cpus /\ s.mems = t.mems
  /\ s.env = t.env /\ SpecHash(s) = SpecHash(t)
  /\ Alike(s.caches, t.caches) /\ Alike(SccacheBindings(s), SccacheBindings(t))

\* The cache drop-in
LEMMA CachePoolShown ==
  ASSUME NEW s, NEW t, Shown(s, t)
  PROVE  /\ RenderCachePool(s) = RenderCachePool(t)
         /\ SccacheBindings(s) = {} <=> SccacheBindings(t) = {}
<1>1. PICK B : B = SccacheBindings(s)
  OBVIOUS
<1>2. PICK D : D = SccacheBindings(t)
  OBVIOUS
<1>3. Alike(B, D)
  BY <1>1, <1>2 DEF Shown
<1>4. PICK bs : bs = ByName(B)
  OBVIOUS
<1>5. PICK ds : ds = ByName(D)
  OBVIOUS
<1>6. DOMAIN bs = DOMAIN ds /\ \A i \in DOMAIN ds : SameBinding(bs[i], ds[i])
  BY <1>3, <1>4, <1>5, RowsAlike
<1>7. [i \in DOMAIN bs |-> CacheUnitLines(bs[i])] = [i \in DOMAIN ds |-> CacheUnitLines(ds[i])]
  <2>1. \A i \in DOMAIN ds : CacheUnitLines(bs[i]) = CacheUnitLines(ds[i])
    BY <1>6 DEF CacheUnitLines, SameBinding
  <2>2. QED
    BY <1>6, <2>1
<1>8. [i \in DOMAIN bs |-> CacheServiceLines(bs[i])] = [i \in DOMAIN ds |-> CacheServiceLines(ds[i])]
  <2>1. \A i \in DOMAIN ds : CacheServiceLines(bs[i]) = CacheServiceLines(ds[i])
    BY <1>6 DEF CacheServiceLines, SameBinding
  <2>2. QED
    BY <1>6, <2>1
<1>9. (\E b \in B : b.server = "pooled") <=> (\E d \in D : d.server = "pooled")
  <2>1. \A b \in B : \E d \in D : SameBinding(b, d)
    BY <1>3 DEF Alike
  <2>2. \A d \in D : \E b \in B : SameBinding(b, d)
    BY <1>3 DEF Alike
  <2>3. PICK m : m = "pooled"
    OBVIOUS
  <2>4. (\E b \in B : b.server = m) <=> (\E d \in D : d.server = m)
    <3>1. ASSUME NEW b \in B, b.server = m PROVE \E d \in D : d.server = m
      BY <2>1, <3>1 DEF SameBinding
    <3>2. ASSUME NEW d \in D, d.server = m PROVE \E b \in B : b.server = m
      BY <2>2, <3>2 DEF SameBinding
    <3>3. QED
      BY <3>1, <3>2
  <2>5. QED
    BY <2>3, <2>4
<1>10. {b.name : b \in B} = {d.name : d \in D}
  BY <1>3 DEF Alike
<1>11. PICK X, Y : /\ X = FlattenSeq([i \in DOMAIN bs |-> CacheUnitLines(bs[i])])
                   /\ Y = FlattenSeq([i \in DOMAIN bs |-> CacheServiceLines(bs[i])])
  OBVIOUS
<1>12. X = FlattenSeq([i \in DOMAIN ds |-> CacheUnitLines(ds[i])])
  BY <1>7, <1>11
<1>13. Y = FlattenSeq([i \in DOMAIN ds |-> CacheServiceLines(ds[i])])
  BY <1>8, <1>11
<1>14. PICK N : N = {b.name : b \in B} \cup (IF \E b \in B : b.server = "pooled" THEN {<<"/", "run">>} ELSE {})
  OBVIOUS
<1>15. N = {d.name : d \in D} \cup (IF \E d \in D : d.server = "pooled" THEN {<<"/", "run">>} ELSE {})
  BY <1>9, <1>10, <1>14
<1>16. RenderCachePool(s) = << Section("[Unit]") >> \o X \o << Section("[Service]") >> \o Y
                            \o << Line("BindPaths", Join(N, " ")) >>
  BY <1>1, <1>4, <1>11, <1>14 DEF RenderCachePool
<1>17. RenderCachePool(t) = << Section("[Unit]") >> \o X \o << Section("[Service]") >> \o Y
                            \o << Line("BindPaths", Join(N, " ")) >>
  BY <1>2, <1>5, <1>12, <1>13, <1>15 DEF RenderCachePool
<1>18. B = {} <=> D = {}
  BY <1>10
<1>19. QED
  BY <1>1, <1>2, <1>16, <1>17, <1>18

\* The lines of a cache in the environment file
CacheEnv(b) ==
  When("ccache" \in b.kinds, << Line("CCACHE_MAXSIZE", b.size) >>)
  \o When("sccache" \in b.kinds /\ b.server = "pooled",
          << Line("SCCACHE_SERVER_UDS", b.name), Line("SCCACHE_CACHE_SIZE", b.size) >>)
  \o When("sccache" \in b.kinds /\ b.server # "pooled",
          << Line("SCCACHE_DIR", b.name), Line("SCCACHE_CACHE_SIZE", b.size) >>)

\* The environment file
LEMMA EnvFileShown ==
  ASSUME NEW s, NEW t, Shown(s, t)
  PROVE  RenderRunnerEnvFile(s) = RenderRunnerEnvFile(t)
<1>1. PICK B : B = s.caches
  OBVIOUS
<1>2. PICK D : D = t.caches
  OBVIOUS
<1>3. Alike(B, D)
  BY <1>1, <1>2 DEF Shown
<1>4. PICK bs : bs = ByName(B)
  OBVIOUS
<1>5. PICK ds : ds = ByName(D)
  OBVIOUS
<1>6. DOMAIN bs = DOMAIN ds /\ \A i \in DOMAIN ds : SameBinding(bs[i], ds[i])
  BY <1>3, <1>4, <1>5, RowsAlike
<1>7. [i \in DOMAIN bs |-> CacheEnv(bs[i])] = [i \in DOMAIN ds |-> CacheEnv(ds[i])]
  <2>1. \A i \in DOMAIN ds : CacheEnv(bs[i]) = CacheEnv(ds[i])
    BY <1>6 DEF CacheEnv, SameBinding
  <2>2. QED
    BY <1>6, <2>1
<1>8. (\E b \in B : "ccache" \in b.kinds) <=> (\E d \in D : "ccache" \in d.kinds)
  BY <1>3 DEF Alike, SameBinding
<1>9. PICK X : X = FlattenSeq([i \in DOMAIN bs |-> CacheEnv(bs[i])])
  OBVIOUS
<1>10. X = FlattenSeq([i \in DOMAIN ds |-> CacheEnv(ds[i])])
  BY <1>7, <1>9
<1>11. PICK H : H = When(\E b \in B : "ccache" \in b.kinds, << Line("CCACHE_DIR", s.zone) >>)
  OBVIOUS
<1>12. s.zone = t.zone /\ s.env = t.env
  BY DEF Shown
<1>13. H = When(\E d \in D : "ccache" \in d.kinds, << Line("CCACHE_DIR", t.zone) >>)
  BY <1>8, <1>11, <1>12 DEF When
<1>14. PICK V : V = [i \in DOMAIN SetToSeq(DOMAIN s.env.vars) |->
                       Line(NoKey, SetToSeq(DOMAIN s.env.vars)[i] \o <<"=">> \o
                                   s.env.vars[SetToSeq(DOMAIN s.env.vars)[i]])]
  OBVIOUS
<1>15. RenderRunnerEnvFile(s) = H \o << Line("KTSTR_CACHE_DIR", s.zone) >> \o X \o V
  BY <1>1, <1>4, <1>9, <1>11, <1>14, Zenon DEF RenderRunnerEnvFile, CacheEnv
<1>16. RenderRunnerEnvFile(t) = H \o << Line("KTSTR_CACHE_DIR", s.zone) >> \o X \o V
  BY <1>2, <1>5, <1>10, <1>12, <1>13, <1>14, Zenon DEF RenderRunnerEnvFile, CacheEnv
<1>17. QED
  BY <1>15, <1>16

\* 00-ghars.conf
LEMMA IdentityShown ==
  ASSUME NEW s, NEW t, Shown(s, t)
  PROVE  /\ RenderIdentity(s) = RenderIdentity(t) /\ ComposeRunnerPath(s) = ComposeRunnerPath(t)
         /\ Bin(s) = Bin(t) /\ Home(s) = Home(t) /\ Mode(s) = Mode(t)
<1>1. Home(s) = Home(t)
  BY DEF Shown, Home
<1>2. Bin(s) = Bin(t)
  BY <1>1 DEF Shown, Bin
<1>3. Mode(s) = Mode(t)
  BY DEF Shown, Mode
<1>4. ComposeRunnerPath(s) = ComposeRunnerPath(t)
  BY <1>1 DEF Shown, ComposeRunnerPath
<1>5. EnvAssignments(s) = EnvAssignments(t)
  <2>1. s.env = t.env
    BY DEF Shown
  <2>2. PICK e : e = s.env /\ e = t.env
    BY <2>1
  <2>3. PICK f : f = [i \in DOMAIN SetToSeq(DOMAIN e.vars) |->
                       Line("Environment", SetToSeq(DOMAIN e.vars)[i] \o <<"=">> \o
                                           Escape(e.vars[SetToSeq(DOMAIN e.vars)[i]]))]
    OBVIOUS
  <2>4. EnvAssignments(s) = f /\ EnvAssignments(t) = f
    BY <2>2, <2>3, Zenon DEF EnvAssignments
  <2>5. QED
    BY <2>4
<1>6. IdentityService(s) = IdentityService(t)
  BY <1>1, <1>2, <1>4, <1>5 DEF Shown, IdentityService
<1>7. Annotations(s) = Annotations(t)
  <2>1. PICK N : N = {b.name : b \in s.caches} /\ N = {b.name : b \in t.caches}
    BY DEF Shown, Alike
  <2>2. PICK h : h = SpecHash(s) /\ h = SpecHash(t)
    BY DEF Shown
  <2>3. PICK a, b, c, d, e : /\ a = s.name /\ b = s.url /\ c = s.auth /\ d = s.labels /\ e = s.arch
    OBVIOUS
  <2>4. a = t.name /\ b = t.url /\ c = t.auth /\ d = t.labels /\ e = t.arch
    BY <2>3 DEF Shown
  <2>5. PICK v, x, y, z, n, m :
          /\ v = s.version /\ x = s.sha /\ y = s.tarball /\ z = s.zone /\ n = s.network /\ m = Mode(s)
    OBVIOUS
  <2>6. v = t.version /\ x = t.sha /\ y = t.tarball /\ z = t.zone /\ n = t.network /\ m = Mode(t)
    BY <1>3, <2>5 DEF Shown
  <2>7. PICK q : q =
        << Digest("X-Ghars-Spec-Hash", h),
           Line("X-Ghars-Runner-Name", a), Line("X-Ghars-Runner-Url", b),
           Line("X-Ghars-Auth-Name", c), Line("X-Ghars-Labels", Join(d, Comma)),
           Line("X-Ghars-Arch", e),
           Line("X-Ghars-Caches", Join(N, Comma)),
           Line("X-Ghars-Effective-Version", IF v = None THEN <<>> ELSE v) >>
        \o When(x # None, << Line("X-Ghars-Runner-Sha256", x) >>)
        \o When(y # None, << Digest("X-Ghars-Runner-Tarball-Hash", y) >>)
        \o << Line("X-Ghars-Trust-Zone", z), Line("X-Ghars-Network-Mode", m) >>
        \o When(n # None /\ n.subnet # None,
                << Digest("X-Ghars-Netns-Subnet", n.subnet) >>)
        \o When(n # None,
                << Line("X-Ghars-Dns", DnsToAnnotation(n.spec.dns)),
                   Line("X-Ghars-Ipv6", Ipv6ToAnnotation(n.spec.ipv6)) >>)
    OBVIOUS
  <2>8. Annotations(s) = q
    BY <2>1, <2>2, <2>3, <2>5, <2>7 DEF Annotations
  <2>9. Annotations(t) = q
    BY <2>1, <2>2, <2>4, <2>6, <2>7 DEF Annotations
  <2>10. QED
    BY <2>8, <2>9
<1>8. QED
  BY <1>1, <1>2, <1>3, <1>4, <1>6, <1>7 DEF RenderIdentity

\* The other drop-ins
LEMMA BodiesShown ==
  ASSUME NEW s, NEW t, Shown(s, t), NEW n
  PROVE  Body(s, n) = Body(t, n) /\ Basenames(s) = Basenames(t)
<1>1. /\ s.name = t.name /\ s.memory = t.memory /\ s.network = t.network /\ s.proxy = t.proxy
      /\ s.hooks = t.hooks /\ s.hard = t.hard /\ s.cpus = t.cpus /\ s.mems = t.mems
  BY DEF Shown
<1>2. /\ Home(s) = Home(t) /\ Mode(s) = Mode(t) /\ RenderIdentity(s) = RenderIdentity(t)
  BY IdentityShown
<1>3. /\ RenderCachePool(s) = RenderCachePool(t)
      /\ SccacheBindings(s) = {} <=> SccacheBindings(t) = {}
  BY CachePoolShown
<1>4. RenderMemory(s) = RenderMemory(t) /\ RenderNuma(s) = RenderNuma(t)
  BY <1>1 DEF RenderMemory, RenderNuma
<1>5. RenderResolvBind(s) = RenderResolvBind(t) /\ RenderLognamespace(s) = RenderLognamespace(t)
  BY <1>1, <1>2 DEF RenderResolvBind, RenderLognamespace
<1>6. \A h : Hook(s, h) = Hook(t, h)
  BY <1>1 DEF Hook
<1>7. CleanupWorkdirEnabled(s) = CleanupWorkdirEnabled(t)
  BY <1>6 DEF CleanupWorkdirEnabled
<1>8. RenderHooks(s) = RenderHooks(t)
  BY <1>2, <1>6, <1>7 DEF RenderHooks
<1>9. RenderNetwork(s) = RenderNetwork(t)
  BY <1>1 DEF RenderNetwork
<1>10. Basenames(s) = Basenames(t)
  BY <1>1, <1>3, <1>6, <1>7 DEF Basenames
<1>11. QED
  BY <1>1, <1>2, <1>3, <1>4, <1>5, <1>8, <1>9, <1>10 DEF Body

\* The files of two specs with one hash are the same.
LEMMA FilesShown ==
  ASSUME NEW s, NEW t, Shown(s, t)
  PROVE  RenderRunnerUnit(s) = RenderRunnerUnit(t)
<1>1. /\ ComposeRunnerPath(s) = ComposeRunnerPath(t) /\ Bin(s) = Bin(t) /\ Home(s) = Home(t)
      /\ RenderRunnerEnvFile(s) = RenderRunnerEnvFile(t)
  BY IdentityShown, EnvFileShown
<1>2. s.hooks = t.hooks
  BY DEF Shown
<1>3. RenderCleanupScript(s) = RenderCleanupScript(t)
  BY <1>1, <1>2 DEF RenderCleanupScript, CleanupWorkdirEnabled, Hook
<1>4. Basenames(s) = Basenames(t) /\ \A n : Body(s, n) = Body(t, n)
  BY BodiesShown
<1>5. [n \in Basenames(s) |-> Body(s, n)] = [n \in Basenames(t) |-> Body(t, n)]
  BY <1>4
<1>6. QED
  BY <1>1, <1>3, <1>5 DEF RenderRunnerUnit

\* NoChangeMissed, in a state
LEMMA MissedNow ==
  ASSUME PlainConfigs, HostInv
  PROVE  NoChangeMissed
<1> SUFFICES ASSUME NEW i \in Accepted, NEW want, want = Wants[Input(i, FALSE)],
                    NEW n \in DOMAIN runners, n \in DOMAIN want, ActionKind(n, want) = "noop"
             PROVE  Rendered[Candidate(n, want)] = Rendered[runners[n].spec]
  BY DEF NoChangeMissed
<1>1. PICK old : old = runners[n].spec
  OBVIOUS
<1>2. PICK d : d = Candidate(n, want)
  OBVIOUS
<1>3. PICK k \in ToSet(Schemas) : k = Schemas[schema]
  BY ReleaseIs DEF HostInv
<1>4. None \in Lookups
  BY DEF Lookups
<1>5. PICK c : c = Configs[i]
  OBVIOUS
<1>6. Usable(c) /\ Plain(c)
  BY <1>3, <1>4, <1>5, Wanting, PlanConstants DEF PlainConfigs, Accepted
<1>7. want = [m \in Named(c) |-> Tracked(Lowered(c, m, k), None)]
  BY <1>3, <1>4, <1>5, Wanting DEF Input, Latest
<1>8. n \in Named(c)
  BY <1>7
<1>9. PICK w : w = Lowered(c, n, k)
  OBVIOUS
<1>10. want[n] = Tracked(w, None)
  BY <1>7, <1>8, <1>9
<1>11. Typed(w)
  BY <1>6, <1>8, <1>9, LoweredTyped
<1>12. IsSpec(w)
  BY <1>11 DEF Typed
<1>13. Written(old)
  BY <1>1, Standing
<1>14. PICK v : v = Chosen(w, None, old)
  OBVIOUS
<1>15. d = Pinned(w, v)
  BY <1>1, <1>2, <1>10, <1>11, <1>13, <1>14, CandidateIs
<1>16. IsSpec(d) /\ d.version = v /\ SameButVersion(d, w)
  BY <1>12, <1>15, WithVersion
<1>17. SpecHash(old) = SpecHash(d)
  <2>1. PICK kind : kind = Compared(Discovered[old], d, InSync(n))
    OBVIOUS
  <2>2. ActionKind(n, want) = kind
    BY <1>1, <1>2, <2>1 DEF ActionKind, Found
  <2>3. InSync(n) \in BOOLEAN
    BY DEF InSync
  <2>4. kind = "noop" <=> (SpecHash(old) = SpecHash(d) /\ InSync(n))
    BY <1>13, <1>16, <2>1, <2>3, ComparedIs
  <2>5. QED
    BY <2>2, <2>4
<1>18. IsSpec(old) /\ old \in Specs /\ old.version \in Versions /\ IsFiniteSet(old.caches)
  BY <1>13 DEF Written, Sound
<1>19. /\ old.version = d.version /\ old.name = d.name /\ old.url = d.url /\ old.arch = d.arch
       /\ old.labels = d.labels /\ old.memory = d.memory /\ old.sha = d.sha
       /\ old.tarball = d.tarball /\ old.auth = d.auth /\ old.zone = d.zone
       /\ old.network = d.network /\ old.proxy = d.proxy /\ old.hooks = d.hooks
       /\ old.hard = d.hard /\ old.cpus = d.cpus /\ old.mems = d.mems /\ old.env = d.env
       /\ {CachePoolHash(b) : b \in old.caches} = {CachePoolHash(b) : b \in d.caches}
  BY <1>16, <1>17, <1>18, HashTells
<1>20. d \in Specs
  <2>1. v \in Versions /\ v # None
    <3>1. v = old.version
      BY <1>16, <1>19
    <3>2. old.version # None
      BY <1>13, VersionText DEF Written
    <3>3. QED
      BY <1>18, <3>1, <3>2
  <2>2. Or(w.version, None) \in {None, v}
    BY <1>14, <2>1 DEF Chosen, Or
  <2>3. QED
    BY <1>3, <1>4, <1>5, <1>8, <1>9, <1>11, <1>15, <2>1, <2>2, PlannedSpec
<1>21. Bound(d.caches)
  <2>1. Bound(w.caches)
    BY <1>6, <1>8, <1>9, <1>11, LoweredBound
  <2>2. d.caches = w.caches
    BY <1>16 DEF SameButVersion
  <2>3. QED
    BY <2>1, <2>2
<1>22. Alike(old.caches, d.caches) /\ Alike(SccacheBindings(old), SccacheBindings(d))
  BY <1>18, <1>19, <1>21, HashesAlike DEF SccacheBindings
<1>23. Shown(old, d)
  BY <1>17, <1>19, <1>22 DEF Shown
<1>24. RenderRunnerUnit(old) = RenderRunnerUnit(d)
  BY <1>23, FilesShown
<1>25. \A s \in Specs : Rendered[s] = RenderRunnerUnit(s)
  BY Zenon DEF Rendered, Table
<1>26. QED
  BY <1>1, <1>2, <1>18, <1>20, <1>24, <1>25

\* A runner that the planner leaves alone has the files that its spec renders to, for
\* every plain config (plan/hash.rs, compute.rs 318-343).
THEOREM NothingIsMissed ==
  ASSUME PlainConfigs
  PROVE  Spec => []NoChangeMissed
<1>1. HostInv => NoChangeMissed
  BY MissedNow
<1>2. QED
  BY <1>1, HostAlways, PTL

-----------------------------------------------------------------------------
(* The order of a list *)

\* A list that is read backwards holds what it held.
LEMMA ReversedList ==
  ASSUME NEW X, NEW s \in Seq(X), NEW t, t = Reverse(s)
  PROVE  t \in Seq(X) /\ ToSet(t) = ToSet(s) /\ (t = <<>> <=> s = <<>>)
BY ReverseElements

\* Two lists that are put together hold the same, and are empty, in any order.
LEMMA TwoLists ==
  ASSUME NEW X, NEW s \in Seq(X), NEW t \in Seq(X), NEW u \in Seq(X), NEW v \in Seq(X),
         ToSet(u) = ToSet(s), ToSet(v) = ToSet(t)
  PROVE  ToSet(u \o v) = ToSet(s \o t) /\ (u \o v = <<>> <=> s \o t = <<>>)
<1>1. PICK a : a = s \o t
  OBVIOUS
<1>2. PICK b : b = u \o v
  OBVIOUS
<1>3. a \in Seq(X) /\ ToSet(a) = ToSet(s) \cup ToSet(t)
  BY <1>1, ConcatElements
<1>4. b \in Seq(X) /\ ToSet(b) = ToSet(u) \cup ToSet(v)
  BY <1>2, ConcatElements
<1>5. (a = <<>> <=> ToSet(a) = {}) /\ (b = <<>> <=> ToSet(b) = {})
  BY <1>3, <1>4, ElementsOf
<1>6. QED
  BY <1>1, <1>2, <1>3, <1>4, <1>5

\* The hardening of a runner and of [defaults], read backwards, merges to the same.
LEMMA SameHardening ==
  ASSUME NEW h \in HardeningTables, NEW d \in HardeningTables
  PROVE  MergeHardening(ReversedHard(h), ReversedHard(d)) = MergeHardening(h, d)
<1>1. PICK a : a = ReversedHard(h)
  OBVIOUS
<1>2. PICK b : b = ReversedHard(d)
  OBVIOUS
<1>3. /\ a.flags = h.flags /\ a.etc = h.etc /\ a.ro = h.ro /\ a.binds = h.binds
      /\ a.families = Reverse(h.families) /\ a.syscalls = Reverse(h.syscalls)
      /\ a.caps = Reverse(h.caps)
  BY <1>1 DEF ReversedHard, HardeningTables
<1>4. /\ b.flags = d.flags /\ b.etc = d.etc /\ b.ro = d.ro /\ b.binds = d.binds
      /\ b.families = Reverse(d.families) /\ b.syscalls = Reverse(d.syscalls)
      /\ b.caps = Reverse(d.caps)
  BY <1>2 DEF ReversedHard, HardeningTables
<1>5. /\ h.families \in Seq(Text) /\ h.syscalls \in Seq(Text) /\ h.caps \in Seq(Text)
      /\ d.families \in Seq(Text) /\ d.syscalls \in Seq(Text) /\ d.caps \in Seq(Text)
  BY DEF HardeningTables, Texts
<1>6. /\ ToSet(a.families) = ToSet(h.families) /\ (a.families = <<>> <=> h.families = <<>>)
      /\ ToSet(b.families) = ToSet(d.families)
  BY <1>3, <1>4, <1>5, ReversedList
<1>7. /\ ToSet(a.syscalls) = ToSet(h.syscalls) /\ (a.syscalls = <<>> <=> h.syscalls = <<>>)
      /\ ToSet(b.syscalls) = ToSet(d.syscalls)
  BY <1>3, <1>4, <1>5, ReversedList
<1>8. /\ ToSet(a.caps) = ToSet(h.caps) /\ ToSet(b.caps) = ToSet(d.caps)
      /\ a.caps \in Seq(Text) /\ b.caps \in Seq(Text)
  BY <1>3, <1>4, <1>5, ReversedList
<1>9. PickVec(a.families, b.families) = PickVec(h.families, d.families)
  BY <1>6 DEF PickVec
<1>10. PickVec(a.syscalls, b.syscalls) = PickVec(h.syscalls, d.syscalls)
  BY <1>7 DEF PickVec
<1>11. ToSet(b.caps \o a.caps) = ToSet(d.caps \o h.caps)
  <2>1. PICK x, y, z, w : x = a.caps /\ y = b.caps /\ z = h.caps /\ w = d.caps
    OBVIOUS
  <2>2. /\ x \in Seq(Text) /\ y \in Seq(Text) /\ z \in Seq(Text) /\ w \in Seq(Text)
        /\ ToSet(x) = ToSet(z) /\ ToSet(y) = ToSet(w)
    BY <1>5, <1>8, <2>1
  <2>3. ToSet(y \o x) = ToSet(w \o z)
    BY <2>2, TwoLists
  <2>4. QED
    BY <2>1, <2>3
<1>12. MergeHardening(a, b) = MergeHardening(h, d)
  BY <1>3, <1>4, <1>9, <1>10, <1>11 DEF MergeHardening
<1>13. QED
  BY <1>1, <1>2, <1>12

\* The config that is read backwards
LEMMA ReversedConfig ==
  ASSUME NEW c, IsConfig(c), NEW b, b = Reversed(c)
  PROVE  /\ b.auth = c.auth /\ b.proxy = c.proxy /\ b.hooks = c.hooks
         /\ b.runners = [i \in DOMAIN c.runners |-> ReversedRunner(c.runners[i])]
         /\ b.pools = [p \in DOMAIN c.pools |-> ReversedPool(c.pools[p])]
         /\ b.networks = [k \in DOMAIN c.networks |-> ReversedNetwork(c.networks[k])]
         /\ b.defaults.auth = c.defaults.auth /\ b.defaults.version = c.defaults.version
         /\ b.defaults.sha = c.defaults.sha /\ b.defaults.arch = c.defaults.arch
         /\ b.defaults.network = c.defaults.network /\ b.defaults.memory = c.defaults.memory
         /\ b.defaults.env = c.defaults.env
         /\ b.defaults.labels = Reverse(c.defaults.labels)
         /\ b.defaults.hard = ReversedHard(c.defaults.hard)
<1>1. c = [auth |-> c.auth, defaults |-> c.defaults, runners |-> c.runners, pools |-> c.pools,
           networks |-> c.networks, proxy |-> c.proxy, hooks |-> c.hooks]
  BY DEF IsConfig
<1>2. PICK d : d = c.defaults
  OBVIOUS
<1>3. d = [auth |-> d.auth, labels |-> d.labels, version |-> d.version, sha |-> d.sha,
           arch |-> d.arch, network |-> d.network, memory |-> d.memory, hard |-> d.hard,
           env |-> d.env]
  BY <1>2 DEF IsConfig, IsDefaults
<1>4. PICK x, y, z : /\ x = [i \in DOMAIN c.runners |-> ReversedRunner(c.runners[i])]
                     /\ y = [p \in DOMAIN c.pools |-> ReversedPool(c.pools[p])]
                     /\ z = [k \in DOMAIN c.networks |-> ReversedNetwork(c.networks[k])]
  OBVIOUS
<1>5. b = [auth |-> c.auth,
           defaults |-> [auth |-> d.auth, labels |-> Reverse(d.labels), version |-> d.version,
                         sha |-> d.sha, arch |-> d.arch, network |-> d.network,
                         memory |-> d.memory, hard |-> ReversedHard(d.hard), env |-> d.env],
           runners |-> x, pools |-> y, networks |-> z, proxy |-> c.proxy, hooks |-> c.hooks]
  BY <1>1, <1>2, <1>3, <1>4 DEF Reversed
<1>6. QED
  BY <1>2, <1>4, <1>5

\* A block that is read backwards
LEMMA ReversedBlock ==
  ASSUME NEW r, IsBlock(r), NEW t, t = ReversedRunner(r)
  PROVE  /\ IsBlock(t) /\ t.name = r.name /\ t.count = r.count /\ t.url = r.url /\ t.auth = r.auth
         /\ t.version = r.version /\ t.sha = r.sha /\ t.tarball = r.tarball /\ t.arch = r.arch
         /\ t.zone = r.zone /\ t.network = r.network /\ t.memory = r.memory
         /\ t.cpus = r.cpus /\ t.mems = r.mems /\ t.proxy = r.proxy /\ t.hooks = r.hooks
         /\ t.env = r.env /\ t.labels = Reverse(r.labels) /\ t.caches = Reverse(r.caches)
         /\ t.hard = ReversedHard(r.hard)
BY DEF IsBlock, ReversedRunner

\* One list has the runners of another, each read backwards.
Turns(q, p) ==
  /\ Sq(q) /\ Sq(p) /\ Len(q) = Len(p)
  /\ \A j \in 1..Len(p) : q[j] = ReversedRunner(p[j])

\* So do two such lists that are put together.
LEMMA TurnedConcat ==
  ASSUME NEW q, NEW p, NEW t, NEW s, Turns(q, p), Turns(t, s)
  PROVE  Turns(q \o t, p \o s)
<1>1. PICK a : a = q \o t
  OBVIOUS
<1>2. PICK b : b = p \o s
  OBVIOUS
<1>3. Sq(a) /\ Sq(b)
  BY <1>1, <1>2, ConcatText DEF Turns
<1>4. PICK X : X = (ToSet(q) \cup ToSet(t)) \cup (ToSet(p) \cup ToSet(s))
  OBVIOUS
<1>5. q \in Seq(X) /\ t \in Seq(X) /\ p \in Seq(X) /\ s \in Seq(X)
  BY <1>4, SeqMonotonic DEF Turns, Sq
<1>6. /\ Len(a) = Len(q) + Len(t)
      /\ \A i \in 1..(Len(q) + Len(t)) : a[i] = IF i <= Len(q) THEN q[i] ELSE t[i - Len(q)]
  BY <1>1, <1>5, ConcatProperties
<1>7. /\ Len(b) = Len(p) + Len(s)
      /\ \A i \in 1..(Len(p) + Len(s)) : b[i] = IF i <= Len(p) THEN p[i] ELSE s[i - Len(p)]
  BY <1>2, <1>5, ConcatProperties
<1>8. Len(q) = Len(p) /\ Len(t) = Len(s) /\ Len(p) \in Nat /\ Len(s) \in Nat
  BY <1>5, LenProperties DEF Turns
<1>9. ASSUME NEW i \in 1..(Len(p) + Len(s)) PROVE a[i] = ReversedRunner(b[i])
  <2>1. CASE i <= Len(p)
    <3>1. i \in 1..Len(p)
      BY <1>8, <2>1
    <3>2. a[i] = q[i] /\ b[i] = p[i]
      BY <1>6, <1>7, <1>8, <2>1
    <3>3. QED
      BY <3>1, <3>2 DEF Turns
  <2>2. CASE ~(i <= Len(p))
    <3>1. i - Len(p) \in 1..Len(s)
      BY <1>8, <2>2
    <3>2. a[i] = t[i - Len(p)] /\ b[i] = s[i - Len(p)]
      BY <1>6, <1>7, <1>8, <2>2
    <3>3. QED
      BY <3>1, <3>2 DEF Turns
  <2>3. QED
    BY <2>1, <2>2
<1>10. Turns(a, b)
  BY <1>3, <1>6, <1>7, <1>8, <1>9 DEF Turns
<1>11. QED
  BY <1>1, <1>2, <1>10

\* And any number of them.
LEMMA TurnedFlat ==
  ASSUME NEW qs, NEW ps, NEW n \in Nat, Len(qs) = n, Len(ps) = n, n = 0 => qs = <<>> /\ ps = <<>>,
         \A i \in 1..n : Turns(qs[i], ps[i])
  PROVE  Turns(FlattenSeq(qs), FlattenSeq(ps))
<1>1. CASE n = 0
  <2>1. FlattenSeq(qs) = <<>> /\ FlattenSeq(ps) = <<>>
    BY <1>1 DEF FlattenSeq
  <2>2. Turns(<<>>, <<>>)
    <3>1. Sq(<<>>) /\ Len(<<>>) = 0 /\ 1..0 = {}
      BY EmptySeq DEF Sq
    <3>2. QED
      BY <3>1 DEF Turns
  <2>3. QED
    BY <2>1, <2>2
<1>2. CASE n # 0
  <2>1. n \in Nat \ {0} /\ 1 \in 1..n
    BY <1>2
  <2>2. PICK a : /\ FlattenSeq(qs) = a[n] /\ a[1] = qs[1]
                 /\ \A i \in 2..n : a[i] = a[i - 1] \o qs[i]
    <3>1. \E a : /\ FlattenSeq(qs) = a[Len(qs)] /\ a[1] = qs[1]
                  /\ \A i \in 2..Len(qs) : a[i] = a[i - 1] \o qs[i]
      BY <2>1, FlattenRuns
    <3>2. QED
      BY <3>1
  <2>3. PICK b : /\ FlattenSeq(ps) = b[n] /\ b[1] = ps[1]
                 /\ \A i \in 2..n : b[i] = b[i - 1] \o ps[i]
    <3>1. \E b : /\ FlattenSeq(ps) = b[Len(ps)] /\ b[1] = ps[1]
                  /\ \A i \in 2..Len(ps) : b[i] = b[i - 1] \o ps[i]
      BY <2>1, FlattenRuns
    <3>2. QED
      BY <3>1
  <2> DEFINE S == {i \in 1..n : Turns(a[i], b[i])}
  <2>4. 1 \in S
    BY <2>1, <2>2, <2>3
  <2>5. ASSUME NEW i \in (1 + 1)..n, i - 1 \in S PROVE i \in S
    <3>1. i \in 1..n /\ i \in 2..n
      BY <2>1
    <3>2. Turns(a[i - 1] \o qs[i], b[i - 1] \o ps[i])
      BY <2>5, <3>1, TurnedConcat
    <3>3. QED
      BY <2>2, <2>3, <3>1, <3>2
  <2>6. \A i \in 1..n : i \in S
    <3> HIDE DEF S
    <3>1. QED
      BY <2>1, <2>4, <2>5, UpTo
  <2>7. Turns(a[n], b[n])
    BY <2>1, <2>6
  <2>8. QED
    BY <2>2, <2>3, <2>7
<1>3. QED
  BY <1>1, <1>2

\* The blocks of the config that is read backwards, and the tables that they refer to
LEMMA ReversedBlocks ==
  ASSUME NEW c, Usable(c), NEW b, b = Reversed(c)
  PROVE  /\ Len(b.runners) = Len(c.runners) /\ DOMAIN b.runners = DOMAIN c.runners
         /\ DOMAIN c.runners = 1..Len(c.runners) /\ Len(c.runners) \in Nat
         /\ c.runners = <<>> => b.runners = <<>>
         /\ \A i \in 1..Len(c.runners) :
              c.runners[i] \in Runners(c) /\ b.runners[i] = ReversedRunner(c.runners[i])
         /\ ExplicitNames(b) = ExplicitNames(c)
<1>1. IsConfig(c) /\ c.runners \in Seq(Runners(c))
  BY DEF Usable, IsConfig
<1>2. b.runners = [i \in DOMAIN c.runners |-> ReversedRunner(c.runners[i])]
  BY <1>1, ReversedConfig, ZenonT(60)
<1>3. /\ DOMAIN c.runners = 1..Len(c.runners) /\ Len(c.runners) \in Nat
      /\ \A i \in 1..Len(c.runners) : c.runners[i] \in Runners(c)
  BY <1>1, LenProperties, ElementOfSeq
<1>4. PICK p, q : p = c.runners /\ q = b.runners
  OBVIOUS
<1>5. q = [i \in 1..Len(p) |-> ReversedRunner(p[i])] /\ Len(p) \in Nat
  BY <1>2, <1>3, <1>4
<1>6. Len(q) = Len(p) /\ DOMAIN q = 1..Len(p) /\ (p = <<>> => q = <<>>)
  <2>1. PICK S : S = {ReversedRunner(p[i]) : i \in 1..Len(p)}
    OBVIOUS
  <2>2. q \in Seq(S) /\ Len(q) = Len(p)
    <3> DEFINE e(i) == ReversedRunner(p[i])
    <3>1. q = [i \in 1..Len(p) |-> e(i)] /\ \A i \in 1..Len(p) : e(i) \in S
      BY <1>5, <2>1
    <3> HIDE DEF e
    <3>2. QED
      BY <1>5, <3>1, IsASeq
  <2>3. DOMAIN q = 1..Len(p)
    BY <1>5
  <2>4. p = <<>> => q = <<>>
    BY <2>2, ElementsOf
  <2>5. QED
    BY <2>2, <2>3, <2>4
<1>7. \A r \in Runners(c) : ReversedRunner(r).name = r.name /\ ReversedRunner(r).count = r.count
  BY RunnerFields, ReversedBlock
<1>8. Runners(c) = {p[i] : i \in 1..Len(p)} /\ Runners(b) = {ReversedRunner(p[i]) : i \in 1..Len(p)}
  <2>1. Runners(c) = {p[i] : i \in DOMAIN p} /\ Runners(b) = {q[i] : i \in DOMAIN q}
    BY <1>4, Zenon DEF Runners, ToSet
  <2>2. \A i \in 1..Len(p) : q[i] = ReversedRunner(p[i])
    BY <1>5
  <2>3. QED
    BY <1>3, <1>4, <1>6, <2>1, <2>2
<1>9. ExplicitNames(b) = ExplicitNames(c)
  <2>1. \A r \in Runners(c) : IsCountBlock(ReversedRunner(r)) <=> IsCountBlock(r)
    BY <1>7 DEF IsCountBlock
  <2>2. \A x : x \in Runners(b) <=> \E r \in Runners(c) : x = ReversedRunner(r)
    BY <1>8
  <2>3. ASSUME NEW m \in ExplicitNames(b) PROVE m \in ExplicitNames(c)
    <3>1. PICK x \in Runners(b) : ~IsCountBlock(x) /\ m = x.name
      BY <2>3 DEF ExplicitNames
    <3>2. PICK r \in Runners(c) : x = ReversedRunner(r)
      BY <2>2, <3>1
    <3>3. QED
      BY <1>7, <2>1, <3>1, <3>2 DEF ExplicitNames
  <2>4. ASSUME NEW m \in ExplicitNames(c) PROVE m \in ExplicitNames(b)
    <3>1. PICK r \in Runners(c) : ~IsCountBlock(r) /\ m = r.name
      BY <2>4 DEF ExplicitNames
    <3>2. PICK x : x = ReversedRunner(r)
      OBVIOUS
    <3>3. x \in Runners(b) /\ ~IsCountBlock(x) /\ m = x.name
      BY <1>7, <2>1, <2>2, <3>1, <3>2
    <3>4. QED
      BY <3>3 DEF ExplicitNames
  <2>5. QED
    BY <2>3, <2>4
<1>10. QED
  BY <1>2, <1>3, <1>4, <1>6, <1>9

\* Two blocks, field by field
SameBlock(y, z) ==
  /\ y.name = z.name /\ y.count = z.count /\ y.url = z.url /\ y.auth = z.auth
  /\ y.labels = z.labels /\ y.version = z.version /\ y.sha = z.sha /\ y.tarball = z.tarball
  /\ y.arch = z.arch /\ y.caches = z.caches /\ y.zone = z.zone /\ y.network = z.network
  /\ y.memory = z.memory /\ y.cpus = z.cpus /\ y.mems = z.mems /\ y.proxy = z.proxy
  /\ y.hooks = z.hooks /\ y.hard = z.hard /\ y.env = z.env

\* That is all there is to a block.
LEMMA BlocksEqual ==
  ASSUME NEW y, NEW z, IsBlock(y), IsBlock(z), SameBlock(y, z)
  PROVE  y = z
BY Zenon DEF IsBlock, SameBlock

\* A block that is read backwards stands for the same runners, read backwards.
LEMMA ReversedInstances ==
  ASSUME NEW c, Usable(c), NEW b, b = Reversed(c), NEW r \in Runners(c), NEW t,
         t = ReversedRunner(r)
  PROVE  Turns(Instances(b, t), Instances(c, r))
<1>1. IsBlock(r) /\ IsBlock(t) /\ t.name = r.name /\ t.count = r.count
  BY RunnerFields, ReversedBlock
<1>2. IsCountBlock(t) <=> IsCountBlock(r)
  BY <1>1 DEF IsCountBlock
<1>3. Turns(<<>>, <<>>)
  <2>1. Sq(<<>>) /\ Len(<<>>) = 0 /\ 1..0 = {}
    BY EmptySeq DEF Sq
  <2>2. QED
    BY <2>1 DEF Turns
<1>4. \A x : Turns(<<ReversedRunner(x)>>, <<x>>)
  <2> TAKE x
  <2>1. PICK y : y = ReversedRunner(x)
    OBVIOUS
  <2>2. PICK p, q : p = <<x>> /\ q = <<y>>
    OBVIOUS
  <2>3. Sq(p) /\ Sq(q) /\ Len(p) = 1 /\ Len(q) = 1 /\ p[1] = x /\ q[1] = y
    BY <2>2, SymbolText
  <2>4. Turns(q, p)
    <3>1. \A j \in 1..1 : j = 1
      OBVIOUS
    <3>2. QED
      BY <2>1, <2>3, <3>1 DEF Turns
  <2>5. QED
    BY <2>1, <2>2, <2>4
<1>5. ASSUME NEW m, NEW x, x = [r EXCEPT !.name = m, !.count = None],
             NEW y, y = [t EXCEPT !.name = m, !.count = None]
      PROVE  y = ReversedRunner(x) /\ x.name = m /\ y.name = m
  <2>1. IsBlock(x) /\ IsBlock(y)
    BY <1>1, <1>5 DEF IsBlock
  <2>2. /\ x.name = m /\ x.count = None /\ x.url = r.url /\ x.auth = r.auth
        /\ x.labels = r.labels /\ x.version = r.version /\ x.sha = r.sha
        /\ x.tarball = r.tarball /\ x.arch = r.arch /\ x.caches = r.caches
        /\ x.zone = r.zone /\ x.network = r.network /\ x.memory = r.memory
        /\ x.cpus = r.cpus /\ x.mems = r.mems /\ x.proxy = r.proxy
        /\ x.hooks = r.hooks /\ x.hard = r.hard /\ x.env = r.env
    BY <1>1, <1>5 DEF IsBlock
  <2>3. /\ y.name = m /\ y.count = None /\ y.url = t.url /\ y.auth = t.auth
        /\ y.labels = t.labels /\ y.version = t.version /\ y.sha = t.sha
        /\ y.tarball = t.tarball /\ y.arch = t.arch /\ y.caches = t.caches
        /\ y.zone = t.zone /\ y.network = t.network /\ y.memory = t.memory
        /\ y.cpus = t.cpus /\ y.mems = t.mems /\ y.proxy = t.proxy
        /\ y.hooks = t.hooks /\ y.hard = t.hard /\ y.env = t.env
    BY <1>1, <1>5 DEF IsBlock
  <2>4. PICK z : z = ReversedRunner(x)
    OBVIOUS
  <2>5. IsBlock(z) /\ SameBlock(y, z)
    <3>1. /\ t.url = r.url /\ t.auth = r.auth
          /\ t.version = r.version /\ t.sha = r.sha /\ t.tarball = r.tarball
          /\ t.arch = r.arch /\ t.zone = r.zone /\ t.network = r.network
          /\ t.memory = r.memory /\ t.cpus = r.cpus /\ t.mems = r.mems
          /\ t.proxy = r.proxy /\ t.hooks = r.hooks /\ t.env = r.env
          /\ t.labels = Reverse(r.labels) /\ t.caches = Reverse(r.caches)
          /\ t.hard = ReversedHard(r.hard)
      BY <1>1, ReversedBlock
    <3>2. /\ IsBlock(z) /\ z.name = x.name /\ z.count = x.count /\ z.url = x.url
          /\ z.auth = x.auth /\ z.version = x.version /\ z.sha = x.sha
          /\ z.tarball = x.tarball /\ z.arch = x.arch /\ z.zone = x.zone
          /\ z.network = x.network /\ z.memory = x.memory /\ z.cpus = x.cpus
          /\ z.mems = x.mems /\ z.proxy = x.proxy /\ z.hooks = x.hooks /\ z.env = x.env
          /\ z.labels = Reverse(x.labels) /\ z.caches = Reverse(x.caches)
          /\ z.hard = ReversedHard(x.hard)
      BY <2>1, <2>4, ReversedBlock
    <3>3. QED
      BY <2>2, <2>3, <3>1, <3>2 DEF SameBlock
  <2>6. y = z
    BY <2>1, <2>5, BlocksEqual
  <2>7. QED
    BY <2>2, <2>3, <2>4, <2>6
<1>6. CASE ~IsCountBlock(r)
  <2>1. CASE r.count = 0
    BY <1>1, <1>2, <1>3, <1>6, <2>1 DEF Instances
  <2>2. CASE r.count # 0
    <3>1. PICK x : x = [r EXCEPT !.count = None]
      OBVIOUS
    <3>2. PICK y : y = [t EXCEPT !.count = None]
      OBVIOUS
    <3>3. Instances(c, r) = <<x>> /\ Instances(b, t) = <<y>>
      BY <1>1, <1>2, <1>6, <2>2, <3>1, <3>2 DEF Instances
    <3>4. x = [r EXCEPT !.name = r.name, !.count = None]
      <4>1. r = [r EXCEPT !.name = r.name]
        BY <1>1 DEF IsBlock
      <4>2. QED
        BY <3>1, <4>1
    <3>5. y = [t EXCEPT !.name = r.name, !.count = None]
      <4>1. t = [t EXCEPT !.name = r.name]
        BY <1>1 DEF IsBlock
      <4>2. QED
        BY <3>2, <4>1
    <3>6. y = ReversedRunner(x)
      BY <1>5, <3>4, <3>5
    <3>7. QED
      BY <1>4, <3>3, <3>6
  <2>3. QED
    BY <2>1, <2>2
<1>7. CASE IsCountBlock(r)
  <2>1. PICK n : n = r.count
    OBVIOUS
  <2>2. n \in Nat /\ n # 0
    BY <1>7, <2>1, RunnerFields DEF IsCountBlock, Option
  <2>3. PICK g, h : g = Generated(r) /\ h = Generated(t)
    OBVIOUS
  <2> DEFINE name(i) == r.name \o <<"-">> \o Digits(i)
  <2>4. g = [i \in 1..n |-> [r EXCEPT !.name = name(i), !.count = None]]
    BY <2>1, <2>3 DEF Generated
  <2>5. h = [i \in 1..n |-> [t EXCEPT !.name = name(i), !.count = None]]
    <3>1. h = [i \in 1..t.count |-> [t EXCEPT !.name = t.name \o <<"-">> \o Digits(i), !.count = None]]
      <4>1. PICK m, k : m = t.name /\ k = t.count
        OBVIOUS
      <4>2. QED
        BY <2>3 DEF Generated
    <3>2. QED
      BY <1>1, <2>1, <3>1
  <2>6. ASSUME NEW i \in 1..n PROVE h[i] = ReversedRunner(g[i]) /\ g[i].name = h[i].name
    <3>1. PICK m : m = name(i)
      OBVIOUS
    <3>2. g[i] = [r EXCEPT !.name = m, !.count = None]
      BY <2>4, <3>1
    <3>3. h[i] = [t EXCEPT !.name = m, !.count = None]
      BY <2>5, <3>1
    <3>4. PICK u, v : u = g[i] /\ v = h[i]
      OBVIOUS
    <3>5. u = [r EXCEPT !.name = m, !.count = None] /\ v = [t EXCEPT !.name = m, !.count = None]
      BY <3>2, <3>3, <3>4
    <3>6. v = ReversedRunner(u) /\ u.name = m /\ v.name = m
      BY <1>5, <3>5, Zenon
    <3>7. QED
      BY <3>4, <3>6
  <2>7. PICK N : N = ExplicitNames(c)
    OBVIOUS
  <2>8. ExplicitNames(b) = N
    BY <2>7, ReversedBlocks
  <2> DEFINE e(i) == IF g[i].name \in N THEN <<>> ELSE <<g[i]>>
             f(i) == IF h[i].name \in N THEN <<>> ELSE <<h[i]>>
  <2>9. DOMAIN g = 1..n /\ DOMAIN h = 1..n
    BY <2>4, <2>5
  <2>10. PICK ps, qs : ps = [i \in 1..n |-> e(i)] /\ qs = [i \in 1..n |-> f(i)]
    OBVIOUS
  <2>11. Instances(c, r) = FlattenSeq(ps) /\ Instances(b, t) = FlattenSeq(qs)
    BY <1>2, <1>7, <2>3, <2>7, <2>8, <2>9, <2>10 DEF Instances
  <2>12. ASSUME NEW i \in 1..n PROVE Turns(f(i), e(i))
    <3>1. CASE g[i].name \in N
      BY <1>3, <2>6, <3>1
    <3>2. CASE g[i].name \notin N
      BY <1>4, <2>6, <3>2
    <3>3. QED
      BY <3>1, <3>2
  <2> HIDE DEF e, f
  <2>13. Len(ps) = n /\ Len(qs) = n
    BY <2>2, <2>10
  <2>14. \A i \in 1..n : Turns(qs[i], ps[i])
    BY <2>10, <2>12
  <2>15. Turns(FlattenSeq(qs), FlattenSeq(ps))
    BY <2>2, <2>13, <2>14, TurnedFlat
  <2>16. QED
    BY <2>11, <2>15
<1>8. QED
  BY <1>6, <1>7

\* All the runners of a config
LEMMA ReversedExpansion ==
  ASSUME NEW c, Usable(c), NEW b, b = Reversed(c)
  PROVE  Turns(ExpandCounts(b), ExpandCounts(c))
<1>1. PICK n : n = Len(c.runners)
  OBVIOUS
<1>2. PICK ps : ps = [i \in 1..n |-> Instances(c, c.runners[i])]
  OBVIOUS
<1>3. PICK qs : qs = [i \in 1..n |-> Instances(b, b.runners[i])]
  OBVIOUS
<1>4. n \in Nat /\ DOMAIN c.runners = 1..n /\ DOMAIN b.runners = 1..n
  BY <1>1, ReversedBlocks
<1>5. ExpandCounts(c) = FlattenSeq(ps) /\ ExpandCounts(b) = FlattenSeq(qs)
  BY <1>2, <1>3, <1>4 DEF ExpandCounts
<1>6. ASSUME NEW i \in 1..n PROVE Turns(qs[i], ps[i])
  <2>1. c.runners[i] \in Runners(c) /\ b.runners[i] = ReversedRunner(c.runners[i])
    BY <1>1, ReversedBlocks
  <2>2. Turns(Instances(b, b.runners[i]), Instances(c, c.runners[i]))
    BY <2>1, ReversedInstances
  <2>3. QED
    BY <1>2, <1>3, <2>2
<1>7. Len(ps) = n /\ Len(qs) = n /\ (n = 0 => qs = <<>> /\ ps = <<>>)
  <2>1. Len(ps) = n /\ Len(qs) = n
    BY <1>2, <1>3, <1>4
  <2>2. ASSUME n = 0 PROVE qs = <<>> /\ ps = <<>>
    <3>1. 1..n = {}
      BY <2>2
    <3>2. QED
      BY <1>2, <1>3, <3>1
  <2>3. QED
    BY <2>1, <2>2
<1>8. QED
  BY <1>4, <1>5, <1>6, <1>7, TurnedFlat

\* The names of the runners, and the instance that each stands for
LEMMA ReversedNames ==
  ASSUME NEW c, Usable(c), NEW b, b = Reversed(c)
  PROVE  /\ Named(b) = Named(c)
         /\ \A n \in Named(c) :
              /\ Place(ExpandCounts(b), n) = Place(ExpandCounts(c), n)
              /\ ExpandCounts(b)[Place(ExpandCounts(b), n)] =
                   ReversedRunner(ExpandCounts(c)[Place(ExpandCounts(c), n)])
<1>1. PICK x, y : x = ExpandCounts(c) /\ y = ExpandCounts(b)
  OBVIOUS
<1>2. /\ Len(x) \in Nat /\ DOMAIN x = 1..Len(x)
      /\ \A i \in 1..Len(x) : \E r \in Runners(c) : InstanceOf(x[i], r)
  BY <1>1, Expanded
<1>3. Turns(y, x)
  BY <1>1, ReversedExpansion
<1>4. DOMAIN y = 1..Len(x)
  BY <1>3, LenProperties DEF Turns, Sq
<1>5. ASSUME NEW i \in 1..Len(x) PROVE y[i] = ReversedRunner(x[i]) /\ y[i].name = x[i].name
  <2>1. PICK z, w : z = x[i] /\ w = y[i]
    OBVIOUS
  <2>2. w = ReversedRunner(z)
    BY <1>3, <2>1 DEF Turns
  <2>3. IsBlock(z)
    <3>1. PICK r \in Runners(c) : InstanceOf(z, r)
      BY <1>2, <2>1
    <3>2. QED
      BY <3>1, InstanceFields
  <2>4. w.name = z.name
    BY <2>2, <2>3, ReversedBlock
  <2>5. QED
    BY <2>1, <2>2, <2>4
<1>6. Named(b) = {y[i].name : i \in DOMAIN y} /\ Named(c) = {x[i].name : i \in DOMAIN x}
  BY <1>1 DEF Named
<1>7. Named(b) = Named(c)
  BY <1>2, <1>4, <1>5, <1>6
<1>8. ASSUME NEW n \in Named(c) PROVE Place(y, n) = Place(x, n) /\ Place(x, n) \in 1..Len(x)
  <2>1. \A i : (i \in DOMAIN x /\ x[i].name = n /\ \A j \in DOMAIN x : x[j].name = n => j <= i)
               <=> (i \in DOMAIN y /\ y[i].name = n /\ \A j \in DOMAIN y : y[j].name = n => j <= i)
    BY <1>2, <1>4, <1>5
  <2>2. Place(y, n) = Place(x, n)
    BY <2>1, Zenon DEF Place
  <2>3. Place(x, n) \in 1..Len(x)
    BY <1>1, Placed
  <2>4. QED
    BY <2>2, <2>3
<1>9. QED
  BY <1>1, <1>5, <1>7, <1>8

\* Two specs, field by field
SameSpec(s, t) ==
  /\ t.name = s.name /\ t.url = s.url /\ t.arch = s.arch /\ t.labels = s.labels
  /\ t.memory = s.memory /\ t.version = s.version /\ t.sha = s.sha /\ t.tarball = s.tarball
  /\ t.auth = s.auth /\ t.caches = s.caches /\ t.zone = s.zone /\ t.network = s.network
  /\ t.proxy = s.proxy /\ t.hooks = s.hooks /\ t.hard = s.hard /\ t.cpus = s.cpus
  /\ t.mems = s.mems /\ t.env = s.env /\ t.schema = s.schema

\* That is all there is to a spec.
LEMMA SpecsEqual ==
  ASSUME NEW s, NEW t, IsSpec(s), IsSpec(t), SameSpec(s, t)
  PROVE  t = s
BY Zenon DEF IsSpec, SameSpec

\* A pool binds the same.
LEMMA ReversedCaches ==
  ASSUME NEW c, Usable(c), NEW b, b = Reversed(c), NEW k, NEW m \in DOMAIN c.pools
  PROVE  EffectiveCacheBinding(m, b.pools[m], k) = EffectiveCacheBinding(m, c.pools[m], k)
<1>1. PICK p, q : p = c.pools[m] /\ q = b.pools[m]
  OBVIOUS
<1>2. q = ReversedPool(p)
  <2>1. b.pools = [x \in DOMAIN c.pools |-> ReversedPool(c.pools[x])]
    BY ReversedConfig DEF Usable
  <2>2. QED
    BY <1>1, <2>1
<1>3. p \in PoolTables
  BY <1>1 DEF Usable, IsConfig
<1>4. /\ q.size = p.size /\ q.mode = p.mode /\ q.zone = p.zone /\ q.sccache = p.sccache
      /\ q.sleep = p.sleep /\ q.server = p.server /\ q.kinds = Reverse(p.kinds)
  BY <1>2, <1>3 DEF ReversedPool, PoolTables
<1>5. p.kinds \in Seq(Kinds)
  BY <1>3 DEF PoolTables
<1>6. ToSet(q.kinds) = ToSet(p.kinds)
  BY <1>4, <1>5, ReversedList
<1>7. ResolveCachePoolPaths(q) = ResolveCachePoolPaths(p)
  BY <1>4, <1>6 DEF ResolveCachePoolPaths, ServesSccache, PerRunner, NeedsSleep
<1>8. EffectiveCacheBinding(m, q, k) = EffectiveCacheBinding(m, p, k)
  BY <1>4, <1>6, <1>7 DEF EffectiveCacheBinding
<1>9. QED
  BY <1>1, <1>8

\* So does its network.
LEMMA ReversedBinding ==
  ASSUME NEW c, Usable(c), NEW b, b = Reversed(c), NEW y, NEW t, t.network = y.network,
         NEW slot, NetworkUsable(c, y, slot)
  PROVE  NetworkBinding(b, t, slot) = NetworkBinding(c, y, slot)
<1>1. PICK key : key = NetworkOf(c, y)
  OBVIOUS
<1>2. NetworkOf(b, t) = key
  BY <1>1, ReversedConfig DEF NetworkOf, Usable
<1>3. CASE key = None
  BY <1>1, <1>2, <1>3 DEF NetworkBinding
<1>4. CASE key # None
  <2>1. key \in DOMAIN c.networks
    BY <1>1, <1>4 DEF NetworkUsable
  <2>2. PICK n, m : n = c.networks[key] /\ m = b.networks[key]
    OBVIOUS
  <2>3. m = ReversedNetwork(n)
    <3>1. b.networks = [x \in DOMAIN c.networks |-> ReversedNetwork(c.networks[x])]
      BY ReversedConfig DEF Usable
    <3>2. QED
      BY <2>1, <2>2, <3>1
  <2>4. IsNetwork(n)
    BY <2>1, <2>2 DEF Usable, IsConfig
  <2>5. PICK e : e = n.egress
    OBVIOUS
  <2>6. n \in [mode : {"netns", "open"}, egress : {e}, allow : Seq(Cidrs), deny : Seq(Cidrs),
               families : Texts, dns : Option(Seq(Addresses)), ipv6 : BOOLEAN]
    BY <2>4, <2>5 DEF IsNetwork
  <2>7. /\ m.mode = n.mode /\ m.egress = n.egress /\ m.dns = n.dns /\ m.ipv6 = n.ipv6
        /\ m.allow = Reverse(n.allow) /\ m.deny = Reverse(n.deny)
        /\ m.families = Reverse(n.families)
        /\ m = [mode |-> m.mode, egress |-> m.egress, allow |-> m.allow, deny |-> m.deny,
                families |-> m.families, dns |-> m.dns, ipv6 |-> m.ipv6]
    BY <2>3, <2>6 DEF ReversedNetwork
  <2>8. n = [mode |-> n.mode, egress |-> n.egress, allow |-> n.allow, deny |-> n.deny,
             families |-> n.families, dns |-> n.dns, ipv6 |-> n.ipv6]
    BY <2>6
  <2>9. /\ ToSet(m.allow) = ToSet(n.allow) /\ (m.allow = <<>> <=> n.allow = <<>>)
        /\ ToSet(m.deny) = ToSet(n.deny) /\ (m.deny = <<>> <=> n.deny = <<>>)
    <3>1. n.allow \in Seq(Cidrs) /\ n.deny \in Seq(Cidrs)
      BY <2>6
    <3>2. QED
      BY <2>7, <3>1, ReversedList
  <2>10. ToSet(m.families) = ToSet(n.families) /\ (m.families = <<>> <=> n.families = <<>>)
    <3>1. n.families \in Seq(Text)
      BY <2>6 DEF Texts
    <3>2. QED
      BY <2>7, <3>1, ReversedList
  <2>11. CanonicalizeNetworkSpec(m) = CanonicalizeNetworkSpec(n)
    <3>1. PICK A, D, F : /\ A = {Trunc(x) : x \in ToSet(n.allow)}
                         /\ D = {Trunc(x) : x \in ToSet(n.deny)} /\ F = ToSet(n.families)
      OBVIOUS
    <3>2. A = {Trunc(x) : x \in ToSet(m.allow)} /\ D = {Trunc(x) : x \in ToSet(m.deny)}
          /\ F = ToSet(m.families)
      BY <2>9, <2>10, <3>1
    <3>3. /\ CanonicalizeNetworkSpec(n) = [n EXCEPT !.families = F, !.allow = A, !.deny = D]
          /\ CanonicalizeNetworkSpec(m) = [m EXCEPT !.families = F, !.allow = A, !.deny = D]
      BY <3>1, <3>2, Zenon DEF CanonicalizeNetworkSpec
    <3>4. [n EXCEPT !.families = F, !.allow = A, !.deny = D] =
            [mode |-> n.mode, egress |-> n.egress, allow |-> A, deny |-> D,
             families |-> F, dns |-> n.dns, ipv6 |-> n.ipv6]
      <4>1. n \in [mode : {n.mode}, egress : {n.egress}, allow : {n.allow}, deny : {n.deny},
                  families : {n.families}, dns : {n.dns}, ipv6 : {n.ipv6}]
        BY <2>8
      <4>2. PICK z : z = [n EXCEPT !.families = F, !.allow = A, !.deny = D]
        OBVIOUS
      <4>3. /\ z = [mode |-> z.mode, egress |-> z.egress, allow |-> z.allow, deny |-> z.deny,
                    families |-> z.families, dns |-> z.dns, ipv6 |-> z.ipv6]
            /\ z.mode = n.mode /\ z.egress = n.egress /\ z.dns = n.dns /\ z.ipv6 = n.ipv6
            /\ z.families = F /\ z.allow = A /\ z.deny = D
        BY <4>1, <4>2
      <4>4. QED
        BY <2>7, <4>2, <4>3
    <3>5. [m EXCEPT !.families = F, !.allow = A, !.deny = D] =
            [mode |-> n.mode, egress |-> n.egress, allow |-> A, deny |-> D,
             families |-> F, dns |-> n.dns, ipv6 |-> n.ipv6]
      <4>1. m \in [mode : {m.mode}, egress : {m.egress}, allow : {m.allow}, deny : {m.deny},
                  families : {m.families}, dns : {m.dns}, ipv6 : {m.ipv6}]
        BY <2>7
      <4>2. PICK z : z = [m EXCEPT !.families = F, !.allow = A, !.deny = D]
        OBVIOUS
      <4>3. /\ z = [mode |-> z.mode, egress |-> z.egress, allow |-> z.allow, deny |-> z.deny,
                    families |-> z.families, dns |-> z.dns, ipv6 |-> z.ipv6]
            /\ z.mode = m.mode /\ z.egress = m.egress /\ z.dns = m.dns /\ z.ipv6 = m.ipv6
            /\ z.families = F /\ z.allow = A /\ z.deny = D
        BY <4>1, <4>2
      <4>4. QED
        BY <2>7, <4>2, <4>3
    <3>6. QED
      BY <3>3, <3>4, <3>5
  <2>12. EffectiveNetworkBinding(key, m, slot) = EffectiveNetworkBinding(key, n, slot)
    BY <2>7, <2>11 DEF EffectiveNetworkBinding
  <2>13. QED
    BY <1>1, <1>2, <2>2, <2>7, <2>9, <2>10, <2>12 DEF NetworkBinding
<1>5. QED
  BY <1>3, <1>4

\* So do its labels.
LEMMA ReversedLabels ==
  ASSUME NEW d, NEW e, NEW y, NEW t, d.labels \in Texts, y.labels \in Texts, t.name = y.name,
         e.labels = Reverse(d.labels), t.labels = Reverse(y.labels)
  PROVE  MergeLabels(t, e) = MergeLabels(y, d)
<1>1. PICK s, u, v, w : s = d.labels /\ u = y.labels /\ v = e.labels /\ w = t.labels
  OBVIOUS
<1>2. s \in Seq(Text) /\ u \in Seq(Text)
  BY <1>1 DEF Texts
<1>3. v \in Seq(Text) /\ w \in Seq(Text) /\ ToSet(v) = ToSet(s) /\ ToSet(w) = ToSet(u)
  BY <1>1, <1>2, ReversedList
<1>4. ToSet(v \o w) = ToSet(s \o u) /\ (v \o w = <<>> <=> s \o u = <<>>)
  BY <1>2, <1>3, TwoLists
<1>5. QED
  BY <1>1, <1>4 DEF MergeLabels

\* The spec of a runner is the same.
LEMMA ReversedSpec ==
  ASSUME NEW c, Usable(c), NEW b, b = Reversed(c), NEW n \in Named(c), NEW k
  PROVE  Lowered(b, n, k) = Lowered(c, n, k)
<1>1. PICK p : p = Place(ExpandCounts(c), n)
  OBVIOUS
<1>2. PICK r \in Runners(c), y \in {ExpandCounts(c)[p]} :
        /\ InstanceOf(y, r) /\ y = ExpandCounts(c)[p] /\ Lowerable(c, y, p - 1)
        /\ \A j : Lowered(c, n, j) = LowerToEffective(c, y, p - 1, j)
  BY <1>1, Instance
<1>3. PICK t : t = ReversedRunner(y)
  OBVIOUS
<1>4. Lowered(b, n, k) = LowerToEffective(b, t, p - 1, k)
  <2>1. Place(ExpandCounts(b), n) = p /\ ExpandCounts(b)[p] = t
    BY <1>1, <1>2, <1>3, ReversedNames
  <2>2. QED
    BY <2>1 DEF Lowered
<1>5. IsBlock(y) /\ y.hard = r.hard /\ y.labels = r.labels /\ y.caches = r.caches
  BY <1>2, InstanceFields
<1>6. IsRunner(r) /\ IsDefaults(c.defaults)
  BY RunnerFields DEF Usable, IsConfig
<1>7. r.labels \in Texts /\ r.caches \in Texts /\ r.hard \in HardeningTables
  <2>1. PICK e : e = r.env
    OBVIOUS
  <2>2. QED
    BY <1>6, <2>1 DEF IsRunner
<1>8. c.defaults.labels \in Texts /\ c.defaults.hard \in HardeningTables
  <2>1. PICK e : e = c.defaults.env
    OBVIOUS
  <2>2. QED
    BY <1>6, <2>1 DEF IsDefaults
<1>9. PICK d, e : d = c.defaults /\ e = b.defaults
  OBVIOUS
<1>10. /\ e.auth = d.auth /\ e.version = d.version /\ e.sha = d.sha /\ e.arch = d.arch
       /\ e.memory = d.memory /\ e.env = d.env /\ e.labels = Reverse(d.labels)
       /\ e.hard = ReversedHard(d.hard) /\ b.proxy = c.proxy /\ b.hooks = c.hooks
  <2>1. IsConfig(c)
    BY DEF Usable
  <2>2. /\ b.defaults.auth = c.defaults.auth /\ b.defaults.version = c.defaults.version
        /\ b.defaults.sha = c.defaults.sha /\ b.defaults.arch = c.defaults.arch
        /\ b.defaults.memory = c.defaults.memory /\ b.defaults.env = c.defaults.env
        /\ b.defaults.labels = Reverse(c.defaults.labels)
        /\ b.defaults.hard = ReversedHard(c.defaults.hard)
        /\ b.proxy = c.proxy /\ b.hooks = c.hooks
    BY <2>1, ReversedConfig, ZenonT(60)
  <2>3. QED
    BY <1>9, <2>2, Zenon
<1>11. /\ t.name = y.name /\ t.url = y.url /\ t.auth = y.auth
       /\ t.version = y.version /\ t.sha = y.sha /\ t.tarball = y.tarball /\ t.arch = y.arch
       /\ t.zone = y.zone /\ t.network = y.network /\ t.memory = y.memory
       /\ t.cpus = y.cpus /\ t.mems = y.mems /\ t.proxy = y.proxy /\ t.hooks = y.hooks
       /\ t.env = y.env /\ t.labels = Reverse(y.labels) /\ t.caches = Reverse(y.caches)
       /\ t.hard = ReversedHard(y.hard)
  BY <1>3, <1>5, ReversedBlock
<1>12. PICK s : s = LowerToEffective(c, y, p - 1, k)
  OBVIOUS
<1>13. PICK u : u = LowerToEffective(b, t, p - 1, k)
  OBVIOUS
<1>14. /\ IsSpec(s) /\ s.name = y.name /\ s.url = y.url
       /\ s.arch = Or(Or(y.arch, d.arch), HostArch) /\ s.labels = MergeLabels(y, d)
       /\ s.memory = NonEmpty(Or(y.memory, d.memory)) /\ s.version = Or(y.version, d.version)
       /\ s.sha = NonEmpty(Or(y.sha, d.sha)) /\ s.tarball = NonEmpty(y.tarball)
       /\ s.auth = Or(y.auth, d.auth)
       /\ s.caches = {EffectiveCacheBinding(m, c.pools[m], k) : m \in ToSet(y.caches)}
       /\ s.zone = RunnerZone(y) /\ s.network = NetworkBinding(c, y, p - 1)
       /\ s.hard = MergeHardening(y.hard, d.hard)
       /\ s.cpus = NonEmpty(y.cpus) /\ s.mems = NonEmpty(y.mems)
       /\ s.env = MergeEnvironment(y.env, d.env) /\ s.schema = k
  BY <1>9, <1>12, LoweredFields
<1>15. /\ IsSpec(u) /\ u.name = t.name /\ u.url = t.url
       /\ u.arch = Or(Or(t.arch, e.arch), HostArch) /\ u.labels = MergeLabels(t, e)
       /\ u.memory = NonEmpty(Or(t.memory, e.memory)) /\ u.version = Or(t.version, e.version)
       /\ u.sha = NonEmpty(Or(t.sha, e.sha)) /\ u.tarball = NonEmpty(t.tarball)
       /\ u.auth = Or(t.auth, e.auth)
       /\ u.caches = {EffectiveCacheBinding(m, b.pools[m], k) : m \in ToSet(t.caches)}
       /\ u.zone = RunnerZone(t) /\ u.network = NetworkBinding(b, t, p - 1)
       /\ u.hard = MergeHardening(t.hard, e.hard)
       /\ u.cpus = NonEmpty(t.cpus) /\ u.mems = NonEmpty(t.mems)
       /\ u.env = MergeEnvironment(t.env, e.env) /\ u.schema = k
  BY <1>9, <1>13, LoweredFields
<1>16. u.proxy = s.proxy /\ u.hooks = s.hooks
  <2>1. PICK x, z : x = Or(y.proxy, c.proxy) /\ z = Or(y.hooks, c.hooks)
    OBVIOUS
  <2>2. Or(t.proxy, b.proxy) = x /\ Or(t.hooks, b.hooks) = z
    BY <1>10, <1>11, <2>1
  <2>3. /\ s.proxy = (IF x # None /\ EmptyProxy(x) THEN None ELSE x)
        /\ s.hooks = (IF z # None /\ EmptyHooks(z) THEN None ELSE z)
    BY <1>12, <2>1, LoweredFields
  <2>4. /\ u.proxy = (IF x # None /\ EmptyProxy(x) THEN None ELSE x)
        /\ u.hooks = (IF z # None /\ EmptyHooks(z) THEN None ELSE z)
    BY <1>13, <2>2, LoweredFields
  <2>5. QED
    BY <2>3, <2>4
<1>17. u.labels = s.labels
  BY <1>5, <1>7, <1>8, <1>9, <1>10, <1>11, <1>14, <1>15, ReversedLabels
<1>18. u.hard = s.hard
  BY <1>5, <1>7, <1>8, <1>9, <1>10, <1>11, <1>14, <1>15, SameHardening
<1>19. u.caches = s.caches
  <2>1. PICK S : S = ToSet(y.caches)
    OBVIOUS
  <2>2. ToSet(t.caches) = S
    BY <1>5, <1>7, <1>11, <2>1, ReversedList DEF Texts
  <2>3. S \subseteq DOMAIN c.pools
    BY <1>2, <2>1 DEF Lowerable, CachesUsable
  <2>4. /\ s.caches = {EffectiveCacheBinding(m, c.pools[m], k) : m \in S}
        /\ u.caches = {EffectiveCacheBinding(m, b.pools[m], k) : m \in S}
    BY <1>14, <1>15, <2>1, <2>2, Zenon
  <2>5. \A m \in S : EffectiveCacheBinding(m, b.pools[m], k) = EffectiveCacheBinding(m, c.pools[m], k)
    BY <2>3, ReversedCaches
  <2>6. QED
    BY <2>4, <2>5
<1>20. u.network = s.network
  <2>1. NetworkUsable(c, y, p - 1)
    BY <1>2 DEF Lowerable
  <2>2. QED
    BY <1>11, <1>14, <1>15, <2>1, ReversedBinding
<1>21. u.zone = s.zone
  BY <1>11, <1>14, <1>15 DEF RunnerZone
<1>22. SameSpec(s, u)
  <2>1. /\ u.name = s.name /\ u.url = s.url /\ u.schema = s.schema
    BY <1>11, <1>14, <1>15, Zenon
  <2>2. /\ u.arch = s.arch /\ u.memory = s.memory /\ u.version = s.version
    BY <1>10, <1>11, <1>14, <1>15, Zenon
  <2>3. /\ u.sha = s.sha /\ u.tarball = s.tarball /\ u.auth = s.auth
    BY <1>10, <1>11, <1>14, <1>15, Zenon
  <2>4. /\ u.cpus = s.cpus /\ u.mems = s.mems /\ u.env = s.env
    BY <1>10, <1>11, <1>14, <1>15, Zenon
  <2>5. QED
    BY <2>1, <2>2, <2>3, <2>4, <1>16, <1>17, <1>18, <1>19, <1>20, <1>21, Zenon DEF SameSpec
<1>23. u = s
  BY <1>14, <1>15, <1>22, SpecsEqual
<1>24. QED
  BY <1>2, <1>4, <1>12, <1>13, <1>23

\* No config asks for anything else when its lists are read backwards.
LEMMA EveryOrder ==
  ASSUME NEW i \in Accepted
  PROVE  i \in OrderFree
<1>1. None \in Lookups
  BY DEF Lookups
<1>2. ASSUME NEW k \in ToSet(Schemas)
      PROVE  Desired(Reversed(Configs[i]), None, k) = Wants[<<i, None, k>>]
  <2>1. PICK c, b : c = Configs[i] /\ b = Reversed(c)
    OBVIOUS
  <2>2. Wants[<<i, None, k>>] = [n \in Named(c) |-> Tracked(Lowered(c, n, k), None)] /\ Usable(c)
    BY <1>1, <2>1, Wanting
  <2>3. Desired(b, None, k) = [n \in Named(b) |-> Tracked(Lowered(b, n, k), None)]
    BY DesiredIs
  <2>4. Named(b) = Named(c) /\ \A n \in Named(c) : Lowered(b, n, k) = Lowered(c, n, k)
    BY <2>1, <2>2, ReversedNames, ReversedSpec
  <2>5. Desired(b, None, k) = Wants[<<i, None, k>>]
    BY <2>2, <2>3, <2>4
  <2>6. QED
    BY <2>1, <2>5
<1>3. QED
  BY <1>2 DEF OrderFree

\* What was applied last is a config that the command accepted.
AcceptedLast ==
  applied \in {None} \cup [cfg : Accepted, current : BOOLEAN, clean : BOOLEAN]

\* The order in which an operator writes a list never shows, whatever the configs.
THEOREM OrdersDoNotShow ==
  Spec => []OrderDoesNotMatter
<1>1. Init => AcceptedLast
  BY DEF Init, AcceptedLast
<1>2. AcceptedLast /\ [Next]_vars => AcceptedLast'
  <2> SUFFICES ASSUME AcceptedLast, [Next]_vars PROVE AcceptedLast'
    OBVIOUS
  <2>1. ASSUME NEW i \in Accepted, NEW online \in BOOLEAN, Apply(i, online) PROVE AcceptedLast'
    BY <2>1 DEF Apply, AcceptedLast
  <2>2. ASSUME Soiled PROVE AcceptedLast'
    BY <2>2 DEF Soiled, AcceptedLast
  <2>3. ASSUME NEW n \in DOMAIN runners, OperatorDropIn(n) \/ EditUnit(n) PROVE AcceptedLast'
    BY <2>2, <2>3 DEF OperatorDropIn, EditUnit
  <2>4. ASSUME NewRelease PROVE AcceptedLast'
    BY <2>4 DEF NewRelease, AcceptedLast
  <2>5. ASSUME Upgrade PROVE AcceptedLast'
    BY <2>2, <2>5 DEF Upgrade
  <2>6. ASSUME UNCHANGED vars PROVE AcceptedLast'
    BY <2>6 DEF vars, AcceptedLast
  <2>7. QED
    BY <2>1, <2>3, <2>4, <2>5, <2>6 DEF Next
<1>3. AcceptedLast => OrderDoesNotMatter
  <2> SUFFICES ASSUME AcceptedLast, applied # None PROVE applied.cfg \in OrderFree
    BY DEF OrderDoesNotMatter
  <2>1. applied.cfg \in Accepted
    BY DEF AcceptedLast
  <2>2. QED
    BY <2>1, EveryOrder
<1>4. QED
  BY <1>1, <1>2, <1>3, PTL DEF Spec

-----------------------------------------------------------------------------
(* What the files of a runner tell of its spec *)

\* Texts that are put together can be told apart where the first ones have one length.
LEMMA ConcatTells ==
  ASSUME NEW v, NEW a, NEW b, NEW c, NEW d, Sq(a), Sq(b), Sq(c), Sq(d),
         IsConcat(v, a, b), IsConcat(v, c, d), Len(a) = Len(c)
  PROVE  a = c /\ b = d
<1>1. Len(a) \in Nat /\ Len(b) \in Nat /\ Len(b) = Len(d)
  BY DEF IsConcat
<1>2. ASSUME NEW x, NEW y, Sq(x), Sq(y), Len(x) = Len(y), \A i \in 1..Len(x) : x[i] = y[i]
      PROVE  x = y
  <2> DEFINE X == ToSet(x) \cup ToSet(y)
  <2>1. x \in Seq(X) /\ y \in Seq(X)
    BY <1>2, SeqMonotonic DEF Sq
  <2> HIDE DEF X
  <2>2. QED
    BY <1>2, <2>1, SeqEqual
<1>3. a = c
  BY <1>2 DEF IsConcat
<1>4. b = d
  <2>1. \A i \in 1..Len(b) : b[i] = v[Len(a) + i] /\ d[i] = v[Len(a) + i]
    BY <1>1 DEF IsConcat
  <2>2. QED
    BY <1>1, <1>2, <2>1
<1>5. QED
  BY <1>3, <1>4

\* v ends with the separator and x.
Ends(v, p, sep, x) == v = (p \o <<sep>>) \o x

\* What follows the last separator, and what is before it
LEMMA LastCut ==
  ASSUME NEW p, NEW q, NEW x, NEW y, NEW sep, Sq(p), Sq(q), Sq(x), Sq(y),
         sep \notin ToSet(x), sep \notin ToSet(y),
         NEW v, Ends(v, p, sep, x), Ends(v, q, sep, y)
  PROVE  p = q /\ x = y
<1>1. PICK e : e = <<sep>>
  OBVIOUS
<1>2. Sq(e) /\ Len(e) = 1 /\ e[1] = sep
  BY <1>1, SymbolText
<1>3. v = (p \o e) \o x /\ v = (q \o e) \o y
  BY <1>1 DEF Ends
<1>4. ASSUME NEW a, NEW b, NEW s, NEW t, Sq(a), Sq(b), Sq(s), Sq(t), sep \notin ToSet(s),
             v = (a \o e) \o s, v = (b \o e) \o t
      PROVE  ~(Len(a) < Len(b))
  <2>1. PICK c : c = a \o e
    OBVIOUS
  <2>2. PICK d : d = b \o e
    OBVIOUS
  <2>3. IsConcat(c, a, e) /\ IsConcat(d, b, e)
    BY <1>2, <1>4, <2>1, <2>2, Concat
  <2>4. Sq(c) /\ Sq(d)
    BY <2>3 DEF IsConcat
  <2>5. IsConcat(v, c, s) /\ IsConcat(v, d, t)
    BY <1>4, <2>1, <2>2, <2>4, Concat
  <2>6. /\ Len(a) \in Nat /\ Len(b) \in Nat /\ Len(s) \in Nat /\ Len(t) \in Nat
        /\ Len(c) = Len(a) + 1 /\ Len(d) = Len(b) + 1
        /\ Len(c) + Len(s) = Len(d) + Len(t)
    BY <1>2, <2>3, <2>5 DEF IsConcat
  <2>7. SUFFICES ASSUME Len(a) < Len(b) PROVE FALSE
    OBVIOUS
  <2>8. d[Len(b) + 1] = sep
    BY <1>2, <2>3 DEF IsConcat
  <2>9. v[Len(b) + 1] = sep
    <3>1. Len(b) + 1 \in 1..Len(d)
      BY <2>6
    <3>2. QED
      BY <2>5, <2>8, <3>1 DEF IsConcat
  <2>10. PICK i : i = Len(b) - Len(a)
    OBVIOUS
  <2>11. i \in 1..Len(s) /\ Len(c) + i = Len(b) + 1
    BY <2>6, <2>7, <2>10
  <2>12. s[i] = sep
    BY <2>5, <2>9, <2>11 DEF IsConcat
  <2>13. s[i] \in ToSet(s)
    <3>1. ToSet(s) = {s[j] : j \in 1..Len(s)}
      BY <1>4, ElementsOf DEF Sq
    <3>2. QED
      BY <2>11, <3>1
  <2>14. QED
    BY <1>4, <2>12, <2>13
<1>5. ~(Len(p) < Len(q)) /\ ~(Len(q) < Len(p))
  BY <1>3, <1>4
<1>6. PICK c : c = p \o e
  OBVIOUS
<1>7. PICK d : d = q \o e
  OBVIOUS
<1>8. IsConcat(c, p, e) /\ IsConcat(d, q, e)
  BY <1>2, <1>6, <1>7, Concat
<1>9. Sq(c) /\ Sq(d) /\ Len(c) = Len(d) /\ Len(p) = Len(q)
  BY <1>2, <1>5, <1>8 DEF IsConcat
<1>10. IsConcat(v, c, x) /\ IsConcat(v, d, y)
  BY <1>3, <1>6, <1>7, <1>9, Concat
<1>11. c = d /\ x = y
  BY <1>9, <1>10, ConcatTells
<1>12. p = q
  BY <1>2, <1>8, <1>9, <1>11, ConcatTells
<1>13. QED
  BY <1>11, <1>12

\* The texts that were joined so far: a is one, b is what has been joined after it.
LEMMA JoinedSoFar ==
  ASSUME NEW texts, Sq(texts), texts # <<>>, NEW sep, NEW a, JoinRun(a, texts, sep),
         \A i \in 1..Len(texts) : Sq(texts[i])
  PROVE  \A i \in 1..Len(texts) : Sq(a[i])
<1>1. Len(texts) \in Nat \ {0}
  BY ElementsOf, EmptySeq DEF Sq
<1> DEFINE S == {i \in 1..Len(texts) : Sq(a[i])}
<1>2. 1 \in S
  BY <1>1 DEF JoinRun
<1>3. ASSUME NEW i \in (1 + 1)..Len(texts), i - 1 \in S PROVE i \in S
  <2>1. PICK e : e = <<sep>>
    OBVIOUS
  <2>2. PICK u : u = a[i - 1]
    OBVIOUS
  <2>3. PICK t : t = texts[i]
    OBVIOUS
  <2>4. Sq(u) /\ Sq(t) /\ Sq(e)
    BY <1>1, <1>3, <2>1, <2>2, <2>3, SymbolText
  <2>5. Sq(u \o e)
    BY <2>4, ConcatText
  <2>6. Sq((u \o e) \o t)
    BY <2>4, <2>5, ConcatText
  <2>7. i \in 2..Len(texts) /\ i \in 1..Len(texts)
    BY <1>1
  <2>8. a[i] = (u \o e) \o t
    BY <2>1, <2>2, <2>3, <2>7 DEF JoinRun
  <2>9. QED
    BY <2>6, <2>7, <2>8
<1> HIDE DEF S
<1>4. \A i \in 1..Len(texts) : i \in S
  BY <1>1, <1>2, <1>3, UpTo
<1>5. QED
  BY <1>4 DEF S

\* Two lists that are joined to one text are one list, when nothing in them is the separator.
LEMMA JoinTells ==
  ASSUME NEW x, NEW y, Sq(x), Sq(y), x # <<>>, y # <<>>, NEW sep,
         \A i \in 1..Len(x) : Sq(x[i]) /\ sep \notin ToSet(x[i]),
         \A i \in 1..Len(y) : Sq(y[i]) /\ sep \notin ToSet(y[i]),
         JoinSeq(x, sep) = JoinSeq(y, sep)
  PROVE  x = y
<1>1. PICK m : m = Len(x)
  OBVIOUS
<1>2. PICK n : n = Len(y)
  OBVIOUS
<1>3. m \in Nat \ {0} /\ n \in Nat \ {0}
  BY <1>1, <1>2, ElementsOf, EmptySeq DEF Sq
<1>4. PICK a : JoinRun(a, x, sep)
  BY <1>1, <1>3, JoinRuns
<1>5. PICK b : JoinRun(b, y, sep)
  BY <1>2, <1>3, JoinRuns
<1>6. \A i \in 1..m : Sq(a[i])
  BY <1>1, <1>4, JoinedSoFar
<1>7. \A i \in 1..n : Sq(b[i])
  BY <1>2, <1>5, JoinedSoFar
<1>8. /\ a[m] = b[n] /\ a[1] = x[1] /\ b[1] = y[1]
      /\ \A i \in 2..m : a[i] = (a[i - 1] \o <<sep>>) \o x[i]
      /\ \A i \in 2..n : b[i] = (b[i - 1] \o <<sep>>) \o y[i]
  BY <1>1, <1>2, <1>4, <1>5 DEF JoinRun
<1>9. /\ \A i \in 1..m : Sq(x[i]) /\ sep \notin ToSet(x[i])
      /\ \A i \in 1..n : Sq(y[i]) /\ sep \notin ToSet(y[i])
  BY <1>1, <1>2
<1>10. ASSUME NEW u, NEW t, Sq(u), Sq(t) PROVE sep \in ToSet((u \o <<sep>>) \o t)
  <2>1. PICK e : e = <<sep>>
    OBVIOUS
  <2>2. Sq(e) /\ ToSet(e) = {sep}
    BY <2>1, SymbolText
  <2>3. Sq(u \o e) /\ ToSet(u \o e) = ToSet(u) \cup ToSet(e)
    BY <1>10, <2>2, ConcatText
  <2>4. ToSet((u \o e) \o t) = ToSet(u \o e) \cup ToSet(t)
    BY <1>10, <2>3, ConcatText
  <2>5. QED
    BY <2>1, <2>2, <2>3, <2>4
<1>11. \A i \in 2..m : sep \in ToSet(a[i])
  <2> TAKE i \in 2..m
  <2>1. i - 1 \in 1..m /\ i \in 1..m
    BY <1>3
  <2>2. Sq(a[i - 1]) /\ Sq(x[i])
    BY <1>6, <1>9, <2>1
  <2>3. PICK u : u = a[i - 1]
    OBVIOUS
  <2>4. PICK t : t = x[i]
    OBVIOUS
  <2>5. a[i] = (u \o <<sep>>) \o t
    BY <1>8, <2>3, <2>4
  <2>6. sep \in ToSet((u \o <<sep>>) \o t)
    BY <1>10, <2>2, <2>3, <2>4
  <2>7. QED
    BY <2>5, <2>6
<1>12. \A i \in 2..n : sep \in ToSet(b[i])
  <2> TAKE i \in 2..n
  <2>1. i - 1 \in 1..n /\ i \in 1..n
    BY <1>3
  <2>2. Sq(b[i - 1]) /\ Sq(y[i])
    BY <1>7, <1>9, <2>1
  <2>3. PICK u : u = b[i - 1]
    OBVIOUS
  <2>4. PICK t : t = y[i]
    OBVIOUS
  <2>5. b[i] = (u \o <<sep>>) \o t
    BY <1>8, <2>3, <2>4
  <2>6. sep \in ToSet((u \o <<sep>>) \o t)
    BY <1>10, <2>2, <2>3, <2>4
  <2>7. QED
    BY <2>5, <2>6
<1>13. sep \notin ToSet(a[1]) /\ sep \notin ToSet(b[1])
  <2>1. 1 \in 1..m /\ 1 \in 1..n
    BY <1>3
  <2>2. QED
    BY <1>8, <1>9, <2>1
\* From the last text to the first one
<1> DEFINE S == {j \in 0..(m - 1) : j < n /\ a[m - j] = b[n - j]}
<1>14. 0 \in S
  BY <1>3, <1>8
<1>15. ASSUME NEW j \in 0..(m - 2), j \in S
       PROVE  j + 1 \in S /\ x[m - j] = y[n - j]
  <2>1. PICK h : h = m - j
    OBVIOUS
  <2>2. PICK k : k = n - j
    OBVIOUS
  <2>3. h \in 2..m /\ k \in 1..n /\ a[h] = b[k]
    BY <1>3, <1>15, <2>1, <2>2
  <2>4. k \in 2..n
    <3> SUFFICES ASSUME k = 1 PROVE FALSE
      BY <1>3, <2>3
    <3>1. QED
      BY <1>11, <1>13, <2>3
  <2>5. h - 1 \in 1..m /\ k - 1 \in 1..n /\ h \in 1..m /\ k \in 1..n
    BY <1>3, <2>3, <2>4
  <2>7. Sq(a[h - 1]) /\ Sq(b[k - 1])
    BY <1>6, <1>7, <2>5
  <2>8. Sq(x[h]) /\ Sq(y[k]) /\ sep \notin ToSet(x[h]) /\ sep \notin ToSet(y[k])
    BY <1>9, <2>5
  <2>9. a[h - 1] = b[k - 1] /\ x[h] = y[k]
    <3>1. PICK v : v = a[h]
      OBVIOUS
    <3>2. PICK p : p = a[h - 1]
      OBVIOUS
    <3>3. PICK q : q = b[k - 1]
      OBVIOUS
    <3>4. Ends(v, p, sep, x[h]) /\ Ends(v, q, sep, y[k])
      BY <1>8, <2>3, <2>4, <3>1, <3>2, <3>3 DEF Ends
    <3>5. QED
      BY <2>7, <2>8, <3>2, <3>3, <3>4, LastCut
  <2>10. m - (j + 1) = h - 1 /\ n - (j + 1) = k - 1 /\ j + 1 \in 0..(m - 1) /\ j + 1 < n
    BY <1>3, <2>1, <2>2, <2>3, <2>4
  <2>11. QED
    BY <2>1, <2>2, <2>9, <2>10
<1> HIDE DEF S
<1>16. \A j \in 0..(m - 1) : j \in S
  <2>1. 0 \in Nat /\ m - 1 \in Nat
    BY <1>3
  <2>2. \A j \in (0 + 1)..(m - 1) : j - 1 \in S => j \in S
    <3> SUFFICES ASSUME NEW j \in (0 + 1)..(m - 1), j - 1 \in S PROVE j \in S
      OBVIOUS
    <3>1. j - 1 \in 0..(m - 2) /\ (j - 1) + 1 = j
      BY <1>3
    <3>2. QED
      BY <1>15, <3>1
  <2>3. QED
    BY <1>14, <2>1, <2>2, UpTo
<1>17. n = m
  <2>1. m - 1 \in S
    BY <1>3, <1>16
  <2>2. m - 1 < n /\ a[m - (m - 1)] = b[n - (m - 1)]
    BY <2>1 DEF S
  <2>3. PICK k : k = n - (m - 1)
    OBVIOUS
  <2>4. k \in 1..n /\ m - (m - 1) = 1
    BY <1>3, <2>2, <2>3
  <2>5. a[1] = b[k]
    BY <2>2, <2>3, <2>4
  <2>6. k = 1
    <3> SUFFICES ASSUME k \in 2..n PROVE FALSE
      BY <1>3, <2>4
    <3>1. QED
      BY <1>12, <1>13, <2>5
  <2>7. QED
    BY <1>3, <2>3, <2>6
<1>18. \A i \in 1..m : x[i] = y[i]
  <2> TAKE i \in 1..m
  <2>1. CASE i = 1
    <3>1. m - 1 \in S
      BY <1>3, <1>16
    <3>2. a[m - (m - 1)] = b[n - (m - 1)]
      BY <3>1 DEF S
    <3>3. m - (m - 1) = 1 /\ n - (m - 1) = 1
      BY <1>3, <1>17
    <3>4. QED
      BY <1>8, <2>1, <3>2, <3>3
  <2>2. CASE i # 1
    <3>1. PICK j : j = m - i
      OBVIOUS
    <3>2. j \in 0..(m - 2) /\ j \in 0..(m - 1) /\ m - j = i /\ n - j = i
      BY <1>3, <1>17, <2>2, <3>1
    <3>3. QED
      BY <1>15, <1>16, <3>2
  <2>3. QED
    BY <2>1, <2>2
<1>19. QED
  <2> DEFINE X == ToSet(x) \cup ToSet(y)
  <2>1. x \in Seq(X) /\ y \in Seq(X)
    BY SeqMonotonic DEF Sq
  <2> HIDE DEF X
  <2>2. QED
    BY <1>1, <1>2, <1>17, <1>18, <2>1, SeqEqual

\* A set is joined to a text that tells it, when nothing in it is the separator.
LEMMA JoinedSet ==
  ASSUME NEW S, IsFiniteSet(S), S # {}, NEW sep, \A t \in S : Sq(t) /\ sep \notin ToSet(t)
  PROVE  Split(Join(S, sep), sep) = S
<1>1. PICK texts : texts = SetToSeq(S)
  OBVIOUS
<1>2. texts \in Seq(S) /\ ToSet(texts) = S
  BY <1>1, SetAsSeq
<1>3. Sq(texts) /\ ToSet(texts) = {texts[i] : i \in 1..Len(texts)}
  BY <1>2, ElementsOf DEF Sq
<1>4. \A i \in 1..Len(texts) : Sq(texts[i]) /\ sep \notin ToSet(texts[i])
  BY <1>2, <1>3
<1>5. texts # <<>>
  <2> SUFFICES ASSUME texts = <<>> PROVE FALSE
    OBVIOUS
  <2>1. ToSet(texts) = {}
    BY EmptySeq, ElementsOf, <1>3 DEF Sq
  <2>2. QED
    BY <1>2, <2>1
<1>6. QED
  BY <1>1, <1>2, <1>3, <1>4, <1>5, SplitJoined DEF Join

\* A set of texts that can be joined with blanks
Wordy(S) == IsFiniteSet(S) /\ \A t \in S : Sq(t) /\ " " \notin ToSet(t)

\* The tables in a spec
HardeningShape(h) ==
  /\ h.flags \in [HardeningFlags -> Toggles]
  /\ Wordy(h.families) /\ Wordy(h.syscalls) /\ Wordy(h.caps)
  /\ h.ro \in Option(Texts) /\ h.binds \in Texts

NetworkShape(n) ==
  /\ n = [name |-> n.name, spec |-> n.spec, subnet |-> n.subnet]
  /\ n.spec = [mode |-> n.spec.mode, egress |-> n.spec.egress, allow |-> n.spec.allow,
               deny |-> n.spec.deny, families |-> n.spec.families, dns |-> n.spec.dns,
               ipv6 |-> n.spec.ipv6]
  /\ n.spec.mode \in {"netns", "open"} /\ n.spec.ipv6 \in BOOLEAN
  /\ IsFiniteSet(n.spec.allow) /\ IsFiniteSet(n.spec.deny) /\ Wordy(n.spec.families)
  /\ n.spec.dns \in Option(Seq(Addresses)) /\ n.spec.dns # <<>>

Shaped(s) ==
  /\ s.sha # <<>> /\ s.tarball # <<>> /\ HardeningShape(s.hard)
  /\ s.network # None => NetworkShape(s.network)
  /\ s.proxy # None => s.proxy \in ProxyTables

\* The types of the tables of [defaults] and of a runner
LEMMA SourceTables ==
  ASSUME NEW c, Usable(c), NEW r \in Runners(c), NEW y, InstanceOf(y, r)
  PROVE  /\ y.hard = r.hard /\ y.hard \in HardeningTables /\ c.defaults.hard \in HardeningTables
         /\ y.proxy \in Option(ProxyTables) /\ c.proxy \in Option(ProxyTables)
<1>1. IsRunner(r) /\ IsDefaults(c.defaults) /\ c.proxy \in Option(ProxyTables)
  BY DEF Usable, IsConfig
<1>2. PICK e : e = r.env
  OBVIOUS
<1>3. PICK d : d = c.defaults
  OBVIOUS
<1>4. PICK f : f = d.env
  OBVIOUS
<1>5. r \in [name : Text, count : Option(Nat), url : Text, auth : Option(Text), labels : Texts,
            version : Option(Text), sha : Option(Text), tarball : Option(Text),
            arch : Option(Archs), caches : Texts, zone : Text, network : Option(Text),
            memory : Option(Text), cpus : Option(Text), mems : Option(Text),
            proxy : Option(ProxyTables), hooks : Option(HooksTables), hard : HardeningTables,
            env : {e}]
  BY <1>1, <1>2 DEF IsRunner
<1>6. d \in [auth : Option(Text), labels : Texts, version : Option(Text), sha : Option(Text),
            arch : Option(Archs), network : Option(Text), memory : Option(Text),
            hard : HardeningTables, env : {f}]
  BY <1>1, <1>3, <1>4 DEF IsDefaults
<1>7. r.hard \in HardeningTables /\ r.proxy \in Option(ProxyTables)
  BY <1>5
<1>8. d.hard \in HardeningTables
  BY <1>6
<1>9. y.hard = r.hard /\ y.proxy = r.proxy
  BY InstanceFields
<1>10. QED
  BY <1>1, <1>3, <1>7, <1>8, <1>9

\* What a text holds, by its first symbol and the others
LEMMA HeadAndTail ==
  ASSUME NEW X, NEW t \in Seq(X), Len(t) >= 2
  PROVE  ToSet(t) \subseteq {t[1]} \cup ToSet(Tail(t))
<1>1. Len(t) \in Nat /\ ToSet(t) = {t[i] : i \in 1..Len(t)}
  BY ElementsOf
<1>2. t # <<>>
  BY EmptySeq
<1>3. /\ Tail(t) \in Seq(X) /\ Len(Tail(t)) = Len(t) - 1
      /\ \A i \in 1..Len(Tail(t)) : Tail(t)[i] = t[i + 1]
  BY <1>2, HeadTailProperties
<1>4. ToSet(Tail(t)) = {Tail(t)[i] : i \in 1..Len(Tail(t))}
  BY <1>3, ElementsOf
<1>5. ASSUME NEW i \in 1..Len(t), i # 1 PROVE t[i] \in ToSet(Tail(t))
  <2>1. i - 1 \in 1..Len(Tail(t)) /\ (i - 1) + 1 = i
    BY <1>1, <1>3, <1>5
  <2>2. QED
    BY <1>3, <1>4, <2>1
<1>6. QED
  BY <1>1, <1>5

\* The words that the checks of the lists let through hold no blank.
LEMMA WordsOnly ==
  ASSUME NEW l \in Texts, NEW i \in 1..Len(l)
  PROVE  /\ l[i] \in Text /\ Sq(l[i])
         /\ ValidateRestrictAddressFamilies(l) => " " \notin ToSet(l[i])
         /\ ValidateExtraSyscalls(l) => " " \notin ToSet(l[i])
         /\ ValidateExtraCapabilities(l) => " " \notin ToSet(l[i])
<1>1. DOMAIN l = 1..Len(l) /\ l[i] \in Text
  BY ElementsOf DEF Texts
<1>2. PICK t : t = l[i]
  OBVIOUS
<1>3. t \in Text /\ Sq(t) /\ ToSet(t) = {t[j] : j \in 1..Len(t)} /\ Len(t) \in Nat
      /\ DOMAIN t = 1..Len(t)
  BY <1>1, <1>2, SqOf, ElementsOf DEF Text
<1>4. " " \notin Upper \cup Digit \cup Words /\ " " \notin Lower \cup Digit \cup {"_"}
  BY DEF Upper, Lower, Digit, Words
<1>5. ASSUME ValidateRestrictAddressFamilies(l) PROVE " " \notin ToSet(t)
  <2>1. Len(t) \in 2..AF_FAMILY_MAX_LEN /\ t[1] = "AF_" /\ Over(Tail(t), Upper \cup Digit \cup Words)
    BY <1>1, <1>2, <1>5 DEF ValidateRestrictAddressFamilies
  <2>2. ToSet(t) \subseteq {t[1]} \cup ToSet(Tail(t))
    BY <1>3, <2>1, HeadAndTail DEF Text
  <2>3. QED
    BY <1>4, <2>1, <2>2 DEF Over, Symbols
<1>6. ASSUME ValidateExtraSyscalls(l) PROVE " " \notin ToSet(t)
  <2>1. Over(t, Lower \cup Digit \cup {"_"})
    BY <1>1, <1>2, <1>6 DEF ValidateExtraSyscalls
  <2>2. QED
    BY <1>4, <2>1 DEF Over, Symbols
<1>7. ASSUME ValidateExtraCapabilities(l) PROVE " " \notin ToSet(t)
  <2>1. PICK u : u = [k \in DOMAIN t |-> IF t[k] = "cap_" THEN "CAP_" ELSE t[k]]
    OBVIOUS
  <2>2. Len(u) >= 2 /\ u[1] = "CAP_" /\ Over(Tail(u), Upper \cup Digit \cup Words)
    BY <1>1, <1>2, <1>7, <2>1 DEF ValidateExtraCapabilities
  <2>3. PICK A : A = ToSet(t) \cup {"CAP_"}
    OBVIOUS
  <2>4. u \in Seq(A) /\ Len(u) = Len(t)
    <3>1. \A k \in 1..Len(t) : t[k] \in ToSet(t)
      BY <1>3
    <3>2. u \in [1..Len(t) -> A]
      BY <1>3, <2>1, <2>3, <3>1
    <3>3. QED
      BY <1>3, <3>2, SeqDef, LenProperties
  <2>5. ToSet(u) \subseteq {u[1]} \cup ToSet(Tail(u))
    BY <2>2, <2>4, HeadAndTail
  <2>6. " " \notin ToSet(u)
    BY <1>4, <2>2, <2>5 DEF Over, Symbols
  <2>7. ToSet(u) = {u[k] : k \in 1..Len(t)}
    BY <2>4, ElementsOf
  <2>8. \A k \in 1..Len(t) : t[k] = " " => u[k] = " "
    BY <1>3, <2>1
  <2>9. QED
    BY <1>3, <2>6, <2>7, <2>8
<1>8. QED
  BY <1>2, <1>3, <1>5, <1>6, <1>7

\* A list of such words, as a set
LEMMA WordyList ==
  ASSUME NEW l \in Texts,
         \/ ValidateRestrictAddressFamilies(l) \/ ValidateExtraSyscalls(l)
         \/ ValidateExtraCapabilities(l)
  PROVE  Wordy(ToSet(l))
<1>1. IsFiniteSet(ToSet(l)) /\ ToSet(l) = {l[i] : i \in 1..Len(l)}
  BY FiniteElements, ElementsOf DEF Texts
<1>2. \A i \in 1..Len(l) : Sq(l[i]) /\ " " \notin ToSet(l[i])
  BY WordsOnly
<1>3. QED
  BY <1>1, <1>2 DEF Wordy

\* The hardening of a runner
LEMMA LoweredHardening ==
  ASSUME NEW c, Usable(c), NEW r \in Runners(c), NEW y, InstanceOf(y, r),
         NEW h, h = MergeHardening(y.hard, c.defaults.hard)
  PROVE  HardeningShape(h)
<1>1. PICK a : a = c.defaults.hard
  OBVIOUS
<1>2. PICK b : b = y.hard
  OBVIOUS
<1>3. a \in HardeningTables /\ b \in HardeningTables /\ b = r.hard
  BY <1>1, <1>2, SourceTables
<1>4. \A x \in {a, b} :
        /\ ValidateExtraCapabilities(x.caps) /\ ValidateRestrictAddressFamilies(x.families)
        /\ ValidateExtraSyscalls(x.syscalls)
  <2>1. ValidateSecurityOverrides(c)
    BY DEF Usable, LoadConfig
  <2>2. a \in {c.defaults.hard} \cup {z.hard : z \in Runners(c)}
        /\ b \in {c.defaults.hard} \cup {z.hard : z \in Runners(c)}
    BY <1>1, <1>3
  <2>3. QED
    BY <2>1, <2>2 DEF ValidateSecurityOverrides
<1>5. \A x \in {a, b} :
        /\ x.flags \in [HardeningFlags -> Toggles] /\ x.families \in Texts
        /\ x.syscalls \in Texts /\ x.caps \in Texts /\ x.ro \in Option(Texts) /\ x.binds \in Texts
  BY <1>3 DEF HardeningTables
<1>6. /\ h.flags = [f \in DOMAIN b.flags |-> Or(b.flags[f], a.flags[f])]
      /\ h.families = PickVec(b.families, a.families)
      /\ h.syscalls = PickVec(b.syscalls, a.syscalls)
      /\ h.caps = ToSet(a.caps \o b.caps)
      /\ h.ro = Or(b.ro, a.ro) /\ h.binds = a.binds \o b.binds
  BY <1>1, <1>2 DEF MergeHardening
<1>7. h.flags \in [HardeningFlags -> Toggles]
  BY <1>5, <1>6 DEF Or
<1>8. Wordy(h.families) /\ Wordy(h.syscalls)
  BY <1>4, <1>5, <1>6, WordyList DEF PickVec
<1>9. Wordy(h.caps)
  <2>1. Wordy(ToSet(a.caps)) /\ Wordy(ToSet(b.caps))
    BY <1>4, <1>5, WordyList
  <2>2. h.caps = ToSet(a.caps) \cup ToSet(b.caps)
    <3>1. a.caps \in Seq(Text) /\ b.caps \in Seq(Text)
      BY <1>5 DEF Texts
    <3>2. QED
      BY <1>6, <3>1, ConcatElements
  <2>3. IsFiniteSet(h.caps)
    BY <2>1, <2>2, FS_Union DEF Wordy
  <2>4. QED
    BY <2>1, <2>2, <2>3 DEF Wordy
<1>10. h.ro \in Option(Texts)
  BY <1>5, <1>6 DEF Or
<1>11. h.binds \in Texts
  BY <1>5, <1>6, ConcatProperties DEF Texts
<1>12. QED
  BY <1>7, <1>8, <1>9, <1>10, <1>11 DEF HardeningShape

\* The network of a runner
LEMMA LoweredNetwork ==
  ASSUME NEW c, Usable(c), NEW y, NEW slot, Lowerable(c, y, slot),
         NEW n, n = NetworkBinding(c, y, slot), n # None
  PROVE  NetworkShape(n)
<1>1. PICK key : key = NetworkOf(c, y)
  OBVIOUS
<1>2. PICK w : w = c.networks[key]
  OBVIOUS
<1>3. key # None /\ n = EffectiveNetworkBinding(key, w, slot)
  BY <1>1, <1>2 DEF NetworkBinding
<1>4. IsNetwork(w) /\ ValidateNetworkSpec(w)
  <2>1. key \in DOMAIN c.networks
    BY <1>1, <1>3 DEF Lowerable, NetworkUsable
  <2>2. IsNetwork(w)
    BY <1>2, <2>1 DEF Usable, IsConfig
  <2>3. ValidateNetworkSpec(w)
    BY <1>2, <2>1 DEF Usable, LoadConfig, ValidateNetworks
  <2>4. QED
    BY <2>2, <2>3
<1>5. PICK g : g = w.egress
  OBVIOUS
<1>6. w \in [mode : {"netns", "open"}, egress : {g}, allow : Seq(Cidrs), deny : Seq(Cidrs),
            families : Texts, dns : Option(Seq(Addresses)), ipv6 : BOOLEAN]
  BY <1>4, <1>5 DEF IsNetwork
<1>7. PICK f : f = ToSet(w.families)
  OBVIOUS
<1>8. PICK a : a = {Trunc(x) : x \in ToSet(w.allow)}
  OBVIOUS
<1>9. PICK d : d = {Trunc(x) : x \in ToSet(w.deny)}
  OBVIOUS
<1>10. PICK q : q = [w EXCEPT !.families = f, !.allow = a, !.deny = d]
  OBVIOUS
<1>11. n.spec = q
  <2>1. CanonicalizeNetworkSpec(w) = q
    BY <1>6, <1>7, <1>8, <1>9, <1>10 DEF CanonicalizeNetworkSpec
  <2>2. QED
    BY <1>3, <2>1 DEF EffectiveNetworkBinding
<1>12. n = [name |-> n.name, spec |-> n.spec, subnet |-> n.subnet]
  BY <1>3 DEF EffectiveNetworkBinding
<1>13. /\ q = [mode |-> q.mode, egress |-> q.egress, allow |-> q.allow, deny |-> q.deny,
               families |-> q.families, dns |-> q.dns, ipv6 |-> q.ipv6]
       /\ q.mode = w.mode /\ q.ipv6 = w.ipv6 /\ q.dns = w.dns
       /\ q.allow = a /\ q.deny = d /\ q.families = f
  BY <1>6, <1>10
<1>14. w.mode \in {"netns", "open"} /\ w.ipv6 \in BOOLEAN /\ w.dns \in Option(Seq(Addresses))
       /\ w.families \in Texts /\ w.allow \in Seq(Cidrs) /\ w.deny \in Seq(Cidrs)
  BY <1>6
<1>15. w.dns # <<>> /\ ValidateRestrictAddressFamilies(w.families)
  BY <1>4 DEF ValidateNetworkSpec, ValidateDnsMode
<1>16. Wordy(f)
  BY <1>7, <1>14, <1>15, WordyList
<1>17. ASSUME NEW l \in Seq(Cidrs), NEW S, S = {Trunc(x) : x \in ToSet(l)}
       PROVE  IsFiniteSet(S)
  <2>1. IsFiniteSet(ToSet(l))
    BY FiniteElements
  <2>2. PICK t : t = [x \in ToSet(l) |-> Trunc(x)]
    OBVIOUS
  <2>3. t \in [ToSet(l) -> S] /\ \A z \in S : \E x \in ToSet(l) : t[x] = z
    BY <1>17, <2>2
  <2>4. t \in Surjection(ToSet(l), S)
    BY <2>3 DEF Surjection
  <2>5. QED
    BY <2>1, <2>4, FS_Surjection
<1>18. IsFiniteSet(a) /\ IsFiniteSet(d)
  BY <1>8, <1>9, <1>14, <1>17
<1>19. QED
  BY <1>11, <1>12, <1>13, <1>14, <1>15, <1>16, <1>18 DEF NetworkShape

\* What lowering makes of a usable config has its tables in shape.
LEMMA LoweredShaped ==
  ASSUME NEW c, Usable(c), NEW n \in Named(c), NEW k, NEW s, s = Lowered(c, n, k)
  PROVE  Shaped(s)
<1>1. PICK p : p = Place(ExpandCounts(c), n)
  OBVIOUS
<1>2. PICK r \in Runners(c), y \in {ExpandCounts(c)[p]} :
        /\ InstanceOf(y, r) /\ y.name = n /\ Lowerable(c, y, p - 1)
        /\ Lowered(c, n, k) = LowerToEffective(c, y, p - 1, k)
  BY <1>1, Instance
<1>3. /\ s.sha = NonEmpty(Or(y.sha, c.defaults.sha)) /\ s.tarball = NonEmpty(y.tarball)
      /\ s.network = NetworkBinding(c, y, p - 1)
      /\ s.proxy = (IF Or(y.proxy, c.proxy) # None /\ EmptyProxy(Or(y.proxy, c.proxy))
                    THEN None ELSE Or(y.proxy, c.proxy))
      /\ s.hard = MergeHardening(y.hard, c.defaults.hard)
  BY <1>2, LoweredFields
<1>4. None # <<>>
  BY InputsConstants, EmptySeq DEF Text
<1>5. s.sha # <<>> /\ s.tarball # <<>>
  BY <1>3, <1>4 DEF NonEmpty
<1>6. HardeningShape(s.hard)
  BY <1>2, <1>3, LoweredHardening
<1>7. s.network # None => NetworkShape(s.network)
  BY <1>2, <1>3, LoweredNetwork
<1>8. s.proxy # None => s.proxy \in ProxyTables
  <2>1. y.proxy \in Option(ProxyTables) /\ c.proxy \in Option(ProxyTables)
    BY <1>2, SourceTables
  <2>2. s.proxy \in {None, y.proxy, c.proxy}
    BY <1>3 DEF Or
  <2>3. QED
    BY <2>1, <2>2 DEF Option
<1>9. QED
  BY <1>5, <1>6, <1>7, <1>8 DEF Shaped

\* A file has a line of a key if and only if cond, and that says val.
Told(body, key, cond, val) ==
  /\ \A l \in ToSet(body) : l.key = key => cond /\ l.val = val
  /\ cond => \E l \in ToSet(body) : l.key = key /\ l.val = val

\* No line, or one
LEMMA LineOrNone ==
  ASSUME NEW l, NEW p, p \in {<<>>, <<l>>}
  PROVE  Sq(p) /\ (p = <<l>> => ToSet(p) = {l}) /\ (p = <<>> => ToSet(p) = {})
<1>1. Sq(<<>>) /\ ToSet(<<>>) = {}
  BY EmptySeq DEF Sq, ToSet
<1>2. QED
  BY <1>1, SymbolText

\* Three sequences are put together in any order of the joints.
LEMMA Regroup ==
  ASSUME NEW a, NEW b, NEW c, Sq(a), Sq(b), Sq(c)
  PROVE  (a \o b) \o c = a \o (b \o c)
<1> DEFINE X == ToSet(a) \cup ToSet(b) \cup ToSet(c)
<1>1. a \in Seq(X) /\ b \in Seq(X) /\ c \in Seq(X)
  BY SeqMonotonic DEF Sq
<1> HIDE DEF X
<1>2. QED
  BY <1>1, ConcatAssociative

\* The two parts of the hardening drop-in
HardeningHead(h) ==
  << Section("[Service]") >> \o FlagLines(h.flags)
  \o When(h.families # {}, << Line("RestrictAddressFamilies", Join(h.families, " ")) >>)
  \o When(h.syscalls # {}, << Line("SystemCallFilter", Join(h.syscalls, " ")) >>)
  \o When(h.caps # {}, << Line("CapabilityBoundingSet", Join(h.caps, " ")) >>)
HardeningTail(h) ==
  When(h.ro \notin {None, <<>>}, << Line("BindReadOnlyPaths", JoinSeq(h.ro, " ")) >>)
  \o When(h.binds # <<>>, << Line("BindReadOnlyPaths", JoinSeq(h.binds, " ")) >>)
  \o When(h.etc = "broad", << Line("BindReadOnlyPaths", <<"/", "etc">>) >>)

\* What a flag is written as
YesNo(on) == IF on THEN <<"yes">> ELSE <<"no">>

\* A line for each flag that is set
LEMMA FlagsShown ==
  ASSUME NEW flags, flags \in [HardeningFlags -> Toggles]
  PROVE  /\ Sq(FlagLines(flags))
         /\ \A l \in ToSet(FlagLines(flags)) :
              l.key \in HardeningFlags /\ flags[l.key] # None /\ l.val = YesNo(flags[l.key])
         /\ \A f \in HardeningFlags :
              flags[f] # None => \E l \in ToSet(FlagLines(flags)) : l.key = f
<1>1. PICK F : F = {f \in DOMAIN flags : flags[f] # None}
  OBVIOUS
<1>2. F \subseteq HardeningFlags
  BY <1>1
<1>3. IsFiniteSet(F)
  <2>1. IsFiniteSet(HardeningFlags)
    <3>1. PICK q : q = <<"kvm", "restrict_realtime", "protect_control_groups",
                         "restrict_suid_sgid", "private_devices", "private_ipc">>
      OBVIOUS
    <3>2. q \in Seq(HardeningFlags) /\ ToSet(q) = HardeningFlags
      BY <3>1 DEF HardeningFlags, ToSet
    <3>3. QED
      BY <3>2, FiniteElements
  <2>2. QED
    BY <1>2, <2>1, FS_Subset
<1>4. PICK set : set = SetToSeq(F)
  OBVIOUS
<1>5. set \in Seq(F) /\ ToSet(set) = F
  BY <1>3, <1>4, SetAsSeq
<1>6. /\ Len(set) \in Nat /\ DOMAIN set = 1..Len(set) /\ F = {set[i] : i \in 1..Len(set)}
      /\ \A i \in 1..Len(set) : set[i] \in F
  BY <1>5, ElementsOf
<1>7. PICK g : g = [f \in F |-> Line(f, YesNo(flags[f]))]
  OBVIOUS
<1>8. \A f \in F : g[f].key = f /\ g[f].val = YesNo(flags[f])
  <2> TAKE f \in F
  <2>1. g[f] = Line(f, YesNo(flags[f]))
    BY <1>7
  <2>2. QED
    BY <2>1, LineFields
<1>9. PICK b : b = FlagLines(flags)
  OBVIOUS
<1>10. b = [i \in 1..Len(set) |-> g[set[i]]]
  <2>1. b = [i \in DOMAIN set |-> Line(set[i], IF flags[set[i]] THEN <<"yes">> ELSE <<"no">>)]
    BY <1>1, <1>4, <1>9, Zenon DEF FlagLines
  <2>2. b = [i \in 1..Len(set) |-> Line(set[i], YesNo(flags[set[i]]))]
    BY <1>6, <2>1, Zenon DEF YesNo
  <2>3. \A i \in 1..Len(set) : Line(set[i], YesNo(flags[set[i]])) = g[set[i]]
    BY <1>6, <1>7
  <2>4. QED
    BY <2>2, <2>3, Zenon
<1>11. PICK T : T = {g[f] : f \in F}
  OBVIOUS
<1>12. \A i \in 1..Len(set) : g[set[i]] \in T
  BY <1>6, <1>11
<1>13. b \in Seq(T)
  BY <1>6, <1>10, <1>12, IsASeq
<1>14. ToSet(b) = {b[i] : i \in 1..Len(set)}
  <2>1. Len(b) = Len(set)
    BY <1>6, <1>10, <1>13, LenProperties
  <2>2. QED
    BY <1>13, <2>1, ElementsOf
<1>15. ASSUME NEW l \in ToSet(b)
       PROVE  l.key \in HardeningFlags /\ flags[l.key] # None /\ l.val = YesNo(flags[l.key])
  <2>1. PICK i \in 1..Len(set) : l = g[set[i]]
    BY <1>10, <1>14
  <2>2. PICK f \in F : l = g[f]
    BY <1>6, <2>1
  <2>3. l.key = f /\ l.val = YesNo(flags[f])
    BY <1>8, <2>2
  <2>4. f \in HardeningFlags /\ flags[f] # None
    BY <1>1, <1>2
  <2>5. QED
    BY <2>3, <2>4
<1>16. ASSUME NEW f \in HardeningFlags, flags[f] # None
       PROVE  \E l \in ToSet(b) : l.key = f
  <2>1. f \in F
    BY <1>1, <1>16
  <2>2. PICK i \in 1..Len(set) : set[i] = f
    BY <1>6, <2>1
  <2>3. b[i] \in ToSet(b) /\ b[i] = g[f]
    BY <1>10, <1>14, <2>2
  <2>4. QED
    BY <1>8, <2>1, <2>3
<1>17. QED
  BY <1>9, <1>13, <1>15, <1>16, SqOf

\* What the hardening drop-in says
LEMMA HardeningLines ==
  ASSUME NEW h, HardeningShape(h), NEW body, body = RenderHardening(h)
  PROVE  /\ Told(body, "RestrictAddressFamilies", h.families # {}, Join(h.families, " "))
         /\ Told(body, "SystemCallFilter", h.syscalls # {}, Join(h.syscalls, " "))
         /\ Told(body, "CapabilityBoundingSet", h.caps # {}, Join(h.caps, " "))
         /\ \A f \in HardeningFlags : Told(body, f, h.flags[f] # None, YesNo(h.flags[f]))
         /\ IsConcat(body, HardeningHead(h), HardeningTail(h))
         /\ Sq(HardeningHead(h)) /\ Sq(HardeningTail(h))
<1>1. PICK s0 : s0 = Section("[Service]")
  OBVIOUS
<1>2. PICK l1 : l1 = Line("RestrictAddressFamilies", Join(h.families, " "))
  OBVIOUS
<1>3. PICK l2 : l2 = Line("SystemCallFilter", Join(h.syscalls, " "))
  OBVIOUS
<1>4. PICK l3 : l3 = Line("CapabilityBoundingSet", Join(h.caps, " "))
  OBVIOUS
<1>5. PICK l4 : l4 = Line("BindReadOnlyPaths", JoinSeq(h.ro, " "))
  OBVIOUS
<1>6. PICK l5 : l5 = Line("BindReadOnlyPaths", JoinSeq(h.binds, " "))
  OBVIOUS
<1>7. PICK l6 : l6 = Line("BindReadOnlyPaths", <<"/", "etc">>)
  OBVIOUS
<1>8. /\ s0.key = "[Service]"
      /\ l1.key = "RestrictAddressFamilies" /\ l1.val = Join(h.families, " ")
      /\ l2.key = "SystemCallFilter" /\ l2.val = Join(h.syscalls, " ")
      /\ l3.key = "CapabilityBoundingSet" /\ l3.val = Join(h.caps, " ")
      /\ l4.key = "BindReadOnlyPaths" /\ l5.key = "BindReadOnlyPaths"
      /\ l6.key = "BindReadOnlyPaths"
  BY <1>1, <1>2, <1>3, <1>4, <1>5, <1>6, <1>7, LineFields DEF Section
<1>9. PICK a0 : a0 = << s0 >>
  OBVIOUS
<1>10. PICK fl : fl = FlagLines(h.flags)
  OBVIOUS
<1>11. PICK a1 : a1 = When(h.families # {}, << l1 >>)
  OBVIOUS
<1>12. PICK a2 : a2 = When(h.syscalls # {}, << l2 >>)
  OBVIOUS
<1>13. PICK a3 : a3 = When(h.caps # {}, << l3 >>)
  OBVIOUS
<1>14. PICK a4 : a4 = When(h.ro \notin {None, <<>>}, << l4 >>)
  OBVIOUS
<1>15. PICK a5 : a5 = When(h.binds # <<>>, << l5 >>)
  OBVIOUS
<1>16. PICK a6 : a6 = When(h.etc = "broad", << l6 >>)
  OBVIOUS
<1>17. /\ Sq(a0) /\ ToSet(a0) = {s0}
       /\ Sq(a1) /\ ToSet(a1) = IF h.families # {} THEN {l1} ELSE {}
       /\ Sq(a2) /\ ToSet(a2) = IF h.syscalls # {} THEN {l2} ELSE {}
       /\ Sq(a3) /\ ToSet(a3) = IF h.caps # {} THEN {l3} ELSE {}
       /\ Sq(a4) /\ ToSet(a4) \subseteq {l4}
       /\ Sq(a5) /\ ToSet(a5) \subseteq {l5}
       /\ Sq(a6) /\ ToSet(a6) \subseteq {l6}
  <2>1. Sq(a0) /\ ToSet(a0) = {s0}
    BY <1>9, SymbolText
  <2>2. Sq(a1) /\ ToSet(a1) = IF h.families # {} THEN {l1} ELSE {}
    BY <1>11, LineOrNone DEF When
  <2>3. Sq(a2) /\ ToSet(a2) = IF h.syscalls # {} THEN {l2} ELSE {}
    BY <1>12, LineOrNone DEF When
  <2>4. Sq(a3) /\ ToSet(a3) = IF h.caps # {} THEN {l3} ELSE {}
    BY <1>13, LineOrNone DEF When
  <2>5. Sq(a4) /\ ToSet(a4) \subseteq {l4}
    BY <1>14, LineOrNone DEF When
  <2>6. Sq(a5) /\ ToSet(a5) \subseteq {l5}
    BY <1>15, LineOrNone DEF When
  <2>7. Sq(a6) /\ ToSet(a6) \subseteq {l6}
    BY <1>16, LineOrNone DEF When
  <2>8. QED
    BY <2>1, <2>2, <2>3, <2>4, <2>5, <2>6, <2>7
<1>18. h.flags \in [HardeningFlags -> Toggles]
  BY DEF HardeningShape
<1>19. /\ Sq(fl)
       /\ \A l \in ToSet(fl) :
            l.key \in HardeningFlags /\ h.flags[l.key] # None /\ l.val = YesNo(h.flags[l.key])
       /\ \A f \in HardeningFlags : h.flags[f] # None => \E l \in ToSet(fl) : l.key = f
  BY <1>10, <1>18, FlagsShown
<1>20. PICK b1 : b1 = a0 \o fl
  OBVIOUS
<1>21. PICK b2 : b2 = b1 \o a1
  OBVIOUS
<1>22. PICK b3 : b3 = b2 \o a2
  OBVIOUS
<1>23. PICK b4 : b4 = b3 \o a3
  OBVIOUS
<1>24. PICK t1 : t1 = a4 \o a5
  OBVIOUS
<1>25. PICK t2 : t2 = t1 \o a6
  OBVIOUS
<1>26. /\ Sq(b1) /\ ToSet(b1) = ToSet(a0) \cup ToSet(fl)
       /\ Sq(b2) /\ ToSet(b2) = ToSet(b1) \cup ToSet(a1)
       /\ Sq(b3) /\ ToSet(b3) = ToSet(b2) \cup ToSet(a2)
       /\ Sq(b4) /\ ToSet(b4) = ToSet(b3) \cup ToSet(a3)
       /\ Sq(t1) /\ ToSet(t1) = ToSet(a4) \cup ToSet(a5)
       /\ Sq(t2) /\ ToSet(t2) = ToSet(t1) \cup ToSet(a6)
  <2>1. Sq(b1) /\ ToSet(b1) = ToSet(a0) \cup ToSet(fl)
    BY <1>17, <1>19, <1>20, ConcatText
  <2>2. Sq(b2) /\ ToSet(b2) = ToSet(b1) \cup ToSet(a1)
    BY <1>17, <2>1, <1>21, ConcatText
  <2>3. Sq(b3) /\ ToSet(b3) = ToSet(b2) \cup ToSet(a2)
    BY <1>17, <2>2, <1>22, ConcatText
  <2>4. Sq(b4) /\ ToSet(b4) = ToSet(b3) \cup ToSet(a3)
    BY <1>17, <2>3, <1>23, ConcatText
  <2>5. Sq(t1) /\ ToSet(t1) = ToSet(a4) \cup ToSet(a5)
    BY <1>17, <1>24, ConcatText
  <2>6. Sq(t2) /\ ToSet(t2) = ToSet(t1) \cup ToSet(a6)
    BY <1>17, <2>5, <1>25, ConcatText
  <2>7. QED
    BY <2>1, <2>2, <2>3, <2>4, <2>5, <2>6
<1>27. HardeningHead(h) = b4 /\ HardeningTail(h) = t2
  BY <1>1, <1>2, <1>3, <1>4, <1>5, <1>6, <1>7, <1>9, <1>10, <1>11, <1>12, <1>13, <1>14, <1>15,
     <1>16, <1>20, <1>21, <1>22, <1>23, <1>24, <1>25, Zenon DEF HardeningHead, HardeningTail
<1>28. body = ((b4 \o a4) \o a5) \o a6
  BY <1>1, <1>2, <1>3, <1>4, <1>5, <1>6, <1>7, <1>9, <1>10, <1>11, <1>12, <1>13, <1>14, <1>15,
     <1>16, <1>20, <1>21, <1>22, <1>23, Zenon DEF RenderHardening
<1>29. body = b4 \o t2
  <2>1. (b4 \o a4) \o a5 = b4 \o t1
    <3>1. Sq(b4) /\ Sq(a4) /\ Sq(a5)
      BY <1>17, <1>26
    <3>2. (b4 \o a4) \o a5 = b4 \o (a4 \o a5)
      BY <3>1, Regroup
    <3>3. QED
      BY <1>24, <3>2
  <2>2. (b4 \o t1) \o a6 = b4 \o t2
    <3>1. Sq(b4) /\ Sq(t1) /\ Sq(a6)
      BY <1>17, <1>26
    <3>2. (b4 \o t1) \o a6 = b4 \o (t1 \o a6)
      BY <3>1, Regroup
    <3>3. QED
      BY <1>25, <3>2
  <2>3. QED
    BY <1>28, <2>1, <2>2
<1>30. IsConcat(body, b4, t2)
  BY <1>26, <1>29, Concat
<1>31. ToSet(body) = {s0} \cup ToSet(fl) \cup ToSet(a1) \cup ToSet(a2) \cup ToSet(a3)
                     \cup ToSet(a4) \cup ToSet(a5) \cup ToSet(a6)
  <2>1. ToSet(body) = ToSet(b4) \cup ToSet(t2)
    BY <1>30 DEF IsConcat
  <2>2. QED
    BY <1>17, <1>26, <2>1
<1>32. \A f \in HardeningFlags :
         f \notin {"[Service]", "RestrictAddressFamilies", "SystemCallFilter",
                   "CapabilityBoundingSet", "BindReadOnlyPaths"}
  BY DEF HardeningFlags
<1>33. \A l \in ToSet(a4) \cup ToSet(a5) \cup ToSet(a6) : l.key = "BindReadOnlyPaths"
  BY <1>8, <1>17
<1>34. /\ Told(body, "RestrictAddressFamilies", h.families # {}, Join(h.families, " "))
       /\ Told(body, "SystemCallFilter", h.syscalls # {}, Join(h.syscalls, " "))
       /\ Told(body, "CapabilityBoundingSet", h.caps # {}, Join(h.caps, " "))
  <2>1. Told(body, "RestrictAddressFamilies", h.families # {}, Join(h.families, " "))
    BY <1>8, <1>17, <1>19, <1>31, <1>32, <1>33 DEF Told
  <2>2. Told(body, "SystemCallFilter", h.syscalls # {}, Join(h.syscalls, " "))
    BY <1>8, <1>17, <1>19, <1>31, <1>32, <1>33 DEF Told
  <2>3. Told(body, "CapabilityBoundingSet", h.caps # {}, Join(h.caps, " "))
    BY <1>8, <1>17, <1>19, <1>31, <1>32, <1>33 DEF Told
  <2>4. QED
    BY <2>1, <2>2, <2>3
<1>35. \A f \in HardeningFlags : Told(body, f, h.flags[f] # None, YesNo(h.flags[f]))
  <2> TAKE f \in HardeningFlags
  <2>1. ASSUME NEW l \in ToSet(body), l.key = f PROVE h.flags[f] # None /\ l.val = YesNo(h.flags[f])
    <3>1. l \in ToSet(fl)
      BY <1>8, <1>17, <1>31, <1>32, <1>33, <2>1
    <3>2. QED
      BY <1>19, <2>1, <3>1
  <2>2. ASSUME h.flags[f] # None
        PROVE  \E l \in ToSet(body) : l.key = f /\ l.val = YesNo(h.flags[f])
    <3>1. PICK l \in ToSet(fl) : l.key = f
      BY <1>19, <2>2
    <3>2. l.val = YesNo(h.flags[f])
      BY <1>19, <3>1
    <3>3. QED
      BY <1>31, <3>1, <3>2
  <2>3. QED
    BY <2>1, <2>2 DEF Told
<1>36. QED
  BY <1>26, <1>27, <1>30, <1>34, <1>35

\* Two sets of words that one file tells
LEMMA ToldSet ==
  ASSUME NEW S, NEW T, Wordy(S), Wordy(T), NEW body, NEW key,
         Told(body, key, S # {}, Join(S, " ")), Told(body, key, T # {}, Join(T, " "))
  PROVE  S = T
<1>1. (S # {} <=> T # {}) /\ (S # {} => Join(S, " ") = Join(T, " "))
  BY DEF Told
<1>2. CASE S = {}
  BY <1>1, <1>2
<1>3. CASE S # {}
  <2>1. Split(Join(S, " "), " ") = S /\ Split(Join(T, " "), " ") = T
    BY <1>1, <1>3, JoinedSet DEF Wordy
  <2>2. QED
    BY <1>1, <1>3, <2>1
<1>4. QED
  BY <1>2, <1>3

\* A list of paths that is joined with blanks
PathList(p) == Sq(p) /\ p # <<>> /\ \A i \in 1..Len(p) : Sq(p[i]) /\ " " \notin ToSet(p[i])

\* Each line has one of the lists.
Lists(lines, lists) ==
  /\ Sq(lines) /\ Sq(lists) /\ Len(lines) = Len(lists)
  /\ \A i \in 1..Len(lists) : PathList(lists[i]) /\ lines[i].val = JoinSeq(lists[i], " ")

\* A line for a list, and none for none
LEMMA ListsOne ==
  ASSUME NEW p, NEW l
  PROVE  /\ Lists(<<>>, <<>>)
         /\ PathList(p) /\ l.val = JoinSeq(p, " ") => Lists(<<l>>, <<p>>)
<1>1. Lists(<<>>, <<>>)
  BY EmptySeq DEF Lists, Sq, ToSet
<1>2. ASSUME PathList(p), l.val = JoinSeq(p, " ") PROVE Lists(<<l>>, <<p>>)
  <2>1. PICK x : x = <<l>>
    OBVIOUS
  <2>2. PICK y : y = <<p>>
    OBVIOUS
  <2>3. Sq(x) /\ Sq(y) /\ Len(x) = 1 /\ Len(y) = 1 /\ x[1] = l /\ y[1] = p
    BY <2>1, <2>2, SymbolText
  <2>4. Lists(x, y)
    <3>1. \A i \in 1..Len(y) : i = 1
      BY <2>3
    <3>2. \A i \in 1..Len(y) : PathList(y[i]) /\ x[i].val = JoinSeq(y[i], " ")
      BY <1>2, <2>3, <3>1
    <3>3. QED
      BY <2>3, <3>2 DEF Lists
  <2>5. QED
    BY <2>1, <2>2, <2>4
<1>3. QED
  BY <1>1, <1>2

\* The lines of some lists and those of others
LEMMA ListsConcat ==
  ASSUME NEW x, NEW y, NEW u, NEW w, Lists(x, y), Lists(u, w)
  PROVE  Lists(x \o u, y \o w)
<1>1. PICK a : a = x \o u
  OBVIOUS
<1>2. PICK b : b = y \o w
  OBVIOUS
<1>3. IsConcat(a, x, u) /\ IsConcat(b, y, w)
  BY <1>1, <1>2, Concat DEF Lists
<1>4. /\ Len(x) \in Nat /\ Len(u) \in Nat /\ Len(y) = Len(x) /\ Len(w) = Len(u)
      /\ Len(a) = Len(x) + Len(u) /\ Len(b) = Len(a) /\ Sq(a) /\ Sq(b)
  BY <1>3 DEF IsConcat, Lists
<1>5. ASSUME NEW i \in 1..Len(b) PROVE PathList(b[i]) /\ a[i].val = JoinSeq(b[i], " ")
  <2>1. CASE i <= Len(x)
    <3>1. i \in 1..Len(x)
      BY <1>4, <2>1
    <3>2. a[i] = x[i] /\ b[i] = y[i] /\ PathList(y[i]) /\ x[i].val = JoinSeq(y[i], " ")
      BY <1>3, <1>4, <3>1 DEF IsConcat, Lists
    <3>3. QED
      BY <3>2
  <2>2. CASE ~(i <= Len(x))
    <3>1. PICK j : j = i - Len(x)
      OBVIOUS
    <3>2. j \in 1..Len(u) /\ i = Len(x) + j
      BY <1>4, <2>2, <3>1
    <3>3. a[i] = u[j] /\ b[i] = w[j] /\ PathList(w[j]) /\ u[j].val = JoinSeq(w[j], " ")
      BY <1>3, <1>4, <3>2 DEF IsConcat, Lists
    <3>4. QED
      BY <3>3
  <2>3. QED
    BY <2>1, <2>2
<1>6. Lists(a, b)
  BY <1>4, <1>5 DEF Lists
<1>7. QED
  BY <1>1, <1>2, <1>6

\* The lines tell the lists.
LEMMA ListsTell ==
  ASSUME NEW x, NEW y, NEW z, Lists(x, y), Lists(x, z)
  PROVE  y = z
<1>1. Len(y) = Len(z) /\ Sq(y) /\ Sq(z)
  BY DEF Lists
<1>2. ASSUME NEW i \in 1..Len(y) PROVE y[i] = z[i]
  <2>1. PICK p : p = y[i]
    OBVIOUS
  <2>2. PICK q : q = z[i]
    OBVIOUS
  <2>3. PathList(p) /\ PathList(q) /\ JoinSeq(p, " ") = JoinSeq(q, " ")
    BY <1>1, <2>1, <2>2 DEF Lists
  <2>4. p = q
    BY <2>3, JoinTells DEF PathList
  <2>5. QED
    BY <2>1, <2>2, <2>4
<1>3. QED
  <2> DEFINE X == ToSet(y) \cup ToSet(z)
  <2>1. y \in Seq(X) /\ z \in Seq(X)
    BY <1>1, SeqMonotonic DEF Sq
  <2> HIDE DEF X
  <2>2. QED
    BY <1>1, <1>2, <2>1, SeqEqual

\* The paths that the renderer lets through can be joined with blanks.
LEMMA PathsListed ==
  ASSUME NEW p \in Texts, p # <<>>, \A t \in ToSet(p) : CheckNoRootBind(t)
  PROVE  PathList(p)
<1>1. Sq(p) /\ ToSet(p) = {p[i] : i \in 1..Len(p)} /\ ToSet(p) \subseteq Text
  BY SqOf, ElementsOf DEF Texts
<1>2. ASSUME NEW t \in ToSet(p) PROVE Sq(t) /\ " " \notin ToSet(t)
  <2>1. t \in Text /\ Symbols(t) \cap (White \cup {":"}) = {}
    BY <1>1 DEF CheckNoRootBind
  <2>2. Sq(t)
    BY <2>1, SqOf DEF Text
  <2>3. QED
    BY <2>1, <2>2 DEF Symbols, White
<1>3. QED
  BY <1>1, <1>2 DEF PathList

\* The end of the hardening drop-in has the lists of paths that are read-only.
LEMMA HardeningPaths ==
  ASSUME NEW h, HardeningShape(h), ValidateHardeningEntries(h)
  PROVE  Lists(HardeningTail(h), ReadOnlyPaths(h))
<1>1. h.ro \in Option(Texts) /\ h.binds \in Texts
  BY DEF HardeningShape
<1>2. PICK etc : etc = <<"/", "etc">>
  OBVIOUS
<1>3. PICK l4 : l4 = Line("BindReadOnlyPaths", JoinSeq(h.ro, " "))
  OBVIOUS
<1>4. PICK l5 : l5 = Line("BindReadOnlyPaths", JoinSeq(h.binds, " "))
  OBVIOUS
<1>5. PICK l6 : l6 = Line("BindReadOnlyPaths", etc)
  OBVIOUS
<1>6. l4.val = JoinSeq(h.ro, " ") /\ l5.val = JoinSeq(h.binds, " ") /\ l6.val = etc
  BY <1>3, <1>4, <1>5, LineFields
<1>7. PICK a4 : a4 = When(h.ro \notin {None, <<>>}, << l4 >>)
  OBVIOUS
<1>8. PICK a5 : a5 = When(h.binds # <<>>, << l5 >>)
  OBVIOUS
<1>9. PICK a6 : a6 = When(h.etc = "broad", << l6 >>)
  OBVIOUS
<1>10. PICK b4 : b4 = When(h.ro \notin {None, <<>>}, << h.ro >>)
  OBVIOUS
<1>11. PICK b5 : b5 = When(h.binds # <<>>, << h.binds >>)
  OBVIOUS
<1>12. PICK e : e = <<etc>>
  OBVIOUS
<1>13. PICK b6 : b6 = When(h.etc = "broad", << e >>)
  OBVIOUS
<1>14. Lists(a4, b4)
  <2>1. ASSUME h.ro \notin {None, <<>>} PROVE Lists(<<l4>>, <<h.ro>>)
    <3>1. h.ro \in Texts /\ h.ro # <<>>
      BY <1>1, <2>1 DEF Option
    <3>2. \A t \in ToSet(h.ro) : CheckNoRootBind(t)
      BY <2>1 DEF ValidateHardeningEntries
    <3>3. PathList(h.ro)
      BY <3>1, <3>2, PathsListed
    <3>4. QED
      BY <1>6, <3>3, ListsOne
  <2>2. QED
    BY <1>7, <1>10, <2>1, ListsOne DEF When
<1>15. Lists(a5, b5)
  <2>1. ASSUME h.binds # <<>> PROVE Lists(<<l5>>, <<h.binds>>)
    <3>1. \A t \in ToSet(h.binds) : CheckNoRootBind(t)
      BY DEF ValidateHardeningEntries
    <3>2. PathList(h.binds)
      BY <1>1, <2>1, <3>1, PathsListed
    <3>3. QED
      BY <1>6, <3>2, ListsOne
  <2>2. QED
    BY <1>8, <1>11, <2>1, ListsOne DEF When
<1>16. Lists(a6, b6)
  <2>1. Sq(etc) /\ " " \notin ToSet(etc)
    <3>1. Sq(etc) /\ ToSet(etc) = {"/", "etc"}
      BY <1>2, PairElements
    <3>2. " " \notin {"/", "etc"}
      OBVIOUS
    <3>3. QED
      BY <3>1, <3>2
  <2>2. Sq(e) /\ Len(e) = 1 /\ e[1] = etc /\ e # <<>>
    BY <1>12, SymbolText, EmptySeq
  <2>3. PathList(e)
    <3>1. \A i \in 1..Len(e) : e[i] = etc
      BY <2>2
    <3>2. QED
      BY <2>1, <2>2, <3>1 DEF PathList
  <2>4. JoinSeq(e, " ") = etc
    <3>0. Len(e) \in Nat \ {0}
      BY <2>2
    <3>1. PICK a : JoinRun(a, e, " ")
      BY <2>2, <3>0, JoinRuns
    <3>2. QED
      BY <2>2, <3>1 DEF JoinRun
  <2>5. Lists(<<l6>>, <<e>>)
    BY <1>6, <2>3, <2>4, ListsOne
  <2>6. QED
    BY <1>9, <1>13, <2>5, ListsOne DEF When
<1>17. PICK x : x = a4 \o a5
  OBVIOUS
<1>18. PICK y : y = b4 \o b5
  OBVIOUS
<1>19. Lists(x, y)
  BY <1>14, <1>15, <1>17, <1>18, ListsConcat
<1>20. Lists(x \o a6, y \o b6)
  BY <1>16, <1>19, ListsConcat
<1>21. HardeningTail(h) = x \o a6
  BY <1>2, <1>3, <1>4, <1>5, <1>7, <1>8, <1>9, <1>17, Zenon DEF HardeningTail
<1>22. ReadOnlyPaths(h) = y \o b6
  BY <1>2, <1>10, <1>11, <1>12, <1>13, <1>18, Zenon DEF ReadOnlyPaths
<1>23. QED
  BY <1>20, <1>21, <1>22

\* The hardening drop-in, or that there is none, tells what the plan compares.
LEMMA HardeningTold ==
  ASSUME NEW g, NEW h, HardeningShape(g), HardeningShape(h),
         ValidateHardeningEntries(g), ValidateHardeningEntries(h),
         HardeningNeedsDropIn(g) <=> HardeningNeedsDropIn(h),
         HardeningNeedsDropIn(g) => RenderHardening(g) = RenderHardening(h)
  PROVE  /\ g.flags = h.flags /\ g.families = h.families /\ g.syscalls = h.syscalls
         /\ g.caps = h.caps /\ ReadOnlyPaths(g) = ReadOnlyPaths(h)
<1>1. g.flags \in [HardeningFlags -> Toggles] /\ h.flags \in [HardeningFlags -> Toggles]
  BY DEF HardeningShape
<1>2. CASE HardeningNeedsDropIn(g)
  <2>1. PICK body : body = RenderHardening(g) /\ body = RenderHardening(h)
    BY <1>2
  <2>2. /\ Told(body, "RestrictAddressFamilies", g.families # {}, Join(g.families, " "))
        /\ Told(body, "SystemCallFilter", g.syscalls # {}, Join(g.syscalls, " "))
        /\ Told(body, "CapabilityBoundingSet", g.caps # {}, Join(g.caps, " "))
        /\ \A f \in HardeningFlags : Told(body, f, g.flags[f] # None, YesNo(g.flags[f]))
        /\ IsConcat(body, HardeningHead(g), HardeningTail(g))
        /\ Sq(HardeningHead(g)) /\ Sq(HardeningTail(g))
    BY <2>1, HardeningLines
  <2>3. /\ Told(body, "RestrictAddressFamilies", h.families # {}, Join(h.families, " "))
        /\ Told(body, "SystemCallFilter", h.syscalls # {}, Join(h.syscalls, " "))
        /\ Told(body, "CapabilityBoundingSet", h.caps # {}, Join(h.caps, " "))
        /\ \A f \in HardeningFlags : Told(body, f, h.flags[f] # None, YesNo(h.flags[f]))
        /\ IsConcat(body, HardeningHead(h), HardeningTail(h))
        /\ Sq(HardeningHead(h)) /\ Sq(HardeningTail(h))
    BY <2>1, HardeningLines
  <2>4. g.families = h.families /\ g.syscalls = h.syscalls /\ g.caps = h.caps
    BY <2>2, <2>3, ToldSet DEF HardeningShape
  <2>5. ASSUME NEW f \in HardeningFlags PROVE g.flags[f] = h.flags[f]
    <3>1. PICK x : x = g.flags[f]
      OBVIOUS
    <3>2. PICK y : y = h.flags[f]
      OBVIOUS
    <3>3. x \in {None, TRUE, FALSE} /\ y \in {None, TRUE, FALSE}
      BY <1>1, <3>1, <3>2 DEF Toggles, Option
    <3>4. Told(body, f, x # None, YesNo(x)) /\ Told(body, f, y # None, YesNo(y))
      BY <2>2, <2>3, <3>1, <3>2
    <3>5. (x # None <=> y # None) /\ (x # None => YesNo(x) = YesNo(y))
      BY <3>4 DEF Told
    <3>6. YesNo(TRUE) # YesNo(FALSE)
      <4>1. <<"yes">> # <<"no">>
        OBVIOUS
      <4>2. QED
        BY <4>1 DEF YesNo
    <3>7. x = y
      BY <3>3, <3>5, <3>6, Zenon
    <3>8. QED
      BY <3>1, <3>2, <3>7
  <2>6. g.flags = h.flags
    BY <1>1, <2>5
  <2>7. HardeningHead(g) = HardeningHead(h)
    BY <2>4, <2>6, Zenon DEF HardeningHead
  <2>8. HardeningTail(g) = HardeningTail(h)
    BY <2>2, <2>3, <2>7, ConcatTells
  <2>9. ReadOnlyPaths(g) = ReadOnlyPaths(h)
    BY <2>8, HardeningPaths, ListsTell
  <2>10. QED
    BY <2>4, <2>6, <2>9
<1>3. CASE ~HardeningNeedsDropIn(g)
  <2>1. ASSUME NEW x, x \in {g, h}
        PROVE  /\ \A f \in HardeningFlags : x.flags[f] = None
               /\ x.families = {} /\ x.syscalls = {} /\ x.caps = {}
               /\ ReadOnlyPaths(x) = (<<>> \o <<>>) \o <<>>
    <3>1. ~HardeningNeedsDropIn(x) /\ x.flags \in [HardeningFlags -> Toggles]
      BY <1>1, <1>3, <2>1
    <3>2. /\ \A f \in HardeningFlags : x.flags[f] = None
          /\ x.families = {} /\ x.syscalls = {} /\ x.caps = {}
          /\ x.binds = <<>> /\ x.ro = None /\ x.etc # "broad"
      BY <3>1 DEF HardeningNeedsDropIn
    <3>3. ReadOnlyPaths(x) = (<<>> \o <<>>) \o <<>>
      BY <3>2, Zenon DEF ReadOnlyPaths, When
    <3>4. QED
      BY <3>2, <3>3
  <2>2. g.flags = h.flags
    BY <1>1, <2>1
  <2>3. QED
    BY <2>1, <2>2
<1>4. QED
  BY <1>2, <1>3

\* Three elements written out
LEMMA TripleElements ==
  ASSUME NEW a, NEW b, NEW c
  PROVE  Sq(<<a, b, c>>) /\ ToSet(<<a, b, c>>) = {a, b, c}
  BY DEF ToSet, Sq

\* A line for each address
Addressing(key, S) == [i \in 1..Cardinality(S) |-> Digest(key, SetToSeq(S)[i])]

\* What the lines for some addresses say
LEMMA AddressLines ==
  ASSUME NEW S, IsFiniteSet(S), NEW key,
         NEW y, y = Addressing(key, S)
  PROVE  /\ Sq(y) /\ \A l \in ToSet(y) : l.key = key /\ l.ref \in S
         /\ \A x \in S : \E l \in ToSet(y) : l.ref = x
<1>1. PICK m : m = Cardinality(S)
  OBVIOUS
<1>2. PICK q : q = SetToSeq(S)
  OBVIOUS
<1>3. m \in Nat /\ q \in Seq(S) /\ Len(q) = m /\ ToSet(q) = S
  BY <1>1, <1>2, SetAsSeq
<1>4. S = {q[i] : i \in 1..m} /\ \A i \in 1..m : q[i] \in S
  BY <1>3, ElementsOf
<1>5. PICK g : g = [x \in S |-> Digest(key, x)]
  OBVIOUS
<1>6. PICK T : T = {g[x] : x \in S}
  OBVIOUS
<1>7. \A i \in 1..m : g[q[i]] \in T /\ g[q[i]] = Digest(key, q[i])
  BY <1>4, <1>5, <1>6
<1>8. y \in Seq(T) /\ \A i \in 1..m : y[i] = Digest(key, q[i])
  <2>1. y = [i \in 1..m |-> Digest(key, q[i])]
    BY <1>1, <1>2, Zenon DEF Addressing
  <2>2. y = [i \in 1..m |-> g[q[i]]]
    BY <1>7, <2>1, Zenon
  <2>3. y \in [1..m -> T]
    BY <1>7, <2>2
  <2>4. y \in Seq(T)
    BY <1>3, <2>3, SeqDef
  <2>5. QED
    BY <1>7, <2>2, <2>4
<1>9. Len(y) = m /\ ToSet(y) = {y[i] : i \in 1..m}
  <2>1. DOMAIN y = 1..m
    BY <1>1, <1>2 DEF Addressing
  <2>2. Len(y) = m
    BY <1>3, <1>8, <2>1, LenProperties
  <2>3. ToSet(y) = {y[i] : i \in 1..Len(y)}
    BY <1>8, ElementsOf
  <2>4. QED
    BY <2>2, <2>3
<1>10. \A x : Digest(key, x).key = key /\ Digest(key, x).ref = x
  BY LineFields
<1>11. ASSUME NEW l \in ToSet(y) PROVE l.key = key /\ l.ref \in S
  <2>1. PICK i \in 1..m : l = Digest(key, q[i])
    BY <1>8, <1>9
  <2>2. QED
    BY <1>4, <1>10, <2>1
<1>12. ASSUME NEW x \in S PROVE \E l \in ToSet(y) : l.ref = x
  <2>1. PICK i \in 1..m : q[i] = x
    BY <1>4
  <2>2. y[i] = Digest(key, x) /\ y[i] \in ToSet(y)
    BY <1>8, <1>9, <2>1
  <2>3. QED
    BY <1>10, <2>2
<1>13. QED
  BY <1>8, <1>11, <1>12, SqOf

\* The lines of a file with a key have these addresses.
Addressed(body, key, S) ==
  /\ \A l \in ToSet(body) : l.key = key => l.ref \in S
  /\ \A x \in S : \E l \in ToSet(body) : l.key = key /\ l.ref = x

\* What the network drop-in says
LEMMA NetworkLines ==
  ASSUME NEW s, NetworkShape(s.network), NEW n, n = s.network.spec,
         NEW body, body = RenderNetwork(s)
  PROVE  /\ Addressed(body, "IPAddressAllow", n.allow) /\ Addressed(body, "IPAddressDeny", n.deny)
         /\ Told(body, "RestrictAddressFamilies", n.families # {}, Join(n.families, " "))
<1>1. IsFiniteSet(n.allow) /\ IsFiniteSet(n.deny)
  BY DEF NetworkShape
<1>2. PICK u : u = Section("[Unit]")
  OBVIOUS
<1>3. PICK l1 : l1 = Line("BindsTo", s.name)
  OBVIOUS
<1>4. PICK l2 : l2 = Line("NetworkNamespacePath", s.name)
  OBVIOUS
<1>5. PICK s0 : s0 = Section("[Service]")
  OBVIOUS
<1>6. PICK l3 : l3 = Line("RestrictAddressFamilies", Join(n.families, " "))
  OBVIOUS
<1>7. /\ u.key = "[Unit]" /\ l1.key = "BindsTo" /\ l2.key = "NetworkNamespacePath"
      /\ s0.key = "[Service]"
      /\ l3.key = "RestrictAddressFamilies" /\ l3.val = Join(n.families, " ")
  BY <1>2, <1>3, <1>4, <1>5, <1>6, LineFields DEF Section
<1>8. PICK t : t = <<u, l1, l2>>
  OBVIOUS
<1>9. PICK a0 : a0 = When(n.mode = "netns", t)
  OBVIOUS
<1>10. PICK a1 : a1 = << s0 >>
  OBVIOUS
<1>11. PICK S : S = n.allow
  OBVIOUS
<1>12. PICK T : T = n.deny
  OBVIOUS
<1>13. PICK a2 : a2 = Addressing("IPAddressAllow", S)
  OBVIOUS
<1>14. PICK a3 : a3 = Addressing("IPAddressDeny", T)
  OBVIOUS
<1>15. PICK a4 : a4 = When(n.families # {}, << l3 >>)
  OBVIOUS
<1>16. Sq(a0) /\ \A l \in ToSet(a0) : l.key \in {"[Unit]", "BindsTo", "NetworkNamespacePath"}
  <2>1. Sq(t) /\ ToSet(t) = {u, l1, l2}
    BY <1>8, TripleElements
  <2>2. Sq(<<>>) /\ ToSet(<<>>) = {}
    BY EmptySeq DEF Sq, ToSet
  <2>3. a0 = t \/ a0 = <<>>
    BY <1>9 DEF When
  <2>4. QED
    BY <1>7, <2>1, <2>2, <2>3
<1>17. Sq(a1) /\ ToSet(a1) = {s0}
  BY <1>10, SymbolText
<1>18. /\ Sq(a2) /\ \A l \in ToSet(a2) : l.key = "IPAddressAllow" /\ l.ref \in S
       /\ \A x \in S : \E l \in ToSet(a2) : l.ref = x
  BY <1>1, <1>13, <1>11, AddressLines
<1>19. /\ Sq(a3) /\ \A l \in ToSet(a3) : l.key = "IPAddressDeny" /\ l.ref \in T
       /\ \A x \in T : \E l \in ToSet(a3) : l.ref = x
  BY <1>1, <1>14, <1>12, AddressLines
<1>20. Sq(a4) /\ ToSet(a4) = IF n.families # {} THEN {l3} ELSE {}
  BY <1>15, LineOrNone DEF When
<1>21. PICK b1 : b1 = a0 \o a1
  OBVIOUS
<1>22. PICK b2 : b2 = b1 \o a2
  OBVIOUS
<1>23. PICK b3 : b3 = b2 \o a3
  OBVIOUS
<1>24. body = b3 \o a4
  BY <1>2, <1>3, <1>4, <1>5, <1>6, <1>8, <1>9, <1>10, <1>13, <1>14, <1>15, <1>21, <1>22, <1>23,
     <1>11, <1>12, Zenon DEF RenderNetwork, Addressing
<1>25. ToSet(body) = ToSet(a0) \cup ToSet(a1) \cup ToSet(a2) \cup ToSet(a3) \cup ToSet(a4)
  <2>1. Sq(b1) /\ ToSet(b1) = ToSet(a0) \cup ToSet(a1)
    BY <1>16, <1>17, <1>21, ConcatText
  <2>2. Sq(b2) /\ ToSet(b2) = ToSet(b1) \cup ToSet(a2)
    BY <1>18, <1>22, <2>1, ConcatText
  <2>3. Sq(b3) /\ ToSet(b3) = ToSet(b2) \cup ToSet(a3)
    BY <1>19, <1>23, <2>2, ConcatText
  <2>4. ToSet(body) = ToSet(b3) \cup ToSet(a4)
    BY <1>20, <1>24, <2>3, ConcatText
  <2>5. QED
    BY <2>1, <2>2, <2>3, <2>4
<1>26. Addressed(body, "IPAddressAllow", n.allow)
  <2>1. ASSUME NEW l \in ToSet(body), l.key = "IPAddressAllow" PROVE l.ref \in n.allow
    <3>1. l \in ToSet(a0) \cup ToSet(a1) \cup ToSet(a2) \cup ToSet(a3) \cup ToSet(a4)
      BY <1>25
    <3>2. CASE l \in ToSet(a2)
      BY <1>18, <1>11, <3>2
    <3>3. CASE l \in ToSet(a0) \cup ToSet(a1) \cup ToSet(a4)
      <4>1. l.key # "IPAddressAllow"
        BY <1>7, <1>16, <1>17, <1>20, <3>3
      <4>2. QED
        BY <2>1, <4>1
    <3>4. CASE l \in ToSet(a3)
      BY <1>19, <2>1, <3>4
    <3>5. QED
      BY <3>1, <3>2, <3>3, <3>4
  <2>2. ASSUME NEW x \in n.allow PROVE \E l \in ToSet(body) : l.key = "IPAddressAllow" /\ l.ref = x
    BY <1>18, <1>25, <1>11
  <2>3. QED
    BY <2>1, <2>2 DEF Addressed
<1>27. Addressed(body, "IPAddressDeny", n.deny)
  <2>1. ASSUME NEW l \in ToSet(body), l.key = "IPAddressDeny" PROVE l.ref \in n.deny
    <3>1. l \in ToSet(a0) \cup ToSet(a1) \cup ToSet(a2) \cup ToSet(a3) \cup ToSet(a4)
      BY <1>25
    <3>2. CASE l \in ToSet(a3)
      BY <1>19, <1>12, <3>2
    <3>3. CASE l \in ToSet(a0) \cup ToSet(a1) \cup ToSet(a4)
      <4>1. l.key # "IPAddressDeny"
        BY <1>7, <1>16, <1>17, <1>20, <3>3
      <4>2. QED
        BY <2>1, <4>1
    <3>4. CASE l \in ToSet(a2)
      BY <1>18, <2>1, <3>4
    <3>5. QED
      BY <3>1, <3>2, <3>3, <3>4
  <2>2. ASSUME NEW x \in n.deny PROVE \E l \in ToSet(body) : l.key = "IPAddressDeny" /\ l.ref = x
    BY <1>19, <1>25, <1>12
  <2>3. QED
    BY <2>1, <2>2 DEF Addressed
<1>28. Told(body, "RestrictAddressFamilies", n.families # {}, Join(n.families, " "))
  BY <1>7, <1>16, <1>17, <1>18, <1>19, <1>20, <1>25 DEF Told
<1>29. QED
  BY <1>26, <1>27, <1>28

\* Two sets of addresses that one file tells
LEMMA AddressedSet ==
  ASSUME NEW S, NEW T, NEW body, NEW key, Addressed(body, key, S), Addressed(body, key, T)
  PROVE  S = T
<1>1. ASSUME NEW A, NEW B, Addressed(body, key, A), Addressed(body, key, B) PROVE A \subseteq B
  <2>1. ASSUME NEW x \in A PROVE x \in B
    <3>1. PICK l \in ToSet(body) : l.key = key /\ l.ref = x
      BY <1>1 DEF Addressed
    <3>2. QED
      BY <1>1, <3>1 DEF Addressed
  <2>2. QED
    BY <2>1
<1>2. S \subseteq T /\ T \subseteq S
  BY <1>1
<1>3. QED
  BY <1>2

\* The symbols of an address are no commas.
LEMMA AddressesJoined ==
  ASSUME NEW d \in Seq(Addresses)
  PROVE  /\ Sq(d) /\ \A i \in 1..Len(d) : Sq(d[i]) /\ Comma \notin ToSet(d[i])
         /\ JoinSeq(d, Comma) \in Text
<1>1. Sq(d) /\ \A i \in 1..Len(d) : d[i] \in Addresses
  BY SqOf, ElementsOf
<1>2. Comma \notin Lower \cup Upper \cup Digit \cup {".", ":"}
  BY Zenon DEF Comma, Lower, Upper, Digit
<1>3. ASSUME NEW a \in Addresses
      PROVE  Sq(a) /\ Comma \notin ToSet(a) /\ ToSet(a) \subseteq STRING
  <2>1. a \in Text /\ Symbols(a) \subseteq Lower \cup Upper \cup Digit \cup {".", ":"}
    BY DEF Addresses, Over
  <2>2. Sq(a) /\ ToSet(a) \subseteq STRING
    BY <2>1, SqOf, ElementsOf DEF Text
  <2>3. QED
    BY <1>2, <2>1, <2>2 DEF Symbols
<1>4. Sq(JoinSeq(d, Comma)) /\ ToSet(JoinSeq(d, Comma)) \subseteq STRING
  <2>1. Comma \in STRING
    BY UnitsConstants
  <2>2. QED
    BY <1>1, <1>3, <2>1, JoinedText
<1>5. JoinSeq(d, Comma) \in Text
  BY <1>4, SeqMonotonic DEF Sq, Text
<1>6. QED
  BY <1>1, <1>3, <1>5

\* The annotation tells the servers, and it is a text.
LEMMA DnsTold ==
  ASSUME NEW a \in Option(Seq(Addresses)), a # <<>>, NEW b \in Option(Seq(Addresses)), b # <<>>
  PROVE  /\ DnsToAnnotation(a) # None
         /\ DnsToAnnotation(a) = DnsToAnnotation(b) => a = b
<1>1. PICK x : x = <<"static:">>
  OBVIOUS
<1>2. PICK y : y = <<"forward">>
  OBVIOUS
<1>3. /\ Sq(x) /\ Len(x) = 1 /\ x[1] = "static:" /\ x \in Text
      /\ Sq(y) /\ Len(y) = 1 /\ y[1] = "forward" /\ y \in Text
  <2>1. Sq(x) /\ Len(x) = 1 /\ x[1] = "static:" /\ Sq(y) /\ Len(y) = 1 /\ y[1] = "forward"
    BY <1>1, <1>2, SymbolText
  <2>2. x \in Text /\ y \in Text
    BY <1>1, <1>2, UnitsConstants DEF Text
  <2>3. QED
    BY <2>1, <2>2
<1>4. ASSUME NEW d \in Option(Seq(Addresses)), d # <<>>, d # None
      PROVE  /\ DnsToAnnotation(d) = x \o JoinSeq(d, Comma) /\ DnsToAnnotation(d) \in Text
             /\ Sq(JoinSeq(d, Comma)) /\ IsConcat(DnsToAnnotation(d), x, JoinSeq(d, Comma))
             /\ Sq(d) /\ \A i \in 1..Len(d) : Sq(d[i]) /\ Comma \notin ToSet(d[i])
  <2>1. d \in Seq(Addresses)
    BY <1>4 DEF Option
  <2>2. PICK v : v = JoinSeq(d, Comma)
    OBVIOUS
  <2>3. Sq(d) /\ (\A i \in 1..Len(d) : Sq(d[i]) /\ Comma \notin ToSet(d[i])) /\ v \in Text
    BY <2>1, <2>2, AddressesJoined
  <2>4. Sq(v)
    BY <2>3, SqOf DEF Text
  <2>5. DnsToAnnotation(d) = x \o v
    BY <1>1, <1>4, <2>2 DEF DnsToAnnotation
  <2>6. x \o v \in Text
    BY <1>3, <2>3, ConcatProperties DEF Text
  <2>7. IsConcat(x \o v, x, v)
    BY <1>3, <2>4, Concat
  <2>8. QED
    BY <2>2, <2>3, <2>4, <2>5, <2>6, <2>7
<1>5. DnsToAnnotation(None) = y
  BY <1>2 DEF DnsToAnnotation
<1>6. DnsToAnnotation(a) \in Text
  BY <1>3, <1>4, <1>5
<1>7. ASSUME NEW d \in Option(Seq(Addresses)), d # <<>>, d # None PROVE DnsToAnnotation(d) # y
  <2>1. IsConcat(DnsToAnnotation(d), x, JoinSeq(d, Comma))
    BY <1>4, <1>7
  <2>2. DnsToAnnotation(d)[1] = "static:"
    BY <1>3, <2>1 DEF IsConcat
  <2>3. QED
    BY <1>3, <2>2
<1>8. ASSUME DnsToAnnotation(a) = DnsToAnnotation(b) PROVE a = b
  <2>1. CASE a = None \/ b = None
    BY <1>5, <1>7, <1>8, <2>1
  <2>2. CASE a # None /\ b # None
    <3>1. PICK p : p = JoinSeq(a, Comma)
      OBVIOUS
    <3>2. PICK q : q = JoinSeq(b, Comma)
      OBVIOUS
    <3>3. PICK v : v = DnsToAnnotation(a) /\ v = DnsToAnnotation(b)
      BY <1>8
    <3>4. Sq(p) /\ Sq(q) /\ IsConcat(v, x, p) /\ IsConcat(v, x, q)
      BY <1>4, <2>2, <3>1, <3>2, <3>3
    <3>5. p = q
      BY <1>3, <3>4, ConcatTells
    <3>6. /\ Sq(a) /\ \A i \in 1..Len(a) : Sq(a[i]) /\ Comma \notin ToSet(a[i])
          /\ Sq(b) /\ \A i \in 1..Len(b) : Sq(b[i]) /\ Comma \notin ToSet(b[i])
      BY <1>4, <2>2
    <3>7. QED
      BY <3>1, <3>2, <3>5, <3>6, JoinTells
  <2>3. QED
    BY <2>1, <2>2
<1>9. QED
  BY <1>6, <1>8, InputsConstants

\* The network drop-in and the annotations tell what the plan compares.
LEMMA NetworkTold ==
  ASSUME NEW s, NEW t, NetworkShape(s.network), NetworkShape(t.network),
         RenderNetwork(s) = RenderNetwork(t), Mode(s) = Mode(t),
         s.network # None, t.network # None,
         s.network.name = t.network.name, s.network.subnet = t.network.subnet,
         s.network.spec.egress = t.network.spec.egress,
         DnsToAnnotation(s.network.spec.dns) = DnsToAnnotation(t.network.spec.dns),
         Ipv6ToAnnotation(s.network.spec.ipv6) = Ipv6ToAnnotation(t.network.spec.ipv6)
  PROVE  s.network = t.network
<1>1. PICK m : m = s.network.spec
  OBVIOUS
<1>2. PICK n : n = t.network.spec
  OBVIOUS
<1>3. PICK body : body = RenderNetwork(s) /\ body = RenderNetwork(t)
  OBVIOUS
<1>4. /\ m.mode \in {"netns", "open"} /\ m.ipv6 \in BOOLEAN /\ Wordy(m.families)
      /\ m.dns \in Option(Seq(Addresses)) /\ m.dns # <<>>
      /\ m = [mode |-> m.mode, egress |-> m.egress, allow |-> m.allow, deny |-> m.deny,
              families |-> m.families, dns |-> m.dns, ipv6 |-> m.ipv6]
  BY <1>1 DEF NetworkShape
<1>5. /\ n.mode \in {"netns", "open"} /\ n.ipv6 \in BOOLEAN /\ Wordy(n.families)
      /\ n.dns \in Option(Seq(Addresses)) /\ n.dns # <<>>
      /\ n = [mode |-> n.mode, egress |-> n.egress, allow |-> n.allow, deny |-> n.deny,
              families |-> n.families, dns |-> n.dns, ipv6 |-> n.ipv6]
  BY <1>2 DEF NetworkShape
<1>6. /\ Addressed(body, "IPAddressAllow", m.allow) /\ Addressed(body, "IPAddressDeny", m.deny)
      /\ Told(body, "RestrictAddressFamilies", m.families # {}, Join(m.families, " "))
  BY <1>1, <1>3, NetworkLines
<1>7. /\ Addressed(body, "IPAddressAllow", n.allow) /\ Addressed(body, "IPAddressDeny", n.deny)
      /\ Told(body, "RestrictAddressFamilies", n.families # {}, Join(n.families, " "))
  BY <1>2, <1>3, NetworkLines
<1>8. m.allow = n.allow
  BY <1>6, <1>7, AddressedSet
<1>9. m.deny = n.deny
  BY <1>6, <1>7, AddressedSet
<1>10. m.families = n.families
  BY <1>4, <1>5, <1>6, <1>7, ToldSet
<1>11. m.dns = n.dns
  BY <1>1, <1>2, <1>4, <1>5, DnsTold
<1>12. m.ipv6 = n.ipv6
  <2>1. Ipv6ToAnnotation(TRUE) # Ipv6ToAnnotation(FALSE)
    <3>1. <<"enabled">> # <<"disabled">>
      OBVIOUS
    <3>2. QED
      BY <3>1 DEF Ipv6ToAnnotation
  <2>2. Ipv6ToAnnotation(m.ipv6) = Ipv6ToAnnotation(n.ipv6)
    BY <1>1, <1>2
  <2>3. m.ipv6 \in {TRUE, FALSE} /\ n.ipv6 \in {TRUE, FALSE}
    BY <1>4, <1>5
  <2>4. QED
    BY <2>1, <2>2, <2>3, Zenon
<1>13. m.mode = n.mode
  <2>1. <<"netns">> # <<"open">>
    OBVIOUS
  <2>2. Mode(s) = (IF m.mode = "netns" THEN <<"netns">> ELSE <<"open">>)
    BY <1>1 DEF Mode
  <2>3. Mode(t) = (IF n.mode = "netns" THEN <<"netns">> ELSE <<"open">>)
    BY <1>2 DEF Mode
  <2>4. QED
    BY <1>4, <1>5, <2>1, <2>2, <2>3
<1>14. m = n
  <2>1. m.egress = n.egress
    BY <1>1, <1>2
  <2>2. QED
    BY <1>4, <1>5, <1>8, <1>9, <1>10, <1>11, <1>12, <1>13, <2>1
<1>15. QED
  BY <1>1, <1>2, <1>14 DEF NetworkShape

\* The certificates of a proxy: the lines that name them, and their paths
Certs == [env : Text, path : Text]
CertLine(b) == Line("Environment", b.env \o <<"=">> \o b.path)
CertLines(certs) == [i \in DOMAIN certs |-> CertLine(certs[i])]
CertPaths(certs) == [i \in DOMAIN certs |-> certs[i].path]

\* The two parts of the proxy drop-in
ProxyHead(p) ==
  << Section("[Service]") >>
  \o When(p.http # None, << Line("HTTP_PROXY", p.http) >>)
  \o When(p.https # None, << Line("HTTPS_PROXY", p.https) >>)
  \o When(p.noProxy # <<>>, << Line("NO_PROXY", JoinSeq(p.noProxy, Comma)) >>)
ProxyTail(p) ==
  CertLines(p.certs)
  \o When(p.certs # <<>>, << Line("BindReadOnlyPaths", JoinSeq(CertPaths(p.certs), " ")) >>)

\* A line for each certificate
LEMMA CertsShown ==
  ASSUME NEW c \in Seq(Certs)
  PROVE  /\ Sq(CertLines(c)) /\ Len(CertLines(c)) = Len(c) /\ Len(c) \in Nat
         /\ \A l \in ToSet(CertLines(c)) : l.key = "Environment"
         /\ \A i \in 1..Len(c) :
              /\ CertLines(c)[i].val = (c[i].env \o <<"=">>) \o c[i].path
              /\ c[i].env \in Text /\ c[i].path \in Text
              /\ c[i] = [env |-> c[i].env, path |-> c[i].path]
         /\ CertPaths(c) \in Texts /\ Len(CertPaths(c)) = Len(c)
         /\ \A i \in 1..Len(c) : CertPaths(c)[i] = c[i].path
<1>1. PICK m : m = Len(c)
  OBVIOUS
<1>2. m \in Nat /\ DOMAIN c = 1..m /\ \A i \in 1..m : c[i] \in Certs
  BY <1>1, ElementsOf
<1>3. PICK y : y = CertLines(c)
  OBVIOUS
<1>4. PICK T : T = {CertLine(b) : b \in Certs}
  OBVIOUS
<1>5. \A i \in 1..m : y[i] = CertLine(c[i]) /\ y[i] \in T
  BY <1>2, <1>3, <1>4 DEF CertLines
<1>6. y \in Seq(T) /\ Len(y) = m
  <2>1. y \in [1..m -> T]
    BY <1>2, <1>3, <1>5 DEF CertLines
  <2>2. QED
    BY <1>2, <2>1, SeqDef, LenProperties
<1>7. ASSUME NEW b PROVE CertLine(b).key = "Environment" /\ CertLine(b).val = (b.env \o <<"=">>) \o b.path
  BY LineFields DEF CertLine
<1>8. \A l \in ToSet(y) : l.key = "Environment"
  <2> TAKE l \in ToSet(y)
  <2>1. l \in T
    BY <1>6, ElementsOf
  <2>2. PICK b \in Certs : l = CertLine(b)
    BY <1>4, <2>1
  <2>3. QED
    BY <1>7, <2>2
<1>9. \A i \in 1..m : y[i].val = (c[i].env \o <<"=">>) \o c[i].path
  BY <1>5, <1>7
<1>10. PICK z : z = CertPaths(c)
  OBVIOUS
<1>11. \A i \in 1..m : z[i] = c[i].path /\ z[i] \in Text
  BY <1>2, <1>10 DEF CertPaths, Certs
<1>12. z \in Texts /\ Len(z) = m
  <2>1. z \in [1..m -> Text]
    BY <1>2, <1>10, <1>11 DEF CertPaths
  <2>2. QED
    BY <1>2, <2>1, SeqDef, LenProperties DEF Texts
<1>13. \A i \in 1..m : /\ c[i].env \in Text /\ c[i].path \in Text
                       /\ c[i] = [env |-> c[i].env, path |-> c[i].path]
  BY <1>2 DEF Certs
<1>14. QED
  BY <1>1, <1>2, <1>3, <1>6, <1>8, <1>9, <1>10, <1>11, <1>12, <1>13, SqOf

\* What the proxy drop-in says
LEMMA ProxyLines ==
  ASSUME NEW p \in ProxyTables, NEW body, body = RenderProxy(p)
  PROVE  /\ Told(body, "HTTP_PROXY", p.http # None, p.http)
         /\ Told(body, "HTTPS_PROXY", p.https # None, p.https)
         /\ Told(body, "NO_PROXY", p.noProxy # <<>>, JoinSeq(p.noProxy, Comma))
         /\ IsConcat(body, ProxyHead(p), ProxyTail(p))
         /\ Sq(ProxyHead(p)) /\ Sq(ProxyTail(p))
<1>1. PICK s0 : s0 = Section("[Service]")
  OBVIOUS
<1>2. PICK l1 : l1 = Line("HTTP_PROXY", p.http)
  OBVIOUS
<1>3. PICK l2 : l2 = Line("HTTPS_PROXY", p.https)
  OBVIOUS
<1>4. PICK v3 : v3 = JoinSeq(p.noProxy, Comma)
  OBVIOUS
<1>5. PICK l3 : l3 = Line("NO_PROXY", v3)
  OBVIOUS
<1>6. PICK v5 : v5 = JoinSeq(CertPaths(p.certs), " ")
  OBVIOUS
<1>7. PICK l5 : l5 = Line("BindReadOnlyPaths", v5)
  OBVIOUS
<1>8. /\ s0.key = "[Service]"
      /\ l1.key = "HTTP_PROXY" /\ l1.val = p.http
      /\ l2.key = "HTTPS_PROXY" /\ l2.val = p.https
      /\ l3.key = "NO_PROXY" /\ l3.val = v3
      /\ l5.key = "BindReadOnlyPaths"
  BY <1>1, <1>2, <1>3, <1>5, <1>7, LineFields DEF Section
<1>9. PICK a0 : a0 = << s0 >>
  OBVIOUS
<1>10. PICK a1 : a1 = When(p.http # None, << l1 >>)
  OBVIOUS
<1>11. PICK a2 : a2 = When(p.https # None, << l2 >>)
  OBVIOUS
<1>12. PICK a3 : a3 = When(p.noProxy # <<>>, << l3 >>)
  OBVIOUS
<1>13. PICK a4 : a4 = CertLines(p.certs)
  OBVIOUS
<1>14. PICK a5 : a5 = When(p.certs # <<>>, << l5 >>)
  OBVIOUS
<1>15. Sq(a0) /\ ToSet(a0) = {s0}
  BY <1>9, SymbolText
<1>16. Sq(a1) /\ ToSet(a1) = IF p.http # None THEN {l1} ELSE {}
  BY <1>10, LineOrNone DEF When
<1>17. Sq(a2) /\ ToSet(a2) = IF p.https # None THEN {l2} ELSE {}
  BY <1>11, LineOrNone DEF When
<1>18. Sq(a3) /\ ToSet(a3) = IF p.noProxy # <<>> THEN {l3} ELSE {}
  BY <1>12, LineOrNone DEF When
<1>19. Sq(a4) /\ \A l \in ToSet(a4) : l.key = "Environment"
  <2>1. p.certs \in Seq(Certs)
    BY DEF ProxyTables, Certs
  <2>2. QED
    BY <1>13, <2>1, CertsShown
<1>20. Sq(a5) /\ ToSet(a5) \subseteq {l5}
  BY <1>14, LineOrNone DEF When
<1>21. PICK b1 : b1 = a0 \o a1
  OBVIOUS
<1>22. PICK b2 : b2 = b1 \o a2
  OBVIOUS
<1>23. PICK b3 : b3 = b2 \o a3
  OBVIOUS
<1>24. PICK t : t = a4 \o a5
  OBVIOUS
<1>25. /\ Sq(b1) /\ ToSet(b1) = ToSet(a0) \cup ToSet(a1)
       /\ Sq(b2) /\ ToSet(b2) = ToSet(b1) \cup ToSet(a2)
       /\ Sq(b3) /\ ToSet(b3) = ToSet(b2) \cup ToSet(a3)
       /\ Sq(t) /\ ToSet(t) = ToSet(a4) \cup ToSet(a5)
  <2>1. Sq(b1) /\ ToSet(b1) = ToSet(a0) \cup ToSet(a1)
    BY <1>15, <1>16, <1>21, ConcatText
  <2>2. Sq(b2) /\ ToSet(b2) = ToSet(b1) \cup ToSet(a2)
    BY <1>17, <1>22, <2>1, ConcatText
  <2>3. Sq(b3) /\ ToSet(b3) = ToSet(b2) \cup ToSet(a3)
    BY <1>18, <1>23, <2>2, ConcatText
  <2>4. Sq(t) /\ ToSet(t) = ToSet(a4) \cup ToSet(a5)
    BY <1>19, <1>20, <1>24, ConcatText
  <2>5. QED
    BY <2>1, <2>2, <2>3, <2>4
<1>26. ProxyHead(p) = b3 /\ ProxyTail(p) = t
  BY <1>1, <1>2, <1>3, <1>5, <1>7, <1>9, <1>10, <1>11, <1>12, <1>13, <1>14, <1>21, <1>22, <1>23,
     <1>24, <1>4, <1>6, Zenon DEF ProxyHead, ProxyTail
<1>27. body = (b3 \o a4) \o a5
  BY <1>1, <1>2, <1>3, <1>5, <1>7, <1>9, <1>10, <1>11, <1>12, <1>13, <1>14, <1>21, <1>22, <1>23,
     <1>4, <1>6, Zenon DEF RenderProxy, CertLines, CertLine, CertPaths
<1>28. IsConcat(body, b3, t)
  <2>1. Sq(b3) /\ Sq(a4) /\ Sq(a5)
    BY <1>19, <1>20, <1>25
  <2>2. (b3 \o a4) \o a5 = b3 \o (a4 \o a5)
    BY <2>1, Regroup
  <2>3. body = b3 \o t
    BY <1>24, <1>27, <2>2
  <2>4. QED
    BY <1>25, <2>3, Concat
<1>29. ToSet(body) = {s0} \cup ToSet(a1) \cup ToSet(a2) \cup ToSet(a3) \cup ToSet(a4) \cup ToSet(a5)
  <2>1. ToSet(body) = ToSet(b3) \cup ToSet(t)
    BY <1>28 DEF IsConcat
  <2>2. QED
    BY <1>15, <1>25, <2>1
<1>30. \A l \in ToSet(a4) \cup ToSet(a5) : l.key \in {"Environment", "BindReadOnlyPaths"}
  BY <1>8, <1>19, <1>20
<1>31. Told(body, "HTTP_PROXY", p.http # None, p.http)
  BY <1>8, <1>16, <1>17, <1>18, <1>29, <1>30 DEF Told
<1>32. Told(body, "HTTPS_PROXY", p.https # None, p.https)
  BY <1>8, <1>16, <1>17, <1>18, <1>29, <1>30 DEF Told
<1>33. Told(body, "NO_PROXY", p.noProxy # <<>>, JoinSeq(p.noProxy, Comma))
  BY <1>4, <1>8, <1>16, <1>17, <1>18, <1>29, <1>30 DEF Told
<1>34. QED
  BY <1>25, <1>26, <1>28, <1>31, <1>32, <1>33

\* The lines of some certificates, and their paths if there are any
EndsWith(t, c) ==
  /\ Len(t) = Len(c) + (IF c = <<>> THEN 0 ELSE 1)
  /\ \A i \in 1..Len(c) : t[i].val = (c[i].env \o <<"=">>) \o c[i].path
  /\ c # <<>> => t[Len(c) + 1].val = JoinSeq(CertPaths(c), " ") /\ PathList(CertPaths(c))

\* That is how the drop-in ends.
LEMMA ProxyEnd ==
  ASSUME NEW c \in Seq(Certs), \A b \in ToSet(c) : CheckNoRootBind(b.path),
         NEW p, p.certs = c, NEW t, t = ProxyTail(p)
  PROVE  EndsWith(t, c)
<1>1. PICK v : v = JoinSeq(CertPaths(c), " ")
  OBVIOUS
<1>2. PICK l5 : l5 = Line("BindReadOnlyPaths", v)
  OBVIOUS
<1>3. PICK a4 : a4 = CertLines(c)
  OBVIOUS
<1>4. PICK a5 : a5 = When(c # <<>>, << l5 >>)
  OBVIOUS
<1>5. /\ Sq(a4) /\ Len(a4) = Len(c) /\ Len(c) \in Nat
      /\ \A i \in 1..Len(c) : a4[i].val = (c[i].env \o <<"=">>) \o c[i].path
      /\ CertPaths(c) \in Texts /\ Len(CertPaths(c)) = Len(c)
      /\ \A i \in 1..Len(c) : CertPaths(c)[i] = c[i].path
  BY <1>3, CertsShown
<1>6. Sq(a5) /\ (c # <<>> => a5 = << l5 >>) /\ (c = <<>> => a5 = <<>>)
  BY <1>4, LineOrNone DEF When
<1>7. IsConcat(t, a4, a5)
  <2>1. t = a4 \o a5
    BY <1>2, <1>3, <1>4, <1>1, Zenon DEF ProxyTail
  <2>2. QED
    BY <1>5, <1>6, <2>1, Concat
<1>8. Len(t) = Len(c) + (IF c = <<>> THEN 0 ELSE 1)
  <2>1. Len(<<l5>>) = 1 /\ Len(<<>>) = 0
    BY EmptySeq, SymbolText
  <2>2. QED
    BY <1>5, <1>6, <1>7, <2>1 DEF IsConcat
<1>9. \A i \in 1..Len(c) : t[i].val = (c[i].env \o <<"=">>) \o c[i].path
  BY <1>5, <1>7 DEF IsConcat
<1>10. ASSUME c # <<>> PROVE t[Len(c) + 1].val = JoinSeq(CertPaths(c), " ")
  <2>1. Len(a5) = 1 /\ a5[1] = l5
    BY <1>6, <1>10, SymbolText
  <2>2. t[Len(c) + 1] = l5
    <3>1. 1 \in 1..Len(a5)
      BY <2>1
    <3>2. QED
      BY <1>5, <1>7, <2>1, <3>1 DEF IsConcat
  <2>3. QED
    <3>1. l5.val = v
      BY <1>2, LineFields
    <3>2. QED
      BY <1>1, <2>2, <3>1
<1>11. ASSUME c # <<>> PROVE PathList(CertPaths(c))
  <2>1. PICK z : z = CertPaths(c)
    OBVIOUS
  <2>2. z \in Texts /\ Len(z) = Len(c) /\ \A i \in 1..Len(c) : z[i] = c[i].path
    BY <1>5, <2>1
  <2>3. z # <<>>
    <3>1. Len(c) # 0
      BY <1>11, ElementsOf
    <3>2. QED
      BY <2>2, <3>1, EmptySeq
  <2>4. ASSUME NEW x \in ToSet(z) PROVE CheckNoRootBind(x)
    <3>1. PICK i \in 1..Len(c) : x = z[i]
      BY <2>2, ElementsOf DEF Texts
    <3>2. c[i] \in ToSet(c) /\ x = c[i].path
      BY <2>2, <3>1, ElementsOf
    <3>3. QED
      BY <3>2
  <2>5. QED
    BY <2>1, <2>2, <2>3, <2>4, PathsListed
<1>12. QED
  BY <1>8, <1>9, <1>10, <1>11 DEF EndsWith

\* The proxy drop-in tells all but how the hosts without a proxy are written.
LEMMA ProxyTold ==
  ASSUME NEW p \in ProxyTables, NEW q \in ProxyTables, CheckProxy(p), CheckProxy(q),
         RenderProxy(p) = RenderProxy(q)
  PROVE  /\ JoinSeq(p.noProxy, Comma) = JoinSeq(q.noProxy, Comma)
         /\ p.noProxy = q.noProxy => p = q
<1>1. PICK body : body = RenderProxy(p) /\ body = RenderProxy(q)
  OBVIOUS
<1>2. /\ Told(body, "HTTP_PROXY", p.http # None, p.http)
      /\ Told(body, "HTTPS_PROXY", p.https # None, p.https)
      /\ Told(body, "NO_PROXY", p.noProxy # <<>>, JoinSeq(p.noProxy, Comma))
      /\ IsConcat(body, ProxyHead(p), ProxyTail(p)) /\ Sq(ProxyHead(p)) /\ Sq(ProxyTail(p))
  BY <1>1, ProxyLines
<1>3. /\ Told(body, "HTTP_PROXY", q.http # None, q.http)
      /\ Told(body, "HTTPS_PROXY", q.https # None, q.https)
      /\ Told(body, "NO_PROXY", q.noProxy # <<>>, JoinSeq(q.noProxy, Comma))
      /\ IsConcat(body, ProxyHead(q), ProxyTail(q)) /\ Sq(ProxyHead(q)) /\ Sq(ProxyTail(q))
  BY <1>1, ProxyLines
<1>4. p.http = q.http /\ p.https = q.https
  BY <1>2, <1>3 DEF Told
<1>5. (p.noProxy # <<>> <=> q.noProxy # <<>>) /\ JoinSeq(p.noProxy, Comma) = JoinSeq(q.noProxy, Comma)
  <2>1. /\ p.noProxy # <<>> <=> q.noProxy # <<>>
        /\ p.noProxy # <<>> => JoinSeq(p.noProxy, Comma) = JoinSeq(q.noProxy, Comma)
    BY <1>2, <1>3 DEF Told
  <2>2. QED
    BY <2>1, Zenon
<1>6. ProxyHead(p) = ProxyHead(q)
  BY <1>4, <1>5, Zenon DEF ProxyHead
<1>7. PICK t : t = ProxyTail(p) /\ t = ProxyTail(q)
  BY <1>2, <1>3, <1>6, ConcatTells
<1>8. PICK c : c = p.certs
  OBVIOUS
<1>9. PICK d : d = q.certs
  OBVIOUS
<1>10. c \in Seq(Certs) /\ d \in Seq(Certs)
  BY <1>8, <1>9 DEF ProxyTables, Certs
<1>11. (\A b \in ToSet(c) : CheckNoRootBind(b.path)) /\ \A b \in ToSet(d) : CheckNoRootBind(b.path)
  BY <1>8, <1>9 DEF CheckProxy
<1>12. /\ Len(t) = Len(c) + (IF c = <<>> THEN 0 ELSE 1)
       /\ \A i \in 1..Len(c) : t[i].val = (c[i].env \o <<"=">>) \o c[i].path
       /\ c # <<>> => t[Len(c) + 1].val = JoinSeq(CertPaths(c), " ") /\ PathList(CertPaths(c))
  <2>1. EndsWith(t, c)
    BY <1>7, <1>8, <1>10, <1>11, ProxyEnd
  <2>2. QED
    BY <2>1 DEF EndsWith
<1>13. /\ Len(t) = Len(d) + (IF d = <<>> THEN 0 ELSE 1)
       /\ \A i \in 1..Len(d) : t[i].val = (d[i].env \o <<"=">>) \o d[i].path
       /\ d # <<>> => t[Len(d) + 1].val = JoinSeq(CertPaths(d), " ") /\ PathList(CertPaths(d))
  <2>1. EndsWith(t, d)
    BY <1>7, <1>9, <1>10, <1>11, ProxyEnd
  <2>2. QED
    BY <2>1 DEF EndsWith
<1>14. /\ Len(c) \in Nat /\ Len(d) \in Nat /\ (c = <<>> <=> Len(c) = 0) /\ (d = <<>> <=> Len(d) = 0)
  BY <1>10, ElementsOf
<1>15. Len(c) = Len(d) /\ (c = <<>> <=> d = <<>>)
  <2>1. PICK m : m = Len(c)
    OBVIOUS
  <2>2. PICK n : n = Len(d)
    OBVIOUS
  <2>3. Len(t) = m + (IF m = 0 THEN 0 ELSE 1) /\ Len(t) = n + (IF n = 0 THEN 0 ELSE 1)
    BY <1>12, <1>13, <1>14, <2>1, <2>2
  <2>4. m \in Nat /\ n \in Nat
    BY <1>14, <2>1, <2>2
  <2>5. m = n
    BY <2>3, <2>4
  <2>6. QED
    BY <1>14, <2>1, <2>2, <2>5
<1>16. ASSUME NEW i \in 1..Len(c) PROVE c[i] = d[i]
  <2>1. c # <<>> /\ d # <<>>
    BY <1>14, <1>15
  <2>2. PICK x : x = CertPaths(c)
    OBVIOUS
  <2>3. PICK y : y = CertPaths(d)
    OBVIOUS
  <2>4. PathList(x) /\ PathList(y) /\ JoinSeq(x, " ") = JoinSeq(y, " ")
    BY <1>12, <1>13, <1>15, <2>1, <2>2, <2>3
  <2>5. x = y
    BY <2>4, JoinTells DEF PathList
  <2>6. c[i].path = d[i].path
    <3>1. x[i] = c[i].path
      BY <1>10, <2>2, CertsShown
    <3>2. y[i] = d[i].path
      BY <1>10, <1>15, <2>3, CertsShown
    <3>3. QED
      BY <2>5, <3>1, <3>2
  <2>7. PICK e : e = c[i].env
    OBVIOUS
  <2>8. PICK f : f = d[i].env
    OBVIOUS
  <2>9. PICK w : w = c[i].path
    OBVIOUS
  <2>10. /\ e \in Text /\ f \in Text /\ w \in Text /\ d[i].path = w
         /\ c[i] = [env |-> e, path |-> w] /\ d[i] = [env |-> f, path |-> w]
    BY <1>10, <1>15, <2>6, <2>7, <2>8, <2>9, CertsShown
  <2>11. PICK s : s = <<"=">>
    OBVIOUS
  <2>12. Sq(e) /\ Sq(f) /\ Sq(w) /\ Sq(s)
    BY <2>10, <2>11, SqOf, SymbolText DEF Text
  <2>13. PICK g : g = e \o s
    OBVIOUS
  <2>14. PICK h : h = f \o s
    OBVIOUS
  <2>15. IsConcat(g, e, s) /\ IsConcat(h, f, s)
    BY <2>12, <2>13, <2>14, Concat
  <2>16. PICK v : v = t[i].val
    OBVIOUS
  <2>17. v = g \o w /\ v = h \o w
    BY <1>12, <1>13, <1>15, <2>6, <2>7, <2>8, <2>9, <2>11, <2>13, <2>14, <2>16
  <2>18. Sq(g) /\ Sq(h)
    BY <2>15 DEF IsConcat
  <2>19. IsConcat(v, g, w) /\ IsConcat(v, h, w)
    BY <2>12, <2>17, <2>18, Concat
  <2>20. Len(g) = Len(h)
    BY <2>19 DEF IsConcat
  <2>21. g = h
    BY <2>12, <2>18, <2>19, <2>20, ConcatTells
  <2>22. Len(e) = Len(f)
    BY <2>15, <2>21 DEF IsConcat
  <2>23. e = f
    BY <2>12, <2>15, <2>21, <2>22, ConcatTells
  <2>24. QED
    BY <2>10, <2>23
<1>17. c = d
  BY <1>10, <1>15, <1>16, SeqEqual
<1>18. p.noProxy = q.noProxy => p = q
  <2>1. /\ p = [http |-> p.http, https |-> p.https, noProxy |-> p.noProxy, certs |-> p.certs]
        /\ q = [http |-> q.http, https |-> q.https, noProxy |-> q.noProxy, certs |-> q.certs]
    BY DEF ProxyTables
  <2>2. QED
    BY <1>4, <1>8, <1>9, <1>17, <2>1
<1>19. QED
  BY <1>5, <1>18

\* The words of the annotations are texts.
LEMMA WordText ==
  ASSUME NEW w \in {"netns", "open", "forward", "static:", "enabled", "disabled"}
  PROVE  <<w>> # None
<1>1. w \in STRING
  BY UnitsConstants
<1>2. <<w>> \in Text
  BY <1>1 DEF Text
<1>3. QED
  BY <1>2, InputsConstants

\* An annotation that is there and does not differ says what is wanted.
LEMMA NotDifferent ==
  ASSUME NEW found, found # None, NEW wanted, ~Differs(found, wanted)
  PROVE  found = wanted
BY DEF Differs

\* Drop-ins that the planner takes for the same are the same.
SameDropIns(s, t) ==
  \A b \in Basenames(s) \cup Basenames(t) :
    b # "00-ghars" => b \in Basenames(s) /\ b \in Basenames(t) /\ Body(s, b) = Body(t, b)

\* If the planner finds no drop-in changed, they are the same.
LEMMA DropInsAgree ==
  ASSUME NEW s, NEW t, DropInChanges(RenderRunnerUnit(s).dropIns, RenderRunnerUnit(t).dropIns) = {}
  PROVE  SameDropIns(s, t)
<1>1. PICK x : x = RenderRunnerUnit(s).dropIns
  OBVIOUS
<1>2. PICK y : y = RenderRunnerUnit(t).dropIns
  OBVIOUS
<1>3. PICK A : A = Basenames(s)
  OBVIOUS
<1>4. PICK B : B = Basenames(t)
  OBVIOUS
<1>5. x = [n \in A |-> Body(s, n)] /\ y = [n \in B |-> Body(t, n)]
  BY <1>1, <1>2, <1>3, <1>4 DEF RenderRunnerUnit
<1>6. DropInChanges(x, y) = {}
  BY <1>1, <1>2
<1>7. ASSUME NEW b \in A \cup B, b # "00-ghars" PROVE b \in A /\ b \in B /\ Body(s, b) = Body(t, b)
  <2>1. DOMAIN x = A /\ DOMAIN y = B
    BY <1>5
  <2>2. b \in (DOMAIN x \cup DOMAIN y) \ {"00-ghars"}
    BY <1>7, <2>1
  <2>3. ~(b \notin DOMAIN x \cap DOMAIN y \/ x[b] # y[b])
    BY <1>6, <2>2 DEF DropInChanges
  <2>4. b \in A /\ b \in B /\ x[b] = y[b]
    BY <2>1, <2>3
  <2>5. x[b] = Body(s, b) /\ y[b] = Body(t, b)
    BY <1>5, <2>4
  <2>6. QED
    BY <2>4, <2>5
<1>8. QED
  BY <1>3, <1>4, <1>7 DEF SameDropIns

\* Which drop-ins a spec has
LEMMA BasenamesOf ==
  ASSUME NEW s
  PROVE  /\ "10-memory" \in Basenames(s) <=> s.memory # None
         /\ "20-hardening" \in Basenames(s) <=> HardeningNeedsDropIn(s.hard)
         /\ "40-network" \in Basenames(s) <=> s.network # None
         /\ "50-numa" \in Basenames(s) <=> s.cpus # None \/ s.mems # None
         /\ "60-proxy" \in Basenames(s) <=> s.proxy # None
<1>1. PICK A : A = {"00-ghars", "15-resolv", "80-lognamespace"}
  OBVIOUS
<1>2. \A b \in {"10-memory", "20-hardening", "30-cache-pool", "40-network", "50-numa", "60-proxy",
                "70-hooks"} : b \notin A
  BY <1>1
<1>3. QED
  BY <1>1, <1>2 DEF Basenames

\* What the bodies are
LEMMA BodiesOf ==
  ASSUME NEW s
  PROVE  /\ Body(s, "10-memory") = RenderMemory(s) /\ Body(s, "20-hardening") = RenderHardening(s.hard)
         /\ Body(s, "40-network") = RenderNetwork(s) /\ Body(s, "50-numa") = RenderNuma(s)
         /\ Body(s, "60-proxy") = RenderProxy(s.proxy)
BY DEF Body

\* The memory drop-in tells the limit.
LEMMA MemoryTold ==
  ASSUME NEW s, NEW t, RenderMemory(s) = RenderMemory(t)
  PROVE  s.memory = t.memory
<1>1. PICK l : l = Line("MemoryMax", s.memory)
  OBVIOUS
<1>2. PICK m : m = Line("MemoryMax", t.memory)
  OBVIOUS
<1>3. l.val = s.memory /\ m.val = t.memory
  BY <1>1, <1>2, LineFields
<1>4. PICK h : h = Section("[Service]")
  OBVIOUS
<1>5. <<h, l>> = <<h, m>>
  BY <1>1, <1>2, <1>4 DEF RenderMemory
<1>6. l = m
  BY <1>5
<1>7. QED
  BY <1>3, <1>6

\* The NUMA drop-in tells the processors and the memory nodes.
LEMMA NumaLines ==
  ASSUME NEW s, NEW body, body = RenderNuma(s)
  PROVE  /\ Told(body, "AllowedCPUs", s.cpus # None, s.cpus)
         /\ Told(body, "AllowedMemoryNodes", s.mems # None, s.mems)
<1>1. PICK s0 : s0 = Section("[Service]")
  OBVIOUS
<1>2. PICK l1 : l1 = Line("AllowedCPUs", s.cpus)
  OBVIOUS
<1>3. PICK l2 : l2 = Line("AllowedMemoryNodes", s.mems)
  OBVIOUS
<1>4. /\ s0.key = "[Service]" /\ l1.key = "AllowedCPUs" /\ l1.val = s.cpus
      /\ l2.key = "AllowedMemoryNodes" /\ l2.val = s.mems
  BY <1>1, <1>2, <1>3, LineFields DEF Section
<1>5. PICK a0 : a0 = << s0 >>
  OBVIOUS
<1>6. PICK a1 : a1 = When(s.cpus # None, << l1 >>)
  OBVIOUS
<1>7. PICK a2 : a2 = When(s.mems # None, << l2 >>)
  OBVIOUS
<1>8. Sq(a0) /\ ToSet(a0) = {s0}
  BY <1>5, SymbolText
<1>9. Sq(a1) /\ ToSet(a1) = IF s.cpus # None THEN {l1} ELSE {}
  BY <1>6, LineOrNone DEF When
<1>10. Sq(a2) /\ ToSet(a2) = IF s.mems # None THEN {l2} ELSE {}
  BY <1>7, LineOrNone DEF When
<1>11. PICK b : b = a0 \o a1
  OBVIOUS
<1>12. body = b \o a2
  BY <1>1, <1>2, <1>3, <1>5, <1>6, <1>7, <1>11, Zenon DEF RenderNuma
<1>13. ToSet(body) = {s0} \cup ToSet(a1) \cup ToSet(a2)
  <2>1. Sq(b) /\ ToSet(b) = ToSet(a0) \cup ToSet(a1)
    BY <1>8, <1>9, <1>11, ConcatText
  <2>2. ToSet(body) = ToSet(b) \cup ToSet(a2)
    BY <1>10, <1>12, <2>1, ConcatText
  <2>3. QED
    BY <1>8, <2>1, <2>2
<1>14. Told(body, "AllowedCPUs", s.cpus # None, s.cpus)
  BY <1>4, <1>9, <1>10, <1>13 DEF Told
<1>15. Told(body, "AllowedMemoryNodes", s.mems # None, s.mems)
  BY <1>4, <1>9, <1>10, <1>13 DEF Told
<1>16. QED
  BY <1>14, <1>15

\* The drop-ins of two specs that the planner takes for the same
LEMMA DropInsTell ==
  ASSUME NEW s, NEW t, SameDropIns(s, t), Shaped(s), Shaped(t), Renderable(s), Renderable(t)
  PROVE  /\ s.memory = t.memory /\ s.cpus = t.cpus /\ s.mems = t.mems
         /\ s.hard.flags = t.hard.flags /\ s.hard.families = t.hard.families
         /\ s.hard.syscalls = t.hard.syscalls /\ s.hard.caps = t.hard.caps
         /\ ReadOnlyPaths(s.hard) = ReadOnlyPaths(t.hard)
         /\ s.network # None <=> t.network # None
         /\ s.network # None => RenderNetwork(s) = RenderNetwork(t)
         /\ s.proxy # None <=> t.proxy # None
         /\ s.proxy # None => /\ JoinSeq(s.proxy.noProxy, Comma) = JoinSeq(t.proxy.noProxy, Comma)
                              /\ s.proxy.noProxy = t.proxy.noProxy => s.proxy = t.proxy
<1>1. ASSUME NEW b \in {"10-memory", "20-hardening", "40-network", "50-numa", "60-proxy"}
      PROVE  /\ b \in Basenames(s) <=> b \in Basenames(t)
             /\ b \in Basenames(s) => Body(s, b) = Body(t, b)
  BY <1>1 DEF SameDropIns
<1>2. s.memory = t.memory
  <2>1. s.memory # None <=> t.memory # None
    BY <1>1, BasenamesOf
  <2>2. ASSUME s.memory # None PROVE s.memory = t.memory
    <3>1. RenderMemory(s) = RenderMemory(t)
      BY <1>1, <2>2, BasenamesOf, BodiesOf
    <3>2. QED
      BY <3>1, MemoryTold
  <2>3. QED
    BY <2>1, <2>2
<1>3. s.cpus = t.cpus /\ s.mems = t.mems
  <2>1. (s.cpus # None \/ s.mems # None) <=> (t.cpus # None \/ t.mems # None)
    BY <1>1, BasenamesOf
  <2>2. ASSUME s.cpus # None \/ s.mems # None PROVE s.cpus = t.cpus /\ s.mems = t.mems
    <3>1. PICK body : body = RenderNuma(s) /\ body = RenderNuma(t)
      BY <1>1, <2>2, BasenamesOf, BodiesOf
    <3>2. /\ Told(body, "AllowedCPUs", s.cpus # None, s.cpus)
          /\ Told(body, "AllowedMemoryNodes", s.mems # None, s.mems)
      BY <3>1, NumaLines
    <3>3. /\ Told(body, "AllowedCPUs", t.cpus # None, t.cpus)
          /\ Told(body, "AllowedMemoryNodes", t.mems # None, t.mems)
      BY <3>1, NumaLines
    <3>4. QED
      BY <3>2, <3>3 DEF Told
  <2>3. QED
    BY <2>1, <2>2
<1>4. /\ s.hard.flags = t.hard.flags /\ s.hard.families = t.hard.families
      /\ s.hard.syscalls = t.hard.syscalls /\ s.hard.caps = t.hard.caps
      /\ ReadOnlyPaths(s.hard) = ReadOnlyPaths(t.hard)
  <2>1. PICK g : g = s.hard
    OBVIOUS
  <2>2. PICK h : h = t.hard
    OBVIOUS
  <2>3. HardeningShape(g) /\ HardeningShape(h)
    BY <2>1, <2>2 DEF Shaped
  <2>4. ValidateHardeningEntries(g) /\ ValidateHardeningEntries(h)
    BY <2>1, <2>2 DEF Renderable
  <2>5. /\ HardeningNeedsDropIn(g) <=> HardeningNeedsDropIn(h)
        /\ HardeningNeedsDropIn(g) => RenderHardening(g) = RenderHardening(h)
    BY <1>1, <2>1, <2>2, BasenamesOf, BodiesOf
  <2>6. /\ g.flags = h.flags /\ g.families = h.families /\ g.syscalls = h.syscalls
        /\ g.caps = h.caps /\ ReadOnlyPaths(g) = ReadOnlyPaths(h)
    BY <2>3, <2>4, <2>5, HardeningTold
  <2>7. QED
    BY <2>1, <2>2, <2>6
<1>5. /\ s.network # None <=> t.network # None
      /\ s.network # None => RenderNetwork(s) = RenderNetwork(t)
  BY <1>1, BasenamesOf, BodiesOf
<1>6. /\ s.proxy # None <=> t.proxy # None
      /\ s.proxy # None => /\ JoinSeq(s.proxy.noProxy, Comma) = JoinSeq(t.proxy.noProxy, Comma)
                           /\ s.proxy.noProxy = t.proxy.noProxy => s.proxy = t.proxy
  <2>1. s.proxy # None <=> t.proxy # None
    BY <1>1, BasenamesOf
  <2>2. PICK p : p = s.proxy
    OBVIOUS
  <2>3. PICK q : q = t.proxy
    OBVIOUS
  <2>4. ASSUME s.proxy # None
        PROVE  /\ JoinSeq(p.noProxy, Comma) = JoinSeq(q.noProxy, Comma)
               /\ p.noProxy = q.noProxy => p = q
    <3>1. RenderProxy(p) = RenderProxy(q)
      BY <1>1, <2>2, <2>3, <2>4, BasenamesOf, BodiesOf
    <3>2. p \in ProxyTables /\ q \in ProxyTables
      BY <2>1, <2>2, <2>3, <2>4 DEF Shaped
    <3>3. CheckProxy(p) /\ CheckProxy(q)
      BY <2>1, <2>2, <2>3, <2>4 DEF Renderable
    <3>4. QED
      BY <3>1, <3>2, <3>3, ProxyTold
  <2>5. QED
    BY <2>1, <2>2, <2>3, <2>4
<1>7. QED
  BY <1>2, <1>3, <1>4, <1>5, <1>6

\* What the planner has no reason to recreate agrees in what is compared for that.
LEMMA NoReasons ==
  ASSUME NEW a, NEW s, ClassifyRecreateReasons(a, s) = {}, FieldChanges(a, s) = {}
  PROVE  /\ ~Differs(a.url, s.url) /\ ~Differs(a.version, OrEmpty(s.version))
         /\ ~Differs(a.labels, s.labels) /\ ~Differs(a.arch, s.arch)
         /\ ~Differs(a.sha, OrEmpty(s.sha)) /\ ~Differs(a.tarball, OrEmpty(s.tarball))
         /\ ~Differs(a.mode, Mode(s)) /\ ~Differs(a.auth, s.auth) /\ ~Differs(a.zone, s.zone)
         /\ s.network # None => /\ ~Differs(a.dns, DnsToAnnotation(s.network.spec.dns))
                               /\ ~Differs(a.ipv6, Ipv6ToAnnotation(s.network.spec.ipv6))
<1>1. \A r \in {"url", "version", "labels", "arch", "sha", "tarball", "network"} :
        ~(CASE r = "url"     -> Differs(a.url, s.url)
            [] r = "version" -> Differs(a.version, OrEmpty(s.version))
            [] r = "labels"  -> Differs(a.labels, s.labels)
            [] r = "arch"    -> Differs(a.arch, s.arch)
            [] r = "sha"     -> Differs(a.sha, OrEmpty(s.sha))
            [] r = "tarball" -> Differs(a.tarball, OrEmpty(s.tarball))
            [] r = "network" -> Differs(a.mode, Mode(s)))
  BY DEF ClassifyRecreateReasons
<1>2. \A f \in {"auth_name", "trust_zone", "caches", "dns", "ipv6"} :
        ~(CASE f = "auth_name"  -> Differs(a.auth, s.auth)
            [] f = "trust_zone" -> Differs(a.zone, s.zone)
            [] f = "caches"     -> Differs(a.caches, {b.name : b \in s.caches})
            [] f = "dns"  -> s.network # None /\ Differs(a.dns, DnsToAnnotation(s.network.spec.dns))
            [] f = "ipv6" -> s.network # None /\ Differs(a.ipv6, Ipv6ToAnnotation(s.network.spec.ipv6)))
  BY DEF FieldChanges
<1>3. /\ ~Differs(a.url, s.url) /\ ~Differs(a.version, OrEmpty(s.version))
      /\ ~Differs(a.labels, s.labels) /\ ~Differs(a.arch, s.arch)
      /\ ~Differs(a.sha, OrEmpty(s.sha)) /\ ~Differs(a.tarball, OrEmpty(s.tarball))
      /\ ~Differs(a.mode, Mode(s))
  BY <1>1
<1>4. ~Differs(a.auth, s.auth) /\ ~Differs(a.zone, s.zone)
  BY <1>2
<1>5. s.network # None => /\ ~Differs(a.dns, DnsToAnnotation(s.network.spec.dns))
                          /\ ~Differs(a.ipv6, Ipv6ToAnnotation(s.network.spec.ipv6))
  BY <1>2
<1>6. QED
  BY <1>3, <1>4, <1>5

\* A pin that was there, and is not another one, is the same.
LEMMA PinKept ==
  ASSUME NEW x, x # <<>>, NEW y, ~Differs(x, OrEmpty(y)), ~(x = None /\ y # None)
  PROVE  x = y
BY DEF Differs, OrEmpty

\* The annotations of a spec that was written, compared with another spec
LEMMA AnnotationsAgree ==
  ASSUME NEW s, Written(s), Shaped(s), NEW f, f = Discovered[s], NEW t, Shaped(t),
         ClassifyRecreateReasons(f.annotations, t) = {}, FieldChanges(f.annotations, t) = {},
         ~(s.sha = None /\ t.sha # None), ~(s.tarball = None /\ t.tarball # None)
  PROVE  /\ s.url = t.url /\ s.version = t.version /\ s.labels = t.labels /\ s.arch = t.arch
         /\ s.sha = t.sha /\ s.tarball = t.tarball /\ s.auth = t.auth /\ s.zone = t.zone
         /\ Mode(s) = Mode(t)
         /\ s.network # None /\ t.network # None =>
              /\ DnsToAnnotation(s.network.spec.dns) = DnsToAnnotation(t.network.spec.dns)
              /\ Ipv6ToAnnotation(s.network.spec.ipv6) = Ipv6ToAnnotation(t.network.spec.ipv6)
<1>1. PICK a : a = f.annotations
  OBVIOUS
<1>2. /\ a.url = s.url /\ a.auth = s.auth /\ a.version = s.version /\ a.labels = s.labels
      /\ a.arch = s.arch /\ a.sha = s.sha /\ a.tarball = s.tarball /\ a.zone = s.zone
      /\ a.mode = Mode(s)
      /\ s.network # None => /\ a.dns = DnsToAnnotation(s.network.spec.dns)
                             /\ a.ipv6 = Ipv6ToAnnotation(s.network.spec.ipv6)
  BY <1>1, WrittenFound
<1>3. /\ ~Differs(a.url, t.url) /\ ~Differs(a.version, OrEmpty(t.version))
      /\ ~Differs(a.labels, t.labels) /\ ~Differs(a.arch, t.arch)
      /\ ~Differs(a.sha, OrEmpty(t.sha)) /\ ~Differs(a.tarball, OrEmpty(t.tarball))
      /\ ~Differs(a.mode, Mode(t)) /\ ~Differs(a.auth, t.auth) /\ ~Differs(a.zone, t.zone)
      /\ t.network # None => /\ ~Differs(a.dns, DnsToAnnotation(t.network.spec.dns))
                             /\ ~Differs(a.ipv6, Ipv6ToAnnotation(t.network.spec.ipv6))
  BY <1>1, NoReasons
<1>4. /\ s.url # None /\ s.arch # None /\ s.auth # None /\ s.zone # None /\ s.labels # None
      /\ s.version \notin {None, <<>>}
  <2>1. \A x \in {s.name, s.url, s.auth, s.zone, s.arch, s.version} : x \notin {None, <<>>}
    BY DEF Written, Sound
  <2>2. s.labels # None
    BY LabelsKnown DEF Written
  <2>3. QED
    BY <2>1, <2>2
<1>5. Mode(s) # None /\ \A b : Ipv6ToAnnotation(b) # None
  <2>1. /\ <<"netns">> # None /\ <<"open">> # None
        /\ <<"enabled">> # None /\ <<"disabled">> # None
    BY WordText
  <2>2. Mode(s) \in {<<"netns">>, <<"open">>}
    BY DEF Mode
  <2>3. \A b : Ipv6ToAnnotation(b) \in {<<"enabled">>, <<"disabled">>}
    BY DEF Ipv6ToAnnotation
  <2>4. QED
    BY <2>1, <2>2, <2>3
<1>6. s.url = t.url /\ s.labels = t.labels /\ s.arch = t.arch /\ s.auth = t.auth /\ s.zone = t.zone
      /\ Mode(s) = Mode(t)
  BY <1>2, <1>3, <1>4, <1>5 DEF Differs
<1>7. s.version = t.version
  BY <1>2, <1>3, <1>4, PinKept
<1>8. s.sha = t.sha /\ s.tarball = t.tarball
  <2>1. s.sha # <<>> /\ s.tarball # <<>>
    BY DEF Shaped
  <2>2. QED
    BY <1>2, <1>3, <2>1, PinKept
<1>9. ASSUME s.network # None, t.network # None
      PROVE  /\ DnsToAnnotation(s.network.spec.dns) = DnsToAnnotation(t.network.spec.dns)
             /\ Ipv6ToAnnotation(s.network.spec.ipv6) = Ipv6ToAnnotation(t.network.spec.ipv6)
  <2>1. NetworkShape(s.network)
    BY <1>9 DEF Shaped
  <2>2. s.network.spec.dns \in Option(Seq(Addresses)) /\ s.network.spec.dns # <<>>
    BY <2>1 DEF NetworkShape
  <2>3. DnsToAnnotation(s.network.spec.dns) # None
    BY <2>2, DnsTold
  <2>4. QED
    BY <1>2, <1>3, <1>5, <1>9, <2>3, NotDifferent
<1>10. QED
  BY <1>6, <1>7, <1>8, <1>9

\* A spec that the planner finds no difference in, and that has no cause that the plan
\* does not show, is the one that was written.
LEMMA NothingLeft ==
  ASSUME NEW s, Written(s), Shaped(s), NEW f, f = Discovered[s],
         NEW t, IsSpec(t), Shaped(t), Renderable(t), s.name = t.name,
         ClassifyRecreateReasons(f.annotations, t) = {}, FieldChanges(f.annotations, t) = {},
         DropInChanges(RenderRunnerUnit(s).dropIns, RenderRunnerUnit(t).dropIns) = {},
         ~UnshownCause(s, t)
  PROVE  s = t
<1>1. /\ t.schema = s.schema /\ t.env = s.env /\ t.caches = s.caches /\ t.hooks = s.hooks
      /\ ~(s.sha = None /\ t.sha # None) /\ ~(s.tarball = None /\ t.tarball # None)
  BY DEF UnshownCause
<1>2. s.network # None /\ t.network # None =>
        /\ s.network.name = t.network.name /\ s.network.subnet = t.network.subnet
        /\ s.network.spec.egress = t.network.spec.egress
  BY DEF UnshownCause
<1>3. /\ s.url = t.url /\ s.version = t.version /\ s.labels = t.labels /\ s.arch = t.arch
      /\ s.sha = t.sha /\ s.tarball = t.tarball /\ s.auth = t.auth /\ s.zone = t.zone
      /\ Mode(s) = Mode(t)
      /\ s.network # None /\ t.network # None =>
           /\ DnsToAnnotation(s.network.spec.dns) = DnsToAnnotation(t.network.spec.dns)
           /\ Ipv6ToAnnotation(s.network.spec.ipv6) = Ipv6ToAnnotation(t.network.spec.ipv6)
  BY <1>1, AnnotationsAgree
<1>4. IsSpec(s) /\ Renderable(s)
  BY DEF Written
<1>5. SameDropIns(s, t)
  BY DropInsAgree
<1>6. /\ s.memory = t.memory /\ s.cpus = t.cpus /\ s.mems = t.mems
      /\ s.hard.flags = t.hard.flags /\ s.hard.families = t.hard.families
      /\ s.hard.syscalls = t.hard.syscalls /\ s.hard.caps = t.hard.caps
      /\ ReadOnlyPaths(s.hard) = ReadOnlyPaths(t.hard)
      /\ s.network # None <=> t.network # None
      /\ s.network # None => RenderNetwork(s) = RenderNetwork(t)
      /\ s.proxy # None <=> t.proxy # None
      /\ s.proxy # None => /\ JoinSeq(s.proxy.noProxy, Comma) = JoinSeq(t.proxy.noProxy, Comma)
                           /\ s.proxy.noProxy = t.proxy.noProxy => s.proxy = t.proxy
  BY <1>4, <1>5, DropInsTell
<1>7. s.hard = t.hard
  <2>1. \A field \in {"flags", "families", "syscalls", "caps"} : s.hard[field] = t.hard[field]
    BY <1>6
  <2>2. QED
    BY <1>6, <2>1 DEF UnshownCause
<1>8. s.network = t.network
  <2>1. CASE s.network = None
    BY <1>6, <2>1
  <2>2. CASE s.network # None
    <3>1. t.network # None /\ NetworkShape(s.network) /\ NetworkShape(t.network)
      BY <1>6, <2>2 DEF Shaped
    <3>2. QED
      BY <1>2, <1>3, <1>6, <2>2, <3>1, NetworkTold
  <2>3. QED
    BY <2>1, <2>2
<1>9. s.proxy = t.proxy
  <2>1. CASE s.proxy = None
    BY <1>6, <2>1
  <2>2. CASE s.proxy # None
    BY <1>6, <2>2 DEF UnshownCause
  <2>3. QED
    BY <2>1, <2>2
<1>10. QED
  BY <1>1, <1>3, <1>4, <1>6, <1>7, <1>8, <1>9 DEF IsSpec

\* What was asked for has its tables in shape.
LEMMA AskedShaped ==
  ASSUME NEW c, Usable(c), Plain(c), NEW n \in Named(c), NEW k, NEW s, IsSpec(s), Asked(s, c, n, k)
  PROVE  Shaped(s) /\ s.name = n
<1>1. PICK l : l = Lowered(c, n, k)
  OBVIOUS
<1>2. IsSpec(l) /\ l.name = n /\ Shaped(l)
  BY <1>1, LoweredTyped, LoweredShaped DEF Typed
<1>3. PICK v : v = Pinned(l, s.version)
  OBVIOUS
<1>4. IsSpec(v) /\ SameButVersion(v, l)
  BY <1>2, <1>3, WithVersion
<1>5. SpecHash(s) = SpecHash(v)
  BY <1>1, <1>3 DEF Asked
<1>6. /\ s.name = v.name /\ s.sha = v.sha /\ s.tarball = v.tarball /\ s.network = v.network
      /\ s.proxy = v.proxy /\ s.hard = v.hard
  BY <1>4, <1>5, HashTells
<1>7. /\ s.name = l.name /\ s.sha = l.sha /\ s.tarball = l.tarball /\ s.network = l.network
      /\ s.proxy = l.proxy /\ s.hard = l.hard
  BY <1>4, <1>6 DEF SameButVersion
<1>8. QED
  BY <1>2, <1>7 DEF Shaped

\* WarningsExplained, in a state
LEMMA ExplainedNow ==
  ASSUME PlainConfigs, HostInv
  PROVE  WarningsExplained
<1> SUFFICES ASSUME NEW u \in Updates,
                    Uncovered(Discovered[u[1]], u[2], Rendered[u[1]], Rendered[u[2]]),
                    ~UnshownCause(u[1], u[2])
             PROVE  FALSE
  BY DEF WarningsExplained
<1>1. PICK i \in Accepted :
         LET want == Wants[Input(i, FALSE)]
         IN u \in {<<runners[n].spec, Candidate(n, want)>> : n \in DOMAIN runners \cap DOMAIN want}
  BY DEF Updates
<1>2. PICK want : want = Wants[Input(i, FALSE)]
  OBVIOUS
<1>3. PICK n \in DOMAIN runners \cap DOMAIN want : u = <<runners[n].spec, Candidate(n, want)>>
  BY <1>1, <1>2
<1>4. PICK old : old = runners[n].spec
  OBVIOUS
<1>5. PICK d : d = Candidate(n, want)
  OBVIOUS
<1>6. u[1] = old /\ u[2] = d
  BY <1>3, <1>4, <1>5
<1>7. d \in RenderableSpecs
  BY <1>6 DEF Updates
<1>8. Uncovered(Discovered[old], d, Rendered[old], Rendered[d]) /\ ~UnshownCause(old, d)
  BY <1>6
<1>9. PICK k \in ToSet(Schemas) : k = Schemas[schema]
  BY ReleaseIs DEF HostInv
<1>10. None \in Lookups
  BY DEF Lookups
<1>11. PICK c : c = Configs[i]
  OBVIOUS
<1>12. Usable(c) /\ Plain(c)
  BY <1>9, <1>10, <1>11, Wanting, PlanConstants DEF PlainConfigs, Accepted
<1>13. want = [m \in Named(c) |-> Tracked(Lowered(c, m, k), None)]
  BY <1>2, <1>9, <1>10, <1>11, Wanting DEF Input, Latest
<1>14. n \in Named(c) /\ n \in DOMAIN runners
  BY <1>13, <1>3
<1>15. PICK w : w = Lowered(c, n, k)
  OBVIOUS
<1>16. want[n] = Tracked(w, None)
  BY <1>13, <1>14, <1>15
<1>17. Typed(w) /\ w.name = n /\ IsSpec(w) /\ Shaped(w)
  <2>1. Typed(w) /\ w.name = n
    BY <1>12, <1>14, <1>15, LoweredTyped
  <2>2. Shaped(w)
    BY <1>12, <1>14, <1>15, LoweredShaped
  <2>3. QED
    BY <2>1, <2>2 DEF Typed
<1>18. Written(old)
  BY <1>14, <1>4, Standing
<1>19. PICK v : v = Chosen(w, None, old)
  OBVIOUS
<1>20. d = Pinned(w, v)
  BY <1>14, <1>16, <1>17, <1>18, <1>19, <1>4, <1>5, CandidateIs
<1>21. IsSpec(d) /\ SameButVersion(d, w)
  BY <1>17, <1>20, WithVersion
<1>22. Shaped(d) /\ d.name = n
  BY <1>17, <1>21 DEF Shaped, SameButVersion
<1>23. Shaped(old) /\ old.name = n
  <2>1. PICK j \in Accepted : Left(n, j) /\ n \in Named(Configs[j])
    BY <1>14, Standing
  <2>2. PICK m \in ToSet(Schemas) : Asked(old, Configs[j], n, m)
    BY <1>4, <2>1 DEF Left
  <2>3. Usable(Configs[j]) /\ Plain(Configs[j])
    BY <1>9, <1>10, Wanting, PlanConstants DEF PlainConfigs, Accepted
  <2>4. IsSpec(old)
    BY <1>18 DEF Written
  <2>5. QED
    BY <2>1, <2>2, <2>3, <2>4, AskedShaped
<1>24. d \in Specs /\ Renderable(d) /\ old \in Specs
  BY <1>18, <1>7 DEF RenderableSpecs, Written
<1>25. Rendered[old] = RenderRunnerUnit(old) /\ Rendered[d] = RenderRunnerUnit(d)
  BY <1>24, Zenon DEF Rendered, Table
<1>26. PICK f : f = Discovered[old]
  OBVIOUS
<1>27. /\ f.hash # SpecHash(d) /\ ClassifyRecreateReasons(f.annotations, d) = {}
       /\ FieldChanges(f.annotations, d) = {}
       /\ DropInChanges(RenderRunnerUnit(old).dropIns, RenderRunnerUnit(d).dropIns) = {}
  BY <1>25, <1>26, <1>8 DEF Uncovered
<1>28. old = d
  BY <1>18, <1>21, <1>22, <1>23, <1>24, <1>26, <1>27, <1>8, NothingLeft
<1>29. f.hash = SpecHash(old)
  BY <1>18, <1>26, WrittenFound
<1>30. QED
  BY <1>27, <1>28, <1>29

\* A warning that an update has no explanation is never about anything but the causes
\* that the planner cannot show, for every plain config (compute.rs 463-529).
THEOREM WarningsAreExplained ==
  ASSUME PlainConfigs
  PROVE  Spec => []WarningsExplained
<1>1. HostInv => WarningsExplained
  BY ExplainedNow
<1>2. QED
  BY <1>1, HostAlways, PTL
=============================================================================
