--------------------------- MODULE Targeting_proofs -------------------------
(***************************************************************************)
(* Targeting strategies, for any projects, files and callers: what their    *)
(* evaluation promises, what a PUT of them replaces, and what an import     *)
(* makes of the flags that carry them.                                      *)
(***************************************************************************)
EXTENDS Transfer, Strategies, SequenceTheorems, FiniteSetTheorems, FunctionTheorems,
        WellFoundedInduction, TLAPS

-----------------------------------------------------------------------------
(* PUTs of strategies. *)

PutsInv == TypeOK /\ RowsAreAccountedFor

\* Every step keeps the types, and the account each running PUT gives of the rows.
LEMMA PutsInvStep == PutsInv /\ [PutsNext]_putVars => PutsInv'
<1> SUFFICES ASSUME PutsInv, [PutsNext]_putVars PROVE PutsInv'
  OBVIOUS
<1> USE DEF PutsInv, TypeOK, RowsAreAccountedFor
<1>1. ASSUME NEW p \in Put, StartDelete(p) PROVE PutsInv'
  <2>1. [put[p] EXCEPT !.pc = "delete", !.unlocked = rows] \in Transaction
    <3>1. put[p] \in Transaction /\ rows \in SUBSET Put
      OBVIOUS
    <3> HIDE DEF PutsInv, TypeOK
    <3> QED BY <3>1 DEF Transaction
  <2>2. put' = [put EXCEPT ![p] = [put[p] EXCEPT !.pc = "delete", !.unlocked = rows]]
    BY <1>1 DEF StartDelete
  <2>3. put'[p].unlocked = rows
    BY <2>2 DEF Transaction
  <2> QED BY <1>1, <2>1, <2>2, <2>3 DEF StartDelete
<1>2. ASSUME NEW p \in Put, NEW q \in Put, DeleteRow(p, q) PROVE PutsInv'
  <2> DEFINE Deleted == IF q \in rows THEN put[p].deleted \cup {q} ELSE put[p].deleted
             Locked == [put[p] EXCEPT !.unlocked = @ \ {q}, !.deleted = Deleted]
  <2>1. Locked \in Transaction
    <3>1. put[p] \in Transaction
      OBVIOUS
    <3>2. put[p].unlocked \ {q} \in SUBSET Put /\ Deleted \in SUBSET Put
      BY <3>1 DEF Transaction
    <3> HIDE DEF PutsInv, TypeOK, Deleted
    <3> QED BY <3>1, <3>2 DEF Transaction
  <2>2. put' = [put EXCEPT ![p] = Locked]
    BY <1>2 DEF DeleteRow
  <2>3. /\ Locked.unlocked = put[p].unlocked \ {q}
        /\ Locked.deleted = Deleted
        /\ Locked.missed = put[p].missed
    BY DEF Transaction
  <2>4. rows \subseteq Locked.unlocked \cup Locked.deleted \cup Locked.missed
    BY <1>2, <2>3 DEF DeleteRow
  <2> HIDE DEF Locked
  <2> QED BY <1>2, <2>1, <2>2, <2>4 DEF DeleteRow
<1>3. ASSUME NEW p \in Put, Commit(p) PROVE PutsInv'
  <2>1. Inserted(p) \subseteq Put
    BY DEF Inserted
  <2>2. [put[p] EXCEPT !.pc = "committed"] \in Transaction
    BY DEF Transaction
  <2>3. \A q \in Put : [put[q] EXCEPT !.missed = @ \cup Inserted(p)] \in Transaction
    BY <2>1 DEF Transaction
  <2>4. put' \in [Put -> Transaction]
    BY <1>3, <2>2, <2>3 DEF Commit
  <2>5. ASSUME NEW q \in Put, put'[q].pc = "delete"
        PROVE  rows' \subseteq put'[q].unlocked \cup put'[q].deleted \cup put'[q].missed
    <3>1. q # p
      BY <1>3, <2>5 DEF Commit, Transaction
    <3>2. put[q].pc = "delete"
      BY <1>3, <2>5, <3>1 DEF Commit
    <3>3. put'[q] = [put[q] EXCEPT !.missed = @ \cup Inserted(p)]
      BY <1>3, <3>1, <3>2 DEF Commit
    <3>4. /\ put'[q].unlocked = put[q].unlocked
          /\ put'[q].deleted = put[q].deleted
          /\ put'[q].missed = put[q].missed \cup Inserted(p)
      BY <3>3 DEF Transaction
    <3> QED BY <1>3, <3>2, <3>4 DEF Commit
  <2>6. rows' \subseteq Put
    BY <1>3, <2>1 DEF Commit
  <2> QED BY <2>4, <2>5, <2>6
<1>4. ASSUME NEW p \in Put, Abort(p) PROVE PutsInv'
  BY <1>4 DEF Abort, Transaction
<1>5. CASE UNCHANGED putVars
  BY <1>5 DEF putVars
<1> QED BY <1>1, <1>2, <1>3, <1>4, <1>5 DEF PutsNext

\* A PUT that commits has deleted all it accounts for, save what it has missed.
LEMMA CommitReplaces ==
    ASSUME PutsInv, [PutsNext]_putVars, NEW p \in Put, put[p].pc = "delete", put'[p].pc = "committed"
    PROVE  rows' \subseteq Inserted(p) \cup put[p].missed
<1> USE DEF PutsInv, TypeOK
<1>1. Commit(p)
  <2>1. \A q \in Put : StartDelete(q) => FALSE
    BY DEF StartDelete, Transaction
  <2>2. \A q \in Put : Abort(q) => FALSE
    BY DEF Abort, Transaction
  <2>3. \A q \in Put, r \in Put : DeleteRow(q, r) => FALSE
    BY DEF DeleteRow, Transaction
  <2>4. \A q \in Put : Commit(q) => q = p
    BY DEF Commit, Transaction
  <2> QED BY <2>1, <2>2, <2>3, <2>4 DEF PutsNext, putVars
<1> QED BY <1>1 DEF Commit, RowsAreAccountedFor

\* However PUTs overlap, one that commits has replaced every list but those
\* committed since its DELETE began (strategy.service.ts:116-139).
THEOREM PutReplaces == PutsSpec => ReplacesWhatItSaw
<1>1. PutsInit => PutsInv
  BY DEF PutsInit, PutsInv, TypeOK, RowsAreAccountedFor, Transaction
<1>2. PutsInv /\ [PutsNext]_putVars =>
        [\A p \in Put : put[p].pc = "delete" /\ put'[p].pc = "committed"
            => rows' \subseteq Inserted(p) \cup put[p].missed]_putVars
  BY CommitReplaces
<1> QED BY <1>1, <1>2, PutsInvStep, PTL DEF PutsSpec, ReplacesWhatItSaw

-----------------------------------------------------------------------------
(* Evaluation. *)

\* Whoever a flag is on for stays among them when more is told about them.
LEMMA EvaluateMonotone ==
    ASSUME NEW enabled, NEW strategies, NEW types, NEW ctx, NEW f,
           EvaluateFlag(enabled, strategies, types, [g \in DOMAIN ctx \ {f} |-> ctx[g]])
    PROVE  EvaluateFlag(enabled, strategies, types, ctx)
<1> DEFINE less == [g \in DOMAIN ctx \ {f} |-> ctx[g]]
<1>1. ASSUME NEW c, Matches(c, types, less) PROVE Matches(c, types, ctx)
  <2>1. c.field \in DOMAIN ctx /\ less[c.field] = ctx[c.field]
    BY <1>1 DEF Matches
  <2> QED BY <1>1, <2>1 DEF Matches
<1> QED BY <1>1 DEF EvaluateFlag, StrategyMatches

\* A missing value matches nothing, so telling more about a caller closes no flag
\* (evaluate.ts:91-99, evaluateFlag).
THEOREM ContextAdds == Spec => []ContextOnlyAdds
<1>1. ContextOnlyAdds
  BY EvaluateMonotone DEF ContextOnlyAdds, IsOn
<1> QED BY <1>1, PTL

Triple == [1..3 -> Nat]

\* A parsed version has three natural parts.
LEMMA ParsedVersion ==
    ASSUME NEW v \in DOMAIN PartsOf
    PROVE  ParseVersion(v) \in Triple
  BY TransferAssumption DEF ParseVersion, Triple

\* compareTuple is the lexicographic order.
LEMMA CompareIsLexicographic ==
    ASSUME NEW a \in Triple, NEW b \in Triple
    PROVE  /\ CompareTuple(a, b) \in {-1, 0, 1}
           /\ CompareTuple(a, b) < 0
                <=> \/ a[1] < b[1]
                    \/ a[1] = b[1] /\ a[2] < b[2]
                    \/ a[1] = b[1] /\ a[2] = b[2] /\ a[3] < b[3]
<1> DEFINE differ == {i \in 1..3 : a[i] # b[i]}
<1>1. ASSUME NEW i \in differ, \A j \in differ : i <= j PROVE Min(differ) = i
  <2>1. \E x \in differ : \A y \in differ : x <= y
    BY <1>1
  <2>2. Min(differ) \in differ /\ \A y \in differ : Min(differ) <= y
    BY <2>1 DEF Min
  <2> QED BY <1>1, <2>2
<1>2. CASE a[1] # b[1]
  <2>1. Min(differ) = 1 /\ differ # {}
    BY <1>1, <1>2
  <2> QED BY <1>2, <2>1 DEF CompareTuple, Triple
<1>3. CASE a[1] = b[1] /\ a[2] # b[2]
  <2>1. Min(differ) = 2 /\ differ # {}
    BY <1>1, <1>3
  <2> QED BY <1>3, <2>1 DEF CompareTuple, Triple
<1>4. CASE a[1] = b[1] /\ a[2] = b[2] /\ a[3] # b[3]
  <2>1. Min(differ) = 3 /\ differ # {}
    BY <1>1, <1>4
  <2> QED BY <1>4, <2>1 DEF CompareTuple, Triple
<1>5. CASE \A i \in 1..3 : a[i] = b[i]
  <2>1. differ = {}
    BY <1>5
  <2> QED BY <1>5, <2>1 DEF CompareTuple, Triple
<1> QED BY <1>2, <1>3, <1>4, <1>5

\* What a caret range holds is what its base is compatible with.
LEMMA CaretRange ==
    ASSUME NEW v \in Triple, NEW base \in Triple
    PROVE  InRange(v, "^", base) <=> Compatible(v, base)
<1> DEFINE parts == {j \in 1..3 : base[j] # 0}
           Agree(i) == CompareTuple(v, base) >= 0 /\ \A j \in 1..i : v[j] = base[j]
<1>0. CaretUpper(base) \in Triple
  BY DEF CaretUpper, Triple
<1>1. /\ InRange(v, "^", base)
           <=> CompareTuple(v, base) >= 0 /\ CompareTuple(v, CaretUpper(base)) < 0
      /\ CompareTuple(v, base) >= 0
           <=> \/ v[1] > base[1]
               \/ v[1] = base[1] /\ v[2] > base[2]
               \/ v[1] = base[1] /\ v[2] = base[2] /\ v[3] >= base[3]
  BY CompareIsLexicographic DEF InRange, Triple
<1>2. ASSUME NEW i \in parts, \A j \in parts : i <= j
      PROVE  Compatible(v, base) <=> Agree(i)
  <2>1. Min(parts) \in parts /\ \A y \in parts : Min(parts) <= y
    BY <1>2 DEF Min
  <2>2. Min(parts) = i
    BY <1>2, <2>1
  <2> QED BY <1>2, <2>2 DEF Compatible
<1>3. CASE base[1] > 0
  <2>1. Compatible(v, base) <=> Agree(1)
    BY <1>2, <1>3
  <2>2. CaretUpper(base) = <<base[1] + 1, 0, 0>>
    BY <1>3 DEF CaretUpper
  <2>3. CompareTuple(v, CaretUpper(base)) < 0 <=> v[1] < base[1] + 1
    BY <1>0, <2>2, CompareIsLexicographic DEF Triple
  <2> QED BY <1>1, <2>1, <2>3 DEF Triple
<1>4. CASE base[1] = 0 /\ base[2] > 0
  <2>1. Compatible(v, base) <=> Agree(2)
    BY <1>2, <1>4
  <2>2. CaretUpper(base) = <<0, base[2] + 1, 0>>
    BY <1>4 DEF CaretUpper
  <2>3. CompareTuple(v, CaretUpper(base)) < 0 <=> v[1] = 0 /\ v[2] < base[2] + 1
    BY <1>0, <2>2, CompareIsLexicographic DEF Triple
  <2> QED BY <1>1, <1>4, <2>1, <2>3 DEF Triple
<1>5. CASE base[1] = 0 /\ base[2] = 0
  <2>1. Compatible(v, base) <=> Agree(3)
    <3>1. CASE base[3] # 0
      BY <1>2, <1>5, <3>1
    <3>2. CASE base[3] = 0
      <4>1. ~ \E j \in 1..3 : base[j] # 0
        BY <1>5, <3>2
      <4> QED BY <4>1 DEF Compatible
    <3> QED BY <3>1, <3>2
  <2>2. CaretUpper(base) = <<0, 0, base[3] + 1>>
    BY <1>5 DEF CaretUpper, Triple
  <2>3. CompareTuple(v, CaretUpper(base)) < 0 <=> v[1] = 0 /\ v[2] = 0 /\ v[3] < base[3] + 1
    BY <1>0, <2>2, CompareIsLexicographic DEF Triple
  <2> QED BY <1>1, <1>5, <2>1, <2>3 DEF Triple
<1> QED BY <1>3, <1>4, <1>5 DEF Triple

\* versionSatisfies: a caret range holds the versions compatible with its base
\* (evaluate.ts:53-69).
THEOREM Carets == Spec => []CaretIsCompatible
<1>1. CaretIsCompatible
  BY ParsedVersion, CaretRange DEF CaretIsCompatible, VersionSatisfies
<1> QED BY <1>1, PTL

-----------------------------------------------------------------------------
(* Sequences. *)

\* Every non-empty set of natural numbers has a least element.
LEMMA LeastNatural ==
    ASSUME NEW S \in SUBSET Nat, S # {}
    PROVE  \E n \in S : \A m \in S : n <= m
<1>1. PICK x \in S : \A y \in S : ~ (<<y, x>> \in OpToRel(<, Nat))
  BY NatLessThanWellFounded, WFMin
<1>2. \A y \in S : ~ (y < x)
  BY <1>1 DEF OpToRel
<1> QED BY <1>2

\* A set of numbers that holds 0 and, with a number below n, the next, holds n.
LEMMA UpTo ==
    ASSUME NEW n \in Nat, NEW S, 0 \in S, \A i \in 0..(n - 1) : i \in S => i + 1 \in S
    PROVE  n \in S
<1> DEFINE Bad == {i \in 0..n : i \notin S}
<1>1. Bad \in SUBSET Nat
  OBVIOUS
<1>2. ASSUME Bad # {} PROVE FALSE
  <2>1. PICK i \in Bad : \A m \in Bad : i <= m
    <3> HIDE DEF Bad
    <3> QED BY <1>1, <1>2, LeastNatural
  <2>2. i # 0 /\ i - 1 \in 0..(n - 1) /\ i - 1 \notin Bad
    BY <2>1
  <2> QED BY <2>1, <2>2
<1> QED BY <1>2

\* The function of FlattenSeq: what the first i sequences make together.
Flat(seqs, f) ==
    f = [i \in 1..Len(seqs) |-> IF i = 1 THEN seqs[i] ELSE f[i-1] \o seqs[i]]

\* FlattenSeq is the end of the running concatenation of its argument.
LEMMA FlattenIsFlat ==
    ASSUME NEW seqs, Len(seqs) \in Nat \ {0}
    PROVE  \E f : Flat(seqs, f) /\ FlattenSeq(seqs) = f[Len(seqs)]
<1> DEFINE n == Len(seqs)
           Part(m, f) == f = [i \in 1..m |-> IF i = 1 THEN seqs[i] ELSE f[i-1] \o seqs[i]]
           Parts == {m \in 0..n : m # 0 => \E f : Part(m, f)}
<1>1. 0 \in Parts
  OBVIOUS
<1>2. ASSUME NEW m \in 0..(n - 1), m \in Parts PROVE m + 1 \in Parts
  <2>1. PICK f : m # 0 => Part(m, f)
    BY <1>2
  <2> DEFINE last == IF m = 0 THEN seqs[m+1] ELSE f[m] \o seqs[m+1]
             g == [i \in 1..(m+1) |-> IF i = m + 1 THEN last ELSE f[i]]
  <2>2. ASSUME NEW i \in 1..(m+1)
        PROVE  g[i] = IF i = 1 THEN seqs[i] ELSE g[i-1] \o seqs[i]
    <3>1. CASE i = m + 1
      BY <3>1
    <3>2. CASE i # m + 1
      <4>1. i \in 1..m /\ g[i] = f[i] /\ (i # 1 => g[i-1] = f[i-1])
        BY <3>2
      <4>2. Part(m, f)
        <5>1. m # 0
          BY <4>1
        <5> HIDE DEF Part
        <5> QED BY <2>1, <5>1
      <4>3. f[i] = IF i = 1 THEN seqs[i] ELSE f[i-1] \o seqs[i]
        BY <4>1, <4>2
      <4> QED BY <4>1, <4>3
    <3> QED BY <3>1, <3>2
  <2>3. Part(m + 1, g)
    BY <2>2
  <2> HIDE DEF Part, g
  <2> QED BY <1>2, <2>3
<1>3. \E f : Part(n, f)
  <2>1. n \in Parts
    <3> HIDE DEF Parts
    <3> QED BY <1>1, <1>2, UpTo
  <2> QED BY <2>1
<1>4. FlattenSeq(seqs) = (CHOOSE f : Part(n, f))[n]
  BY DEF FlattenSeq
<1>5. Part(n, CHOOSE f : Part(n, f))
  <2> HIDE DEF Part
  <2> QED BY <1>3
<1> QED BY <1>4, <1>5 DEF Flat

\* The running concatenation, one element on.
LEMMA FlatStep ==
    ASSUME NEW seqs, NEW f, Flat(seqs, f), Len(seqs) \in Nat, NEW i \in 0..(Len(seqs) - 1)
    PROVE  f[i+1] = IF i = 0 THEN seqs[i+1] ELSE f[i] \o seqs[i+1]
<1>1. i + 1 \in 1..Len(seqs) /\ (i + 1) - 1 = i /\ (i + 1 = 1 <=> i = 0)
  OBVIOUS
<1>2. f[i+1] = IF i + 1 = 1 THEN seqs[i+1] ELSE f[(i+1)-1] \o seqs[i+1]
  BY <1>1 DEF Flat
<1> QED BY <1>1, <1>2

\* What i of the sequences make together has their elements, and no others.
LEMMA FlatPrefix ==
    ASSUME NEW S, NEW seqs \in Seq(Seq(S)), NEW f, Flat(seqs, f), NEW i \in 1..Len(seqs)
    PROVE  /\ f[i] \in Seq(S)
           /\ \A n \in DOMAIN f[i] : \E m \in 1..i : f[i][n] \in Range(seqs[m])
           /\ \A m \in 1..i : Range(seqs[m]) \subseteq Range(f[i])
<1> DEFINE P(j) == /\ f[j] \in Seq(S)
                   /\ \A n \in DOMAIN f[j] : \E m \in 1..j : f[j][n] \in Range(seqs[m])
                   /\ \A m \in 1..j : Range(seqs[m]) \subseteq Range(f[j])
           Good == {j \in 0..i : j # 0 => P(j)}
<1>1. 0 \in Good
  OBVIOUS
<1>2. ASSUME NEW j \in 0..(i - 1), j \in Good PROVE j + 1 \in Good
  <2>0. j + 1 \in 1..Len(seqs) /\ seqs[j+1] \in Seq(S) /\ j \in 0..(Len(seqs) - 1)
       /\ Len(seqs) \in Nat
    OBVIOUS
  <2>1. f[j+1] = IF j = 0 THEN seqs[j+1] ELSE f[j] \o seqs[j+1]
    BY <2>0, FlatStep
  <2>2. CASE j = 0
    <3>1. f[j+1] = seqs[j+1]
      BY <2>1, <2>2
    <3>2. \A n \in DOMAIN seqs[j+1] : seqs[j+1][n] \in Range(seqs[j+1])
      BY DEF Range
    <3>3. j + 1 \in 1..(j+1) /\ \A m \in 1..(j+1) : m = j + 1
      BY <2>2
    <3>4. P(j+1)
      BY <2>0, <3>1, <3>2, <3>3
    <3> QED BY <3>4
  <2>3. CASE j # 0
    <3>1. P(j) /\ f[j+1] = f[j] \o seqs[j+1]
      BY <1>2, <2>1, <2>3
    <3>2. f[j+1] \in Seq(S)
      BY <2>0, <3>1
    <3>3. ASSUME NEW n \in DOMAIN f[j+1] PROVE \E m \in 1..(j+1) : f[j+1][n] \in Range(seqs[m])
      <4>0. f[j] \in Seq(S) /\ f[j+1] = f[j] \o seqs[j+1]
        BY <3>1
      <4>a. /\ Len(f[j+1]) = Len(f[j]) + Len(seqs[j+1])
            /\ \A x \in 1..(Len(f[j]) + Len(seqs[j+1])) :
                 f[j+1][x] = IF x <= Len(f[j]) THEN f[j][x] ELSE seqs[j+1][x - Len(f[j])]
        <5> DEFINE l == f[j]  r == seqs[j+1]
        <5>1. l \in Seq(S) /\ r \in Seq(S) /\ f[j+1] = l \o r
          BY <2>0, <4>0
        <5> HIDE DEF l, r
        <5>2. /\ Len(l \o r) = Len(l) + Len(r)
              /\ \A x \in 1..(Len(l) + Len(r)) :
                   (l \o r)[x] = IF x <= Len(l) THEN l[x] ELSE r[x - Len(l)]
          BY <5>1, ConcatProperties
        <5> QED BY <5>1, <5>2 DEF l, r
      <4>b. Len(f[j]) \in Nat /\ Len(seqs[j+1]) \in Nat
        BY <2>0, <4>0
      <4>c. DOMAIN f[j+1] = 1..Len(f[j+1])
        BY <3>2
      <4>1. /\ n \in 1..(Len(f[j]) + Len(seqs[j+1]))
            /\ f[j+1][n] = IF n <= Len(f[j]) THEN f[j][n] ELSE seqs[j+1][n - Len(f[j])]
        BY <3>3, <4>a, <4>c
      <4>2. CASE n <= Len(f[j])
        <5>1. n \in DOMAIN f[j] /\ f[j+1][n] = f[j][n]
          BY <2>0, <4>0, <4>1, <4>2
        <5> QED BY <3>1, <5>1
      <4>3. CASE n > Len(f[j])
        <5>1. n - Len(f[j]) \in DOMAIN seqs[j+1] /\ f[j+1][n] = seqs[j+1][n - Len(f[j])]
          <6>1. DOMAIN seqs[j+1] = 1..Len(seqs[j+1])
            BY <2>0
          <6> DEFINE l == Len(f[j])  r == Len(seqs[j+1])
          <6>2. l \in Nat /\ r \in Nat /\ n \in 1..(l + r) /\ n > l
            BY <4>b, <4>1, <4>3
          <6> HIDE DEF l, r
          <6>3. n - l \in 1..r /\ ~(n <= l)
            BY <6>2
          <6> USE DEF l, r
          <6> QED BY <4>1, <6>1, <6>3
        <5>2. seqs[j+1][n - Len(f[j])] \in Range(seqs[j+1])
          BY <5>1 DEF Range
        <5>3. j + 1 \in 1..(j+1)
          OBVIOUS
        <5> QED BY <5>1, <5>2, <5>3
      <4> QED BY <3>1, <4>1, <4>2, <4>3
    <3>4. Range(f[j+1]) = Range(f[j]) \cup Range(seqs[j+1])
      BY <2>0, <3>1, RangeConcatenation
    <3>5. ASSUME NEW m \in 1..(j+1) PROVE Range(seqs[m]) \subseteq Range(f[j+1])
      <4>1. m = j + 1 \/ m \in 1..j
        OBVIOUS
      <4> QED BY <3>1, <3>4, <4>1
    <3>6. P(j+1)
      BY <3>2, <3>3, <3>5
    <3> QED BY <3>6
  <2> QED BY <2>2, <2>3
<1> HIDE DEF P
<1>3. i \in Good
  <2> HIDE DEF Good
  <2> QED BY <1>1, <1>2, UpTo
<1>4. P(i)
  BY <1>3
<1> QED BY <1>4 DEF P

\* FlattenSeq makes a sequence of the elements of its sequences.
LEMMA FlattenElements ==
    ASSUME NEW S, NEW seqs \in Seq(Seq(S))
    PROVE  /\ FlattenSeq(seqs) \in Seq(S)
           /\ Range(FlattenSeq(seqs)) = UNION {Range(seqs[m]) : m \in DOMAIN seqs}
<1>1. CASE Len(seqs) = 0
  <2>1. seqs = <<>>
    BY <1>1, EmptySeq
  <2> QED BY <1>1, <2>1 DEF FlattenSeq, Range
<1>2. CASE Len(seqs) # 0
  <2>1. PICK f : Flat(seqs, f) /\ FlattenSeq(seqs) = f[Len(seqs)]
    BY <1>2, FlattenIsFlat
  <2>2. /\ f[Len(seqs)] \in Seq(S)
        /\ \A n \in DOMAIN f[Len(seqs)] :
             \E m \in 1..Len(seqs) : f[Len(seqs)][n] \in Range(seqs[m])
        /\ \A m \in 1..Len(seqs) : Range(seqs[m]) \subseteq Range(f[Len(seqs)])
    BY <1>2, <2>1, FlatPrefix
  <2> DEFINE g == f[Len(seqs)]
  <2>3. Range(g) \subseteq UNION {Range(seqs[m]) : m \in DOMAIN seqs}
    BY <2>2 DEF Range
  <2>4. UNION {Range(seqs[m]) : m \in DOMAIN seqs} \subseteq Range(g)
    <3>1. \A m \in DOMAIN seqs : Range(seqs[m]) \subseteq Range(g)
      <4>1. DOMAIN seqs = 1..Len(seqs)
        OBVIOUS
      <4> QED BY <2>2, <4>1
    <3> HIDE DEF g
    <3> QED BY <3>1
  <2> QED BY <2>1, <2>2, <2>3, <2>4
<1> QED BY <1>1, <1>2

\* If only one of the sequences has elements, FlattenSeq makes that one.
LEMMA FlattenOne ==
    ASSUME NEW S, NEW seqs \in Seq(Seq(S)), NEW j \in DOMAIN seqs,
           \A i \in DOMAIN seqs \ {j} : seqs[i] = <<>>
    PROVE  FlattenSeq(seqs) = seqs[j]
<1> DEFINE n == Len(seqs)
           Good(f) == {i \in 0..n : i # 0 => f[i] = IF i < j THEN <<>> ELSE seqs[j]}
<1>0. \A x \in Seq(S) : <<>> \o x = x /\ x \o <<>> = x
  OBVIOUS
<1>1. j \in 1..n /\ seqs[j] \in Seq(S) /\ n # 0
  OBVIOUS
<1>2. PICK f : Flat(seqs, f) /\ FlattenSeq(seqs) = f[n]
  BY <1>1, FlattenIsFlat
<1>3. ASSUME NEW i \in 0..(n - 1), i \in Good(f) PROVE i + 1 \in Good(f)
  <2>0. Len(seqs) \in Nat /\ i \in 0..(Len(seqs) - 1)
    OBVIOUS
  <2>1. f[i+1] = IF i = 0 THEN seqs[i+1] ELSE f[i] \o seqs[i+1]
    BY ONLY <1>2, <2>0, FlatStep
  <2>2. seqs[i+1] = IF i + 1 = j THEN seqs[j] ELSE <<>>
    OBVIOUS
  <2>3. CASE i = 0
    BY <1>1, <2>1, <2>2, <2>3
  <2>4. CASE i # 0
    <3>1. f[i] = IF i < j THEN <<>> ELSE seqs[j]
      BY <1>3, <2>4
    <3>0. f[i+1] = f[i] \o seqs[i+1] /\ <<>> \in Seq(S)
      BY <2>1, <2>4, EmptySeq
    <3>2. CASE i + 1 < j
      <4>1. f[i] = <<>> /\ seqs[i+1] = <<>>
        BY <2>2, <3>1, <3>2
      <4> QED BY <1>0, <3>0, <3>2, <4>1
    <3>3. CASE i + 1 = j
      <4>1. f[i] = <<>> /\ seqs[i+1] = seqs[j]
        BY <2>2, <3>1, <3>3
      <4> QED BY <1>0, <1>1, <3>0, <3>3, <4>1
    <3>4. CASE i + 1 > j
      <4>1. f[i] = seqs[j] /\ seqs[i+1] = <<>>
        BY <1>1, <2>2, <3>1, <3>4
      <4> QED BY <1>0, <1>1, <3>0, <3>4, <4>1
    <3> QED BY <1>1, <3>2, <3>3, <3>4
  <2> QED BY <2>3, <2>4
<1>4. n \in Good(f)
  <2>1. 0 \in Good(f)
    OBVIOUS
  <2> HIDE DEF Good
  <2> QED BY <1>3, <2>1, UpTo
<1> QED BY <1>1, <1>2, <1>4

-----------------------------------------------------------------------------
(* What one import makes of a project. *)

\* A project is a record of functions, whatever their values.
Shape(p) ==
    /\ p = [fields |-> p.fields, envs |-> p.envs, protected |-> p.protected,
            approval |-> p.approval, default |-> p.default, flags |-> p.flags]
    /\ p.fields = [f \in DOMAIN p.fields |-> p.fields[f]]
    /\ p.flags = [k \in DOMAIN p.flags |-> p.flags[k]]
    /\ \A k \in DOMAIN p.flags :
          /\ p.flags[k] = [row |-> p.flags[k].row, strategies |-> p.flags[k].strategies]
          /\ p.flags[k].row = [s \in DOMAIN p.flags[k].row |-> p.flags[k].row[s]]
          /\ p.flags[k].strategies = [s \in p.envs |-> p.flags[k].strategies[s]]

\* A project has the shape that the lemmas about imports need.
LEMMA ProjectHasShape == ASSUME NEW p, IsProject(p) PROVE Shape(p)
<1>1. ASSUME NEW k \in DOMAIN p.flags
      PROVE  /\ p.flags[k] = [row |-> p.flags[k].row, strategies |-> p.flags[k].strategies]
             /\ p.flags[k].row = [s \in DOMAIN p.flags[k].row |-> p.flags[k].row[s]]
             /\ p.flags[k].strategies = [s \in p.envs |-> p.flags[k].strategies[s]]
  BY DEF IsProject, IsFlag
<1> QED BY <1>1 DEF IsProject, AreFields, Shape

\* An import leaves the environments and the settings, and writes the flags it names.
LEMMA AfterImport ==
    ASSUME NEW p, Shape(p), NEW doc, NEW a
    PROVE  LET q == ProjectAfter(p, doc, a) IN
           /\ q = [fields |-> FieldsAfter(p, doc), envs |-> p.envs, protected |-> p.protected,
                   approval |-> p.approval, default |-> p.default, flags |-> q.flags]
           /\ q.flags = [k \in DOMAIN p.flags \cup Flags(doc) |->
                IF k \in Flags(doc) THEN FlagAfter(p, FieldsAfter(p, doc), a, doc, k)
                ELSE p.flags[k]]
<1> DEFINE u == FieldsAfter(p, doc)
           w == Over([k \in Flags(doc) |-> FlagAfter(p, u, a, doc, k)], p.flags)
           q == ProjectAfter(p, doc, a)
<1>1. q = [p EXCEPT !.fields = u, !.flags = w]
  BY DEF ProjectAfter
<1>2. p \in [fields : {p.fields}, envs : {p.envs}, protected : {p.protected},
             approval : {p.approval}, default : {p.default}, flags : {p.flags}]
  BY DEF Shape
<1>3. w = [k \in DOMAIN p.flags \cup Flags(doc) |->
             IF k \in Flags(doc) THEN FlagAfter(p, u, a, doc, k) ELSE p.flags[k]]
  BY DEF Over
<1> HIDE DEF u, w, q
<1>4. PICK r : r = [p EXCEPT !.fields = u]
  OBVIOUS
<1>5. r = [fields |-> u, envs |-> p.envs, protected |-> p.protected,
           approval |-> p.approval, default |-> p.default, flags |-> p.flags]
  BY <1>4 DEF Shape
<1>8. [r EXCEPT !.flags = w]
        = [fields |-> u, envs |-> p.envs, protected |-> p.protected,
           approval |-> p.approval, default |-> p.default, flags |-> w]
  BY <1>5
<1>6. q = [r EXCEPT !.flags = w]
  BY <1>1, <1>2, <1>4
<1>7. q = [fields |-> u, envs |-> p.envs, protected |-> p.protected,
           approval |-> p.approval, default |-> p.default, flags |-> w]
  BY <1>6, <1>8
<1> QED BY <1>3, <1>7 DEF u, q

\* The project after an import, field by field.
LEMMA AfterImportFields ==
    ASSUME NEW p, Shape(p), NEW doc, NEW a
    PROVE  LET q == ProjectAfter(p, doc, a) IN
           /\ q.fields = FieldsAfter(p, doc) /\ q.envs = p.envs
           /\ q.protected = p.protected /\ q.approval = p.approval /\ q.default = p.default
           /\ DOMAIN q.flags = DOMAIN p.flags \cup Flags(doc)
           /\ \A k \in DOMAIN q.flags :
                q.flags[k] = IF k \in Flags(doc)
                             THEN FlagAfter(p, FieldsAfter(p, doc), a, doc, k) ELSE p.flags[k]
<1> DEFINE q == ProjectAfter(p, doc, a)
           After(k) == IF k \in Flags(doc)
                       THEN FlagAfter(p, FieldsAfter(p, doc), a, doc, k) ELSE p.flags[k]
           fields == FieldsAfter(p, doc)
<1>1. /\ q = [fields |-> fields, envs |-> p.envs, protected |-> p.protected,
              approval |-> p.approval, default |-> p.default, flags |-> q.flags]
      /\ q.flags = [k \in DOMAIN p.flags \cup Flags(doc) |-> After(k)]
  BY AfterImport
<1> HIDE DEF q, After, fields
<1>2. /\ q.fields = fields /\ q.envs = p.envs
      /\ q.protected = p.protected /\ q.approval = p.approval /\ q.default = p.default
      /\ DOMAIN q.flags = DOMAIN p.flags \cup Flags(doc)
      /\ \A k \in DOMAIN q.flags : q.flags[k] = After(k)
  BY <1>1
<1> QED BY <1>2 DEF q, After, fields

\* The flag an import leaves is one, as before.
LEMMA FlagShape ==
    ASSUME NEW p, Shape(p), NEW doc, NEW a, NEW fields, NEW k \in DOMAIN p.flags \cup Flags(doc)
    PROVE  LET f == IF k \in Flags(doc) THEN FlagAfter(p, fields, a, doc, k) ELSE p.flags[k] IN
           /\ f = [row |-> f.row, strategies |-> f.strategies]
           /\ f.row = [s \in DOMAIN f.row |-> f.row[s]]
           /\ f.strategies = [s \in p.envs |-> f.strategies[s]]
<1> DEFINE f == IF k \in Flags(doc) THEN FlagAfter(p, fields, a, doc, k) ELSE p.flags[k]
<1>1. f \in {p.flags[k], Created(p, fields, a, doc, k), Updated(p, fields, a, doc, k)}
  BY DEF FlagAfter
<1>2. CASE f = Created(p, fields, a, doc, k)
  BY <1>2 DEF Created
<1>3. CASE f = Updated(p, fields, a, doc, k)
  BY <1>3 DEF Updated
<1>4. CASE f = p.flags[k] /\ k \in DOMAIN p.flags
  BY <1>4 DEF Shape
<1>5. k \notin DOMAIN p.flags => f = Created(p, fields, a, doc, k)
  BY DEF FlagAfter
<1> QED BY <1>1, <1>2, <1>3, <1>4, <1>5

\* An import keeps a project's shape.
LEMMA ImportHasShape ==
    ASSUME NEW p, Shape(p), NEW doc, NEW a
    PROVE  Shape(ProjectAfter(p, doc, a))
<1> DEFINE q == ProjectAfter(p, doc, a)
           fields == FieldsAfter(p, doc)
           After(k) == IF k \in Flags(doc) THEN FlagAfter(p, fields, a, doc, k) ELSE p.flags[k]
<1>1. /\ q = [fields |-> fields, envs |-> p.envs, protected |-> p.protected,
              approval |-> p.approval, default |-> p.default, flags |-> q.flags]
      /\ q.flags = [k \in DOMAIN p.flags \cup Flags(doc) |-> After(k)]
  BY AfterImport
<1>2. fields = [f \in DOMAIN fields |-> fields[f]]
  BY DEF FieldsAfter, Over
<1>3. ASSUME NEW k \in DOMAIN q.flags
      PROVE  /\ q.flags[k] = [row |-> q.flags[k].row, strategies |-> q.flags[k].strategies]
             /\ q.flags[k].row = [s \in DOMAIN q.flags[k].row |-> q.flags[k].row[s]]
             /\ q.flags[k].strategies = [s \in p.envs |-> q.flags[k].strategies[s]]
  <2>1. k \in DOMAIN p.flags \cup Flags(doc) /\ q.flags[k] = After(k)
    BY <1>1, <1>3
  <2> HIDE DEF q
  <2> QED BY <2>1, FlagShape
<1> HIDE DEF q, fields, After
<1>4. /\ q.fields = fields /\ q.envs = p.envs /\ q.protected = p.protected
      /\ q.approval = p.approval /\ q.default = p.default
  BY <1>1
<1>5. q.flags = [k \in DOMAIN q.flags |-> q.flags[k]]
  BY <1>1
<1>6. Shape(q)
  BY <1>1, <1>2, <1>3, <1>4, <1>5 DEF Shape
<1> QED BY <1>6 DEF q

\* Once an import ran, the project is what the document made of the one before.
Imported ==
    /\ Shape(local)
    /\ Done => /\ Shape(before)
               /\ local = ProjectAfter(before, document, args)
               /\ report = Report(before, document, args)

\* A step keeps Imported.
LEMMA ImportedStep == Imported /\ [Next]_vars => Imported'
<1> SUFFICES ASSUME Imported, [Next]_vars PROVE Imported'
  OBVIOUS
<1>1. CASE ~Done' /\ local' = local
  BY <1>1 DEF Imported, Shape
<1>2. CASE UNCHANGED vars
  BY <1>2 DEF Imported, Done, vars
<1>3. ASSUME NEW x, x = args', Apply(x), document' = document PROVE Imported'
  <2>1. Shape(ProjectAfter(local, document, x)) /\ Shape(local)
    BY ImportHasShape DEF Imported
  <2> QED BY <1>3, <2>1 DEF Imported, Apply
<1>4. CASE Import
  <2>1. CASE stage' = "refused"
    BY <1>4, <2>1, <1>1 DEF Import, Done, Apply
  <2>2. CASE stage' # "refused"
    BY <1>4, <2>2, <1>3 DEF Import
  <2> QED BY <2>1, <2>2
<1>5. CASE ImportAgain
  BY <1>5, <1>3 DEF ImportAgain
<1>6. CASE ExportNative \/ ExportUnleash \/ ReceiveUnleash \/ RepeatFlags \/ Convert
  BY <1>6, <1>1
     DEF ExportNative, ExportUnleash, ReceiveUnleash, RepeatFlags, Convert, Done
<1> QED BY <1>2, <1>4, <1>5, <1>6 DEF Next

\* Imported holds in every state.
LEMMA AlwaysImported == Spec => []Imported
<1>1. Init => Imported
  BY TransferAssumption, ProjectHasShape DEF Init, Imported, Done
<1> QED BY <1>1, ImportedStep, PTL DEF Spec

\* The state of a flag in an environment, or that there is none.
Kept(p, q, k, slug) ==
    StateIn(q, k, slug) = IF k \in DOMAIN p.flags THEN StateIn(p, k, slug) ELSE FALSE

\* No import changes a state behind the approval flow.
LEMMA GuardedKeeps ==
    ASSUME NEW p, Shape(p), NEW doc, NEW a, NEW k \in DOMAIN p.flags \cup Flags(doc),
           NEW slug \in p.envs, Guarded(p, slug)
    PROVE  Kept(p, ProjectAfter(p, doc, a), k, slug)
<1> DEFINE q == ProjectAfter(p, doc, a)
           fields == FieldsAfter(p, doc)
<1>1. q.flags[k] = IF k \in Flags(doc) THEN FlagAfter(p, fields, a, doc, k) ELSE p.flags[k]
  BY AfterImportFields
<1>2. \A x : StateAfter(p, a, doc, k, slug, x) = x
  BY DEF StateAfter
<1> HIDE DEF q, fields
<1>3. CASE k \notin DOMAIN p.flags
  <2>1. q.flags[k] = Created(p, fields, a, doc, k)
    BY <1>1, <1>3 DEF FlagAfter
  <2>2. /\ slug \in DOMAIN q.flags[k].row
        /\ q.flags[k].row[slug] = InitialEnabled(p, slug)
    BY <1>2, <2>1 DEF Created
  <2>3. InitialEnabled(p, slug) = FALSE
    BY DEF Guarded, InitialEnabled
  <2> QED BY <1>3, <2>2, <2>3 DEF Kept, StateIn, q
<1>4. CASE k \in DOMAIN p.flags
  <2>1. q.flags[k] = p.flags[k] \/ q.flags[k] = Updated(p, fields, a, doc, k)
    BY <1>1, <1>4 DEF FlagAfter
  <2>2. CASE q.flags[k] = p.flags[k]
    BY <1>4, <2>2 DEF Kept, StateIn, q
  <2>3. CASE q.flags[k] = Updated(p, fields, a, doc, k)
    <3>1. q.flags[k].row = [s \in DOMAIN p.flags[k].row |->
                              StateAfter(p, a, doc, k, s, p.flags[k].row[s])]
      BY <2>3 DEF Updated
    <3>2. /\ DOMAIN q.flags[k].row = DOMAIN p.flags[k].row
          /\ slug \in DOMAIN p.flags[k].row => q.flags[k].row[slug] = p.flags[k].row[slug]
      BY <1>2, <3>1
    <3> QED BY <1>4, <3>2 DEF Kept, StateIn, q
  <2> QED BY <2>1, <2>2, <2>3
<1> QED BY <1>3, <1>4

\* applyImport: no file opens or closes a flag in an environment behind the
\* approval flow, and a flag it creates is closed there (transfer.service.ts:305-333).
THEOREM ApprovalHolds == Spec => []ApprovalKeepsState
<1>1. Imported => ApprovalKeepsState
  <2> SUFFICES ASSUME Imported, Done, NEW k \in DOMAIN local.flags,
                      NEW slug \in local.envs, NeedsApproval(slug)
               PROVE  Kept(before, local, k, slug)
    BY DEF ApprovalKeepsState, Kept
  <2>1. Shape(before) /\ local = ProjectAfter(before, document, args)
    BY DEF Imported
  <2>2. local.envs = before.envs /\ DOMAIN local.flags = DOMAIN before.flags \cup Flags(document)
    BY <2>1, AfterImportFields
  <2>3. /\ Guarded(before, slug) /\ slug \in before.envs
        /\ k \in DOMAIN before.flags \cup Flags(document)
    BY <2>2 DEF NeedsApproval, Guarded
  <2> QED BY <2>1, <2>3, GuardedKeeps
<1> QED BY <1>1, AlwaysImported, PTL
-----------------------------------------------------------------------------
(* The lists a document is made of. *)

\* A set of numbers up to n has a greatest one.
LEMMA MaxIn ==
    ASSUME NEW n \in Nat, NEW S \in SUBSET (1..n), S # {}
    PROVE  Max(S) \in S /\ \A y \in S : y <= Max(S)
<1> DEFINE Below == {n - x : x \in S}
<1>0. \A x \in S : x \in Int /\ n - x \in Nat
  OBVIOUS
<1>1. Below \in SUBSET Nat /\ Below # {}
  BY <1>0
<1>2. PICK b \in Below : \A c \in Below : b <= c
  <2> HIDE DEF Below
  <2> QED BY <1>1, LeastNatural
<1>3. PICK x \in S : b = n - x
  BY <1>2
<1>4. \A y \in S : n - x <= n - y
  BY <1>2, <1>3
<1>5. \A y \in S : x >= y
  BY <1>4
<1> QED BY <1>5 DEF Max

\* SetToSeq lists each element of a finite set once.
LEMMA ListOfSet ==
    ASSUME NEW S, IsFiniteSet(S)
    PROVE  /\ SetToSeq(S) \in Seq(S) /\ Range(SetToSeq(S)) = S
           /\ \A i, j \in DOMAIN SetToSeq(S) : SetToSeq(S)[i] = SetToSeq(S)[j] => i = j
<1> DEFINE n == Cardinality(S)
           s == SetToSeq(S)
<1>1. n \in Nat /\ ExistsBijection(1..n, S)
  BY FS_CardinalityType
<1>2. PICK b : b \in Bijection(1..n, S)
  BY <1>1 DEF ExistsBijection
<1>3. b \in [1..n -> S] /\ IsInjective(b)
  BY <1>2 DEF Bijection, Injection
<1>4. s \in [1..n -> S] /\ IsInjective(s)
  <2> HIDE DEF n
  <2>1. \E f \in [1..n -> S] : IsInjective(f)
    BY <1>3
  <2> QED BY <2>1 DEF SetToSeq, n
<1> HIDE DEF s
<1>5. s \in Injection(1..n, S)
  BY <1>4, Fun_IsInj DEF IsInjective
<1>6. IsFiniteSet(1..n) /\ Cardinality(1..n) = n
  BY <1>1, FS_Interval
<1>7. s \in Surjection(1..n, S)
  BY <1>5, <1>6, FS_Injection
<1>8. Range(s) = S
  BY <1>7, Fun_SurjectionProperties
<1>9. s \in Seq(S)
  BY <1>1, <1>4
<1> QED BY <1>4, <1>8, <1>9 DEF s, IsInjective

\* A list is a sequence of its own elements.
LEMMA ListElements ==
    ASSUME NEW s, IsList(s)
    PROVE  /\ Len(s) \in Nat /\ DOMAIN s = 1..Len(s)
           /\ \A i \in DOMAIN s : s[i] \in Range(s)
  BY DEF IsList, Range

\* Among keeps what is in the set.
LEMMA AmongElements ==
    ASSUME NEW s, IsList(s), NEW S
    PROVE  /\ Among(s, S) \in Seq(Range(s) \cap S)
           /\ Range(Among(s, S)) = Range(s) \cap S
<1> DEFINE T == Range(s) \cap S
           ones == [i \in DOMAIN s |-> IF s[i] \in S THEN <<s[i]>> ELSE <<>>]
<1>1. Len(s) \in Nat /\ DOMAIN s = 1..Len(s) /\ \A i \in DOMAIN s : s[i] \in Range(s)
  BY ListElements
<1>2. ASSUME NEW i \in DOMAIN s
      PROVE  ones[i] \in Seq(T) /\ Range(ones[i]) = {s[i]} \cap S
  <2>1. CASE s[i] \in S
    <3>1. s[i] \in T /\ ones[i] = <<s[i]>>
      BY <1>1, <2>1
    <3> QED BY <2>1, <3>1 DEF Range
  <2>2. CASE s[i] \notin S
    <3>1. ones[i] = <<>>
      BY <2>2
    <3> QED BY <2>2, <3>1 DEF Range
  <2> QED BY <2>1, <2>2
<1>3. ones \in Seq(Seq(T)) /\ DOMAIN ones = DOMAIN s
  BY <1>1, <1>2
<1>4. Among(s, S) = FlattenSeq(ones)
  BY DEF Among
<1>5. UNION {Range(ones[i]) : i \in DOMAIN ones} = T
  <2>1. \A i \in DOMAIN ones : Range(ones[i]) = {s[i]} \cap S
    BY <1>2, <1>3
  <2> HIDE DEF ones
  <2> QED BY <1>3, <2>1 DEF Range
<1> HIDE DEF ones, T
<1>6. FlattenSeq(ones) \in Seq(T) /\ Range(FlattenSeq(ones)) = T
  BY <1>3, <1>5, FlattenElements
<1> QED BY <1>4, <1>6 DEF T
\* A document's flags, their environments and their strategies are lists.
IsDocument(doc) ==
    /\ IsList(doc.flags)
    /\ \A i \in DOMAIN doc.flags :
          /\ IsList(doc.flags[i].envs)
          /\ \A j \in DOMAIN doc.flags[i].envs : IsList(doc.flags[i].envs[j].strategies)

\* Entry i is the only one of flag k.
Single(doc, k, i) ==
    /\ doc.flags[i].key = k
    /\ \A m \in DOMAIN doc.flags : doc.flags[m].key = k => m = i

\* At most one name of entry i stands for the slug.
Alone(a, doc, i, slug) ==
    \A j, l \in DOMAIN doc.flags[i].envs :
        /\ Resolve(a, doc.flags[i].envs[j].name) = slug
        /\ Resolve(a, doc.flags[i].envs[l].name) = slug
        => j = l

\* The greatest of one number.
LEMMA MaxOne == ASSUME NEW i \in Nat PROVE Max({i}) = i
  BY DEF Max

\* The last word is one of those that land.
LEMMA LastWordLands ==
    ASSUME NEW doc, IsDocument(doc), NEW a, NEW k, NEW slug, Landing(a, doc, k, slug) # {}
    PROVE  \E i \in DOMAIN doc.flags : \E j \in DOMAIN doc.flags[i].envs :
              /\ doc.flags[i].key = k
              /\ Resolve(a, doc.flags[i].envs[j].name) = slug
              /\ LastWord(doc, Landing(a, doc, k, slug)) = doc.flags[i].envs[j]
              /\ \A p \in Landing(a, doc, k, slug) : p[1] <= i
<1> DEFINE landing == Landing(a, doc, k, slug)
           firsts == {p[1] : p \in landing}
           i == Max(firsts)
           seconds == {p[2] : p \in {q \in landing : q[1] = i}}
           j == Max(seconds)
<1>1. \A p \in landing : /\ p[1] \in DOMAIN doc.flags /\ p[2] \in DOMAIN doc.flags[p[1]].envs
                         /\ doc.flags[p[1]].key = k
                         /\ Resolve(a, doc.flags[p[1]].envs[p[2]].name) = slug
  BY DEF Landing
<1>2. LastWord(doc, landing) = doc.flags[i].envs[j]
  BY DEF LastWord
<1> HIDE DEF landing
<1>3. i \in firsts /\ \A y \in firsts : y <= i
  <2>1. Len(doc.flags) \in Nat /\ firsts \in SUBSET (1..Len(doc.flags))
    BY <1>1, ListElements DEF IsDocument
  <2>2. firsts # {}
    BY DEF landing
  <2> HIDE DEF firsts
  <2> QED BY <2>1, <2>2, MaxIn
<1> HIDE DEF i
<1>4. i \in DOMAIN doc.flags
  BY <1>1, <1>3
<1>5. j \in seconds
  <2>1. Len(doc.flags[i].envs) \in Nat /\ seconds \in SUBSET (1..Len(doc.flags[i].envs))
    BY <1>1, <1>4, ListElements DEF IsDocument
  <2>2. seconds # {}
    BY <1>3
  <2> HIDE DEF seconds
  <2> QED BY <2>1, <2>2, MaxIn
<1> HIDE DEF j
<1>6. PICK p \in landing : p[1] = i /\ p[2] = j
  BY <1>5
<1>7. \A q \in landing : q[1] <= i
  BY <1>3
<1> QED BY <1>1, <1>2, <1>6, <1>7 DEF landing

\* Where one name of a new flag lands, the list made is the list said last.
LEMMA OneLands ==
    ASSUME NEW doc, IsDocument(doc), NEW a, NEW fields, NEW slug,
           NEW i \in DOMAIN doc.flags, NEW k, Single(doc, k, i), Alone(a, doc, i, slug),
           Landing(a, doc, k, slug) # {}
    PROVE  Gathered(fields, a, EntryOf(doc, k).envs, slug)
             = Filter(fields, LastWord(doc, Landing(a, doc, k, slug)).strategies)
<1> DEFINE envs == doc.flags[i].envs
           lists == [j \in DOMAIN envs |->
              IF Resolve(a, envs[j].name) = slug THEN Filter(fields, envs[j].strategies) ELSE <<>>]
           S == UNION {Range(envs[j].strategies) : j \in DOMAIN envs}
<1>1. PICK j \in DOMAIN envs : /\ Resolve(a, envs[j].name) = slug
                               /\ LastWord(doc, Landing(a, doc, k, slug)) = envs[j]
  BY LastWordLands DEF Single
<1>2. EntryOf(doc, k) = doc.flags[i]
  <2>1. {m \in DOMAIN doc.flags : doc.flags[m].key = k} = {i} /\ i \in Nat
    BY ListElements DEF IsDocument, Single
  <2> QED BY <2>1, MaxOne DEF EntryOf
<1>3. ASSUME NEW l \in DOMAIN envs PROVE lists[l] \in Seq(S)
  <2>1. IsList(envs[l].strategies) /\ Range(envs[l].strategies) \subseteq S
    BY DEF IsDocument
  <2>2. Filter(fields, envs[l].strategies) \in Seq(S)
    <3> DEFINE good == {s \in Range(envs[l].strategies) : \A c \in s : ~ConstraintError(fields, c)}
    <3>1. Among(envs[l].strategies, good) \in Seq(Range(envs[l].strategies) \cap good)
      BY <2>1, AmongElements
    <3>2. Range(envs[l].strategies) \cap good \subseteq S
      BY <2>1
    <3>3. Filter(fields, envs[l].strategies) = Among(envs[l].strategies, good)
      BY DEF Filter
    <3> HIDE DEF good, S, envs
    <3> QED BY <3>1, <3>2, <3>3
  <2>3. <<>> \in Seq(S)
    OBVIOUS
  <2> QED BY <2>2, <2>3
<1>4. lists \in Seq(Seq(S)) /\ DOMAIN lists = DOMAIN envs
  <2>1. IsList(envs)
    BY DEF IsDocument
  <2>2. Len(envs) \in Nat /\ DOMAIN envs = 1..Len(envs)
    BY <2>1, ListElements
  <2> HIDE DEF S, envs
  <2> QED BY <1>3, <2>2
<1>5. \A l \in DOMAIN lists \ {j} : lists[l] = <<>>
  BY <1>1, <1>4 DEF Alone
<1>6. lists[j] = Filter(fields, envs[j].strategies)
  BY <1>1
<1> HIDE DEF lists, S
<1>7. FlattenSeq(lists) = lists[j]
  BY <1>4, <1>5, FlattenOne
<1>8. Gathered(fields, a, EntryOf(doc, k).envs, slug) = FlattenSeq(lists)
  BY <1>2 DEF Gathered, lists
<1> QED BY <1>1, <1>6, <1>7, <1>8
-----------------------------------------------------------------------------
(* The same import twice. *)

\* What the first import wrote, the second one writes again.
LEMMA UpdatedTwice ==
    ASSUME NEW p, NEW q, Shape(p), Shape(q), NEW doc, NEW a, NEW fields, NEW k,
           q.envs = p.envs, q.protected = p.protected, q.approval = p.approval,
           k \in DOMAIN q.flags, q.flags[k] = Updated(p, fields, a, doc, k)
    PROVE  Updated(q, fields, a, doc, k) = q.flags[k]
<1> DEFINE old == p.flags[k]
           new == q.flags[k]
           Landed(s) == Landing(a, doc, k, s)
           Told(s) == Filter(fields, LastWord(doc, Landed(s)).strategies)
           states == [s \in DOMAIN new.row |-> StateAfter(q, a, doc, k, s, new.row[s])]
           lists == [s \in q.envs |-> IF Landed(s) = {} THEN new.strategies[s] ELSE Told(s)]
<1>1. new = [row |-> [s \in DOMAIN old.row |-> StateAfter(p, a, doc, k, s, old.row[s])],
             strategies |-> [s \in p.envs |->
                IF Landed(s) = {} THEN old.strategies[s] ELSE Told(s)]]
  BY DEF Updated
<1>2. Updated(q, fields, a, doc, k) = [row |-> states, strategies |-> lists]
  BY DEF Updated
<1>3. \A s, x : StateAfter(q, a, doc, k, s, StateAfter(p, a, doc, k, s, x))
                  = StateAfter(p, a, doc, k, s, x)
  BY DEF StateAfter, Guarded
<1>4. /\ new = [row |-> new.row, strategies |-> new.strategies]
      /\ new.row = [s \in DOMAIN new.row |-> new.row[s]]
      /\ new.strategies = [s \in q.envs |-> new.strategies[s]]
  BY DEF Shape
<1>5. ASSUME NEW s \in DOMAIN new.row PROVE StateAfter(q, a, doc, k, s, new.row[s]) = new.row[s]
  <2>1. new.row[s] = StateAfter(p, a, doc, k, s, old.row[s])
    BY <1>1, <1>5
  <2> QED BY <1>3, <2>1
<1>6. ASSUME NEW s \in q.envs
      PROVE  (IF Landed(s) = {} THEN new.strategies[s] ELSE Told(s)) = new.strategies[s]
  BY <1>1
<1> HIDE DEF new, Landed, Told
<1>7. states = new.row
  BY <1>4, <1>5
<1>8. lists = new.strategies
  BY <1>4, <1>6
<1> HIDE DEF states, lists
<1> QED BY <1>2, <1>4, <1>7, <1>8 DEF new

\* The lists a flag was created with are those an update would leave.
LEMMA CreatedTwice ==
    ASSUME NEW p, NEW q, Shape(p), Shape(q), NEW doc, IsDocument(doc), NEW a, NEW fields,
           q.envs = p.envs, q.protected = p.protected, q.approval = p.approval,
           NEW i \in DOMAIN doc.flags, NEW k \in DOMAIN q.flags, Single(doc, k, i),
           \A s \in p.envs : Alone(a, doc, i, s),
           q.flags[k] = Created(p, fields, a, doc, k)
    PROVE  Updated(q, fields, a, doc, k) = q.flags[k]
<1> DEFINE new == q.flags[k]
           Landed(s) == Landing(a, doc, k, s)
           Told(s) == Filter(fields, LastWord(doc, Landed(s)).strategies)
           All(s) == Gathered(fields, a, EntryOf(doc, k).envs, s)
           states == [s \in DOMAIN new.row |-> StateAfter(q, a, doc, k, s, new.row[s])]
           lists == [s \in q.envs |-> IF Landed(s) = {} THEN new.strategies[s] ELSE Told(s)]
<1>1. new = [row |-> [s \in p.envs |->
                        StateAfter(p, a, doc, k, s, InitialEnabled(p, s))],
             strategies |-> [s \in p.envs |-> All(s)]]
  BY DEF Created
<1>2. Updated(q, fields, a, doc, k) = [row |-> states, strategies |-> lists]
  BY DEF Updated
<1>3. \A s, x : StateAfter(q, a, doc, k, s, StateAfter(p, a, doc, k, s, x))
                  = StateAfter(p, a, doc, k, s, x)
  BY DEF StateAfter, Guarded
<1>4. /\ new = [row |-> new.row, strategies |-> new.strategies]
      /\ new.row = [s \in DOMAIN new.row |-> new.row[s]]
      /\ new.strategies = [s \in q.envs |-> new.strategies[s]]
  BY DEF Shape
<1>5. ASSUME NEW s \in DOMAIN new.row PROVE StateAfter(q, a, doc, k, s, new.row[s]) = new.row[s]
  <2>1. new.row[s] = StateAfter(p, a, doc, k, s, InitialEnabled(p, s))
    BY <1>1, <1>5
  <2> QED BY <1>3, <2>1
<1>6. ASSUME NEW s \in q.envs
      PROVE  (IF Landed(s) = {} THEN new.strategies[s] ELSE Told(s)) = new.strategies[s]
  <2>1. Landed(s) # {} => All(s) = Told(s)
    BY OneLands
  <2>2. new.strategies[s] = All(s)
    BY <1>1
  <2> QED BY <2>1, <2>2
<1> HIDE DEF new, Landed, Told, All
<1>7. states = new.row
  BY <1>4, <1>5
<1>8. lists = new.strategies
  BY <1>4, <1>6
<1> HIDE DEF states, lists
<1> QED BY <1>2, <1>4, <1>7, <1>8 DEF new

\* A second import finds nothing to do, unless two names of a new flag share a slug.
LEMMA AgainSame ==
    ASSUME NEW p, Shape(p), NEW doc, IsDocument(doc), NEW a, ~Refused(p, doc),
           a.onConflict # "skip" =>
              \A i \in DOMAIN doc.flags : \A s \in p.envs : Alone(a, doc, i, s)
    PROVE  ProjectAfter(ProjectAfter(p, doc, a), doc, a) = ProjectAfter(p, doc, a)
<1> DEFINE q == ProjectAfter(p, doc, a)
           r == ProjectAfter(q, doc, a)
           fields == FieldsAfter(p, doc)
<1>1. /\ q.fields = fields /\ q.envs = p.envs
      /\ q.protected = p.protected /\ q.approval = p.approval /\ q.default = p.default
      /\ DOMAIN q.flags = DOMAIN p.flags \cup Flags(doc)
      /\ \A k \in DOMAIN q.flags :
           q.flags[k] = IF k \in Flags(doc) THEN FlagAfter(p, fields, a, doc, k) ELSE p.flags[k]
  BY AfterImportFields
<1>2. Shape(q)
  BY ImportHasShape
<1> HIDE DEF q, fields
<1>3. /\ r = [fields |-> FieldsAfter(q, doc), envs |-> q.envs, protected |-> q.protected,
              approval |-> q.approval, default |-> q.default, flags |-> r.flags]
      /\ DOMAIN r.flags = DOMAIN q.flags \cup Flags(doc)
      /\ r.flags = [k \in DOMAIN r.flags |-> r.flags[k]]
      /\ \A k \in DOMAIN r.flags :
           r.flags[k] = IF k \in Flags(doc) THEN FlagAfter(q, FieldsAfter(q, doc), a, doc, k)
                        ELSE q.flags[k]
  <2>1. Shape(r)
    BY <1>2, ImportHasShape
  <2>2. /\ r = [fields |-> r.fields, envs |-> r.envs, protected |-> r.protected,
                approval |-> r.approval, default |-> r.default, flags |-> r.flags]
        /\ r.flags = [k \in DOMAIN r.flags |-> r.flags[k]]
    BY <2>1 DEF Shape
  <2>3. /\ r.fields = FieldsAfter(q, doc) /\ r.envs = q.envs
        /\ r.protected = q.protected /\ r.approval = q.approval /\ r.default = q.default
        /\ DOMAIN r.flags = DOMAIN q.flags \cup Flags(doc)
        /\ \A k \in DOMAIN r.flags :
             r.flags[k] = IF k \in Flags(doc)
                          THEN FlagAfter(q, FieldsAfter(q, doc), a, doc, k) ELSE q.flags[k]
    BY <1>2, AfterImportFields
  <2> HIDE DEF r
  <2> QED BY <2>2, <2>3
<1>4. FieldsAfter(q, doc) = q.fields
  <2>1. q.fields = Over(p.fields, doc.fields)
    BY <1>1 DEF fields, FieldsAfter
  <2>2. q.fields = [x \in DOMAIN q.fields |-> q.fields[x]]
    BY <1>2 DEF Shape
  <2>3. DOMAIN q.fields \cup DOMAIN doc.fields = DOMAIN q.fields
    BY <2>1 DEF Over
  <2> QED BY <2>2, <2>3 DEF FieldsAfter, Over
<1>5. ASSUME NEW k \in Flags(doc) PROVE FlagAfter(q, fields, a, doc, k) = q.flags[k]
  <2>0. k \in DOMAIN q.flags /\ q.flags[k] = FlagAfter(p, fields, a, doc, k)
    BY <1>1
  <2>1. CASE a.onConflict = "skip"
    BY <2>0, <2>1 DEF FlagAfter
  <2>2. CASE a.onConflict # "skip" /\ k \in DOMAIN p.flags
    <3>1. q.flags[k] = Updated(p, fields, a, doc, k)
      BY <2>0, <2>2 DEF FlagAfter
    <3>2. Updated(q, fields, a, doc, k) = q.flags[k]
      BY <1>1, <1>2, <2>0, <3>1, UpdatedTwice
    <3> QED BY <2>0, <2>2, <3>2 DEF FlagAfter
  <2>3. CASE a.onConflict # "skip" /\ k \notin DOMAIN p.flags
    <3>1. q.flags[k] = Created(p, fields, a, doc, k)
      BY <2>0, <2>3 DEF FlagAfter
    <3>2. PICK i \in DOMAIN doc.flags : doc.flags[i].key = k
      BY DEF Flags
    <3>3. Single(doc, k, i)
      BY <2>3, <3>2 DEF Refused, Single
    <3>4. \A s \in p.envs : Alone(a, doc, i, s)
      BY <2>3
    <3>5. k \in DOMAIN q.flags /\ Shape(q)
          /\ q.envs = p.envs /\ q.protected = p.protected /\ q.approval = p.approval
      BY <1>1, <1>2, <2>0
    <3>6. Updated(q, fields, a, doc, k) = q.flags[k]
      BY <3>1, <3>3, <3>4, <3>5, CreatedTwice
    <3> QED BY <2>0, <2>3, <3>6 DEF FlagAfter
  <2> QED BY <2>1, <2>2, <2>3
<1>6. r.flags = q.flags
  <2>1. q.flags = [k \in DOMAIN q.flags |-> q.flags[k]]
    BY <1>2 DEF Shape
  <2>2. DOMAIN q.flags \cup Flags(doc) = DOMAIN q.flags
    BY <1>1
  <2>3. \A k \in DOMAIN q.flags : r.flags[k] = q.flags[k]
    BY <1>1, <1>3, <1>4, <1>5, <2>2
  <2> HIDE DEF r
  <2> QED BY <1>3, <2>1, <2>2, <2>3
<1>7. q = [fields |-> q.fields, envs |-> q.envs, protected |-> q.protected,
           approval |-> q.approval, default |-> q.default, flags |-> q.flags]
  BY <1>2 DEF Shape
<1> HIDE DEF r
<1>8. r = q
  BY <1>3, <1>4, <1>6, <1>7
<1> QED BY <1>8 DEF r, q
-----------------------------------------------------------------------------
(* What an export renders, and what an Unleash file is read as. *)

\* Entry i of the document names these environments, each of them once.
Names(doc, i, names) ==
    LET envs == doc.flags[i].envs IN
    /\ \A j \in DOMAIN envs : envs[j].name \in names
    /\ \A n \in names : \E j \in DOMAIN envs : envs[j].name = n
    /\ \A j, l \in DOMAIN envs : envs[j].name = envs[l].name => j = l

\* The document says of each of its flags what the project does, with no warning.
Renders(doc, o) ==
    /\ IsDocument(doc)
    /\ doc.fields = o.fields
    /\ \A i \in DOMAIN doc.flags :
          LET flag == doc.flags[i] IN
          /\ flag.key \in DOMAIN o.flags
          /\ doc.warnings[flag.key] = {}
          /\ Names(doc, i, DOMAIN o.flags[flag.key].row)
          /\ \A j \in DOMAIN flag.envs :
                /\ flag.envs[j].enabled = o.flags[flag.key].row[flag.envs[j].name]
                /\ flag.envs[j].strategies = o.flags[flag.key].strategies[flag.envs[j].name]

\* A strategy is a finite set of constraints, each with values to compare with.
IsStrategy(s) == IsFiniteSet(s) /\ \A c \in s : IsList(c.values) /\ c.values # <<>>

\* A flag's environments are finitely many, each with a list of strategies.
LEMMA FlagLists ==
    ASSUME NEW f, IsFlag(f)
    PROVE  /\ IsFiniteSet(DOMAIN f.row) /\ None \notin DOMAIN f.row
           /\ \A s \in DOMAIN f.row :
                 /\ IsList(f.strategies[s])
                 /\ \A x \in Range(f.strategies[s]) : IsStrategy(x)
<1>1. DOMAIN f.row \in SUBSET (DOMAIN f.strategies) /\ IsFiniteSet(DOMAIN f.strategies)
      /\ None \notin DOMAIN f.strategies
  BY DEF IsFlag
<1>2. IsFiniteSet(DOMAIN f.row)
  BY <1>1, FS_Subset
<1>3. ASSUME NEW s \in DOMAIN f.row
      PROVE  IsList(f.strategies[s]) /\ \A x \in Range(f.strategies[s]) : IsStrategy(x)
  <2>1. f.strategies[s] \in Seq(SUBSET Constraint)
    BY <1>1 DEF IsFlag
  <2>2. \A x \in Range(f.strategies[s]) : x \in SUBSET Constraint /\ IsFiniteSet(x)
    BY <1>1, <2>1 DEF IsFlag, Range
  <2>3. \A c \in Constraint : IsList(c.values) /\ c.values # <<>>
    BY DEF Constraint, IsList, Range
  <2> QED BY <2>1, <2>2, <2>3 DEF IsList, Range, IsStrategy
<1> QED BY <1>1, <1>2, <1>3

\* A sequence of anything is a list.
LEMMA SeqIsList == ASSUME NEW S, NEW s \in Seq(S) PROVE IsList(s)
  BY DEF IsList, Range

\* So is a function on the places of a list.
LEMMA ListOver ==
    ASSUME NEW s, IsList(s), NEW t, t = [i \in DOMAIN s |-> t[i]]
    PROVE  IsList(t)
<1>1. Len(s) \in Nat /\ DOMAIN s = 1..Len(s)
  BY ListElements
<1>2. \A i \in DOMAIN t : t[i] \in Range(t)
  BY DEF Range
<1>3. t \in [1..Len(s) -> Range(t)]
  BY <1>1, <1>2
<1> QED BY <1>1, <1>3 DEF IsList

\* The elements of a finite set, put in an order, are a list.
LEMMA SetToSeqIsList == ASSUME NEW S, IsFiniteSet(S) PROVE IsList(SetToSeq(S))
  BY ListOfSet DEF IsList

\* exportProject: an export renders the project.
LEMMA ExportRenders ==
    ASSUME NEW o, IsFiniteSet(DOMAIN o.flags), \A k \in DOMAIN o.flags : IsFlag(o.flags[k])
    PROVE  /\ Renders(Export(o), o)
           /\ Export(o) = [fields |-> o.fields, flags |-> Export(o).flags,
                           warnings |-> Export(o).warnings]
<1> DEFINE doc == Export(o)
           keys == SetToSeq(DOMAIN o.flags)
           slugs(k) == SetToSeq(DOMAIN o.flags[k].row)
           entry(k, s) == [name |-> s, enabled |-> o.flags[k].row[s],
                           strategies |-> o.flags[k].strategies[s]]
           envs(k) == [j \in DOMAIN slugs(k) |-> entry(k, slugs(k)[j])]
           flags == [i \in DOMAIN keys |-> [key |-> keys[i], envs |-> envs(keys[i])]]
<1>1. doc = [fields |-> o.fields, flags |-> flags,
             warnings |-> [k \in DOMAIN o.flags |-> {}]]
  BY DEF Export
<1>2. IsList(keys) /\ Range(keys) = DOMAIN o.flags
  BY ListOfSet, SetToSeqIsList
<1>3. ASSUME NEW k \in DOMAIN o.flags
      PROVE  /\ IsList(slugs(k)) /\ Range(slugs(k)) = DOMAIN o.flags[k].row
             /\ \A i, j \in DOMAIN slugs(k) : slugs(k)[i] = slugs(k)[j] => i = j
             /\ \A s \in DOMAIN o.flags[k].row : IsList(o.flags[k].strategies[s])
  BY FlagLists, ListOfSet, SetToSeqIsList
<1> HIDE DEF doc, keys, slugs
<1>4. doc.flags = flags /\ doc.fields = o.fields /\ doc = [fields |-> o.fields, flags |-> doc.flags,
                                  warnings |-> doc.warnings]
  BY <1>1
<1>5. DOMAIN flags = DOMAIN keys /\ IsList(flags)
  BY <1>2, ListOver
<1>6. ASSUME NEW i \in DOMAIN doc.flags
      PROVE  LET flag == doc.flags[i] IN
             /\ IsList(flag.envs)
             /\ \A j \in DOMAIN flag.envs : IsList(flag.envs[j].strategies)
             /\ flag.key \in DOMAIN o.flags
             /\ doc.warnings[flag.key] = {}
             /\ Names(doc, i, DOMAIN o.flags[flag.key].row)
             /\ \A j \in DOMAIN flag.envs :
                   /\ flag.envs[j].enabled = o.flags[flag.key].row[flag.envs[j].name]
                   /\ flag.envs[j].strategies = o.flags[flag.key].strategies[flag.envs[j].name]
  <2> DEFINE k == keys[i]
             s == slugs(k)
  <2>1. k \in DOMAIN o.flags
    BY <1>2, <1>4, <1>5, ListElements
  <2>2. doc.flags[i] = [key |-> k, envs |-> [j \in DOMAIN s |-> entry(k, s[j])]]
    BY <1>4, <1>5
  <2>3. /\ IsList(s) /\ Range(s) = DOMAIN o.flags[k].row
        /\ \A x, y \in DOMAIN s : s[x] = s[y] => x = y
        /\ \A x \in DOMAIN o.flags[k].row : IsList(o.flags[k].strategies[x])
    BY <1>3, <2>1
  <2> HIDE DEF k, s
  <2>4. /\ doc.flags[i].key = k
        /\ doc.flags[i].envs = [j \in DOMAIN s |-> entry(k, s[j])]
        /\ DOMAIN doc.flags[i].envs = DOMAIN s
        /\ \A j \in DOMAIN s : /\ doc.flags[i].envs[j].name = s[j]
                               /\ doc.flags[i].envs[j].enabled = o.flags[k].row[s[j]]
                               /\ doc.flags[i].envs[j].strategies = o.flags[k].strategies[s[j]]
    BY <2>2
  <2>5. IsList(doc.flags[i].envs)
    BY <2>3, <2>4, ListOver
  <2>6. \A j \in DOMAIN s : s[j] \in DOMAIN o.flags[k].row
    BY <2>3, ListElements
  <2>7. \A x \in DOMAIN o.flags[k].row : \E j \in DOMAIN s : s[j] = x
    BY <2>3 DEF Range
  <2>8. Names(doc, i, DOMAIN o.flags[k].row)
    BY <2>3, <2>4, <2>6, <2>7 DEF Names
  <2>9. \A j \in DOMAIN doc.flags[i].envs : IsList(doc.flags[i].envs[j].strategies)
    BY <2>3, <2>4, <2>6
  <2>10. \A j \in DOMAIN doc.flags[i].envs :
           /\ doc.flags[i].envs[j].enabled = o.flags[k].row[doc.flags[i].envs[j].name]
           /\ doc.flags[i].envs[j].strategies = o.flags[k].strategies[doc.flags[i].envs[j].name]
    BY <2>4
  <2>11. doc.warnings[k] = {}
    BY <1>1, <2>1
  <2> QED BY <2>1, <2>4, <2>5, <2>8, <2>9, <2>10, <2>11
<1> HIDE DEF flags
<1>7. Renders(doc, o)
  BY <1>4, <1>5, <1>6 DEF Renders, IsDocument
<1> QED BY <1>4, <1>7 DEF doc

\* FlattenSeq makes one list of a list of lists.
LEMMA FlattenLists ==
    ASSUME NEW ss, IsList(ss), \A i \in DOMAIN ss : IsList(ss[i])
    PROVE  /\ IsList(FlattenSeq(ss))
           /\ Range(FlattenSeq(ss)) = UNION {Range(ss[i]) : i \in DOMAIN ss}
<1> DEFINE S == UNION {Range(ss[i]) : i \in DOMAIN ss}
<1>1. Len(ss) \in Nat /\ DOMAIN ss = 1..Len(ss)
  BY ListElements
<1>2. ASSUME NEW i \in DOMAIN ss PROVE ss[i] \in Seq(S)
  <2>1. Range(ss[i]) \subseteq S
    OBVIOUS
  <2> HIDE DEF S
  <2> QED BY <2>1 DEF IsList
<1> HIDE DEF S
<1>3. ss = [i \in DOMAIN ss |-> ss[i]]
  BY DEF IsList
<1>4. ss \in Seq(Seq(S))
  BY <1>1, <1>2, <1>3
<1>5. FlattenSeq(ss) \in Seq(S) /\ Range(FlattenSeq(ss)) = S
  BY <1>4, FlattenElements DEF S
<1> QED BY <1>5 DEF IsList, S
\* What fromNative writes is a file that toNative reads.
LEMMA ConstraintsAreLists ==
    ASSUME NEW doc, NEW s, IsStrategy(s)
    PROVE  LET written == {ToUnleashConstraint(c, TypeIn(doc, c.field)) : c \in s} IN
           \A c \in Range(SetToSeq(written)) : IsList(c.values) /\ ~c.inverted
<1> DEFINE m == [c \in s |-> ToUnleashConstraint(c, TypeIn(doc, c.field))]
           written == {ToUnleashConstraint(c, TypeIn(doc, c.field)) : c \in s}
<1>1. m \in Surjection(s, written)
  BY Fun_IsSurj
<1>2. ASSUME NEW c \in written PROVE IsList(c.values) /\ ~c.inverted
  <2>1. PICK d \in s : c = ToUnleashConstraint(d, TypeIn(doc, d.field))
    OBVIOUS
  <2>2. d.values \in Seq(Range(d.values)) /\ d.values # <<>>
    BY DEF IsStrategy, IsList
  <2>3. c.values \in {d.values, SubSeq(d.values, 1, 1)} /\ ~c.inverted
    BY <2>1 DEF ToUnleashConstraint
  <2>4. SubSeq(d.values, 1, 1) \in Seq(Range(d.values)) /\ Len(SubSeq(d.values, 1, 1)) = 1
    BY <2>2
  <2>5. IsList(c.values)
    BY <2>2, <2>3, <2>4, SeqIsList
  <2> QED BY <2>3, <2>5
<1> HIDE DEF m, written
<1>3. Range(SetToSeq(written)) = written
  BY <1>1, FS_Surjection, ListOfSet DEF IsStrategy
<1>4. \A c \in Range(SetToSeq(written)) : IsList(c.values) /\ ~c.inverted
  BY <1>2, <1>3
<1> QED BY <1>4 DEF written

\* A document rendered for Unleash is an Unleash file.
LEMMA FromNativeIsFile ==
    ASSUME NEW doc, IsDocument(doc),
           \A i \in DOMAIN doc.flags : \A j \in DOMAIN doc.flags[i].envs :
              /\ doc.flags[i].envs[j].name # None
              /\ \A s \in Range(doc.flags[i].envs[j].strategies) : IsStrategy(s)
    PROVE  IsUnleashFile(FromNative(doc))
<1> DEFINE kept(env) == Among(env.strategies, {s \in Range(env.strategies) :
                          \A c \in s : Expressible(c, TypeIn(doc, c.field))})
           written(key, env) ==
              [i \in DOMAIN kept(env) |->
               [feature |-> key, env |-> env.name, name |-> "default", disabled |-> FALSE,
                segments |-> FALSE, rollout |-> "100", userIds |-> <<>>,
                constraints |-> SetToSeq({ToUnleashConstraint(c, TypeIn(doc, c.field)) :
                                            c \in kept(env)[i]})]]
           state(key, env) == <<[feature |-> key, env |-> env.name, enabled |-> env.enabled]>>
           statesOf(i) == [j \in DOMAIN doc.flags[i].envs |->
                             state(doc.flags[i].key, doc.flags[i].envs[j])]
           strategiesOf(i) == [j \in DOMAIN doc.flags[i].envs |->
                                 written(doc.flags[i].key, doc.flags[i].envs[j])]
           states == [i \in DOMAIN doc.flags |-> FlattenSeq(statesOf(i))]
           strategies == [i \in DOMAIN doc.flags |-> FlattenSeq(strategiesOf(i))]
           features == [i \in DOMAIN doc.flags |-> [name |-> doc.flags[i].key, archived |-> FALSE]]
           Listed(s) == \A c \in Range(s.constraints) : IsList(c.values) /\ ~c.inverted
<1>1. FromNative(doc) = [features |-> features, states |-> FlattenSeq(states),
                         strategies |-> FlattenSeq(strategies),
                         fields |-> [k \in DOMAIN doc.fields |-> doc.fields[k].values]]
  BY DEF FromNative
<1>2. IsList(features)
  BY ListOver DEF IsDocument
<1>3. ASSUME NEW i \in DOMAIN doc.flags
      PROVE  /\ IsList(FlattenSeq(strategiesOf(i)))
             /\ \A s \in Range(FlattenSeq(strategiesOf(i))) : Listed(s)
  <2>1. ASSUME NEW j \in DOMAIN doc.flags[i].envs
        PROVE  LET w == written(doc.flags[i].key, doc.flags[i].envs[j]) IN
               IsList(w) /\ \A s \in Range(w) : Listed(s)
    <3> DEFINE env == doc.flags[i].envs[j]
    <3>1. IsList(env.strategies)
      BY DEF IsDocument
    <3>2. IsList(kept(env)) /\ \A s \in Range(kept(env)) : s \in Range(env.strategies)
      BY <3>1, AmongElements DEF IsList
    <3>3. \A s \in Range(env.strategies) : IsStrategy(s)
      OBVIOUS
    <3>4. \A n \in DOMAIN kept(env) : IsStrategy(kept(env)[n])
      BY <3>2, <3>3, ListElements
    <3> HIDE DEF kept, env
    <3> DEFINE w == written(doc.flags[i].key, env)
    <3>5. IsList(w)
      BY <3>2, ListOver
    <3>6. ASSUME NEW n \in DOMAIN kept(env) PROVE Listed(w[n])
      <4>1. w[n].constraints = SetToSeq({ToUnleashConstraint(c, TypeIn(doc, c.field)) :
                                           c \in kept(env)[n]})
        OBVIOUS
      <4> QED BY <3>4, <4>1, ConstraintsAreLists
    <3>7. \A s \in Range(w) : Listed(s)
      <4>1. DOMAIN w = DOMAIN kept(env)
        OBVIOUS
      <4> HIDE DEF w, Listed
      <4> QED BY <3>6, <4>1 DEF Range
    <3> QED BY <3>5, <3>7 DEF env
  <2>2. IsList(doc.flags[i].envs)
    BY DEF IsDocument
  <2> HIDE DEF written
  <2>3. DOMAIN strategiesOf(i) = DOMAIN doc.flags[i].envs /\ IsList(strategiesOf(i))
    BY <2>2, ListOver
  <2>4. \A j \in DOMAIN strategiesOf(i) : /\ IsList(strategiesOf(i)[j])
                                          /\ \A s \in Range(strategiesOf(i)[j]) : Listed(s)
    BY <2>1, <2>3
  <2> HIDE DEF strategiesOf, Listed
  <2> QED BY <2>3, <2>4, FlattenLists
<1>4. ASSUME NEW i \in DOMAIN doc.flags
      PROVE  /\ IsList(FlattenSeq(statesOf(i)))
             /\ \A e \in Range(FlattenSeq(statesOf(i))) : e.env # None
  <2>1. ASSUME NEW j \in DOMAIN doc.flags[i].envs
        PROVE  /\ IsList(state(doc.flags[i].key, doc.flags[i].envs[j]))
               /\ \A e \in Range(state(doc.flags[i].key, doc.flags[i].envs[j])) : e.env # None
    <3>1. doc.flags[i].envs[j].name # None
      OBVIOUS
    <3> QED BY <3>1 DEF IsList, Range
  <2>2. IsList(doc.flags[i].envs)
    BY DEF IsDocument
  <2> HIDE DEF state
  <2>3. DOMAIN statesOf(i) = DOMAIN doc.flags[i].envs /\ IsList(statesOf(i))
    BY <2>2, ListOver
  <2>4. \A j \in DOMAIN statesOf(i) : /\ IsList(statesOf(i)[j])
                                      /\ \A e \in Range(statesOf(i)[j]) : e.env # None
    BY <2>1, <2>3
  <2> HIDE DEF statesOf
  <2> QED BY <2>3, <2>4, FlattenLists
<1>5. IsList(FlattenSeq(strategies)) /\ \A s \in Range(FlattenSeq(strategies)) : Listed(s)
  <2> HIDE DEF strategiesOf, Listed
  <2>1. DOMAIN strategies = DOMAIN doc.flags /\ IsList(strategies)
    BY ListOver DEF IsDocument
  <2>2. \A i \in DOMAIN strategies : /\ IsList(strategies[i])
                                     /\ \A s \in Range(strategies[i]) : Listed(s)
    BY <1>3, <2>1
  <2> HIDE DEF strategies
  <2> QED BY <2>1, <2>2, FlattenLists
<1>6. IsList(FlattenSeq(states)) /\ \A e \in Range(FlattenSeq(states)) : e.env # None
  <2> HIDE DEF statesOf
  <2>1. DOMAIN states = DOMAIN doc.flags /\ IsList(states)
    BY ListOver DEF IsDocument
  <2>2. \A i \in DOMAIN states : /\ IsList(states[i])
                                 /\ \A e \in Range(states[i]) : e.env # None
    BY <1>4, <2>1
  <2> HIDE DEF states
  <2> QED BY <2>1, <2>2, FlattenLists
<1> HIDE DEF features, states, strategies
<1>7. \A i \in DOMAIN FlattenSeq(states) : FlattenSeq(states)[i].env # None
  BY <1>6 DEF Range
<1>8. \A i \in DOMAIN FlattenSeq(strategies) : Listed(FlattenSeq(strategies)[i])
  <2> HIDE DEF Listed
  <2> QED BY <1>5 DEF Range
<1> QED BY <1>1, <1>2, <1>5, <1>6, <1>7, <1>8 DEF IsUnleashFile

\* Two lists that share nothing, one after the other.
LEMMA ListsJoined ==
    ASSUME NEW s, NEW t, IsList(s), IsList(t), Range(s) \cap Range(t) = {},
           \A i, j \in DOMAIN s : s[i] = s[j] => i = j,
           \A i, j \in DOMAIN t : t[i] = t[j] => i = j
    PROVE  /\ IsList(s \o t) /\ Range(s \o t) = Range(s) \cup Range(t)
           /\ \A i, j \in DOMAIN (s \o t) : (s \o t)[i] = (s \o t)[j] => i = j
<1> DEFINE S == Range(s) \cup Range(t)
           l == Len(s)  r == Len(t)
<1>1. s \in Seq(S) /\ t \in Seq(S)
  BY DEF IsList
<1>2. /\ s \o t \in Seq(S) /\ Range(s \o t) = S
      /\ DOMAIN (s \o t) = 1..(l + r)
      /\ \A i \in 1..(l + r) : (s \o t)[i] = IF i <= l THEN s[i] ELSE t[i - l]
  BY <1>1, ConcatProperties, RangeConcatenation
<1>3. l \in Nat /\ r \in Nat /\ DOMAIN s = 1..l /\ DOMAIN t = 1..r
  BY ListElements
<1>4. \A i \in DOMAIN s, j \in DOMAIN t : s[i] # t[j]
  BY DEF Range
<1>5. IsList(s \o t)
  BY <1>2 DEF IsList
<1> HIDE DEF l, r
<1>6. ASSUME NEW i \in 1..(l + r), NEW j \in 1..(l + r), (s \o t)[i] = (s \o t)[j]
      PROVE  i = j
  <2>1. CASE i <= l /\ j <= l
    BY <1>2, <1>3, <1>6, <2>1
  <2>2. CASE i > l /\ j > l
    <3>1. i - l \in 1..r /\ j - l \in 1..r /\ t[i - l] = t[j - l]
      BY <1>2, <1>3, <1>6, <2>2
    <3>2. i - l = j - l
      BY <1>3, <3>1
    <3> QED BY <1>3, <3>2
  <2>3. CASE i <= l /\ j > l
    <3>1. i \in 1..l /\ j - l \in 1..r /\ s[i] = t[j - l]
      BY <1>2, <1>3, <1>6, <2>3
    <3> QED BY <1>3, <1>4, <3>1
  <2>4. CASE i > l /\ j <= l
    <3>1. j \in 1..l /\ i - l \in 1..r /\ s[j] = t[i - l]
      BY <1>2, <1>3, <1>6, <2>4
    <3> QED BY <1>3, <1>4, <3>1
  <2> QED BY <1>3, <2>1, <2>2, <2>3, <2>4
<1> QED BY <1>2, <1>5, <1>6
\* What Among leaves out is what is not in the set.
LEMMA AmongCounts ==
    ASSUME NEW s, IsList(s), NEW S
    PROVE  LET out == {j \in DOMAIN s : s[j] \notin S} IN
           /\ IsFiniteSet(out) /\ Cardinality(out) \in Nat
           /\ Len(s) = Len(Among(s, S)) + Cardinality(out)
<1> DEFINE n == Len(s)
           ones == [i \in DOMAIN s |-> IF s[i] \in S THEN <<s[i]>> ELSE <<>>]
           T == Range(s)
           Out(i) == {j \in 1..i : s[j] \notin S}
           Counted(i, l) == /\ IsFiniteSet(Out(i)) /\ Cardinality(Out(i)) \in Nat
                            /\ i = l + Cardinality(Out(i))
           Good(f) == {i \in 0..n : i # 0 => f[i] \in Seq(T) /\ Counted(i, Len(f[i]))}
<1>1. n \in Nat /\ DOMAIN s = 1..n /\ \A i \in DOMAIN s : s[i] \in T
  BY ListElements
<1>2. \A i \in DOMAIN s : /\ ones[i] \in Seq(T)
                         /\ Len(ones[i]) = IF s[i] \in S THEN 1 ELSE 0
  BY <1>1
<1>3. Len(ones) = n /\ Among(s, S) = FlattenSeq(ones)
  BY <1>1 DEF Among
<1>4. Counted(0, 0)
  <2>1. Out(0) = {}
    OBVIOUS
  <2>2. IsFiniteSet(Out(0)) /\ Cardinality(Out(0)) = 0
    BY <2>1, FS_EmptySet
  <2> HIDE DEF Out
  <2> QED BY <2>2
<1>5. ASSUME NEW i \in 0..(n - 1), NEW l \in Nat, Counted(i, l)
      PROVE  Counted(i + 1, l + Len(ones[i+1]))
  <2>1. i + 1 \in 1..n
    BY <1>1
  <2>2. Len(ones[i+1]) = IF s[i+1] \in S THEN 1 ELSE 0
    BY <1>1, <1>2, <2>1
  <2>3. CASE s[i+1] \in S
    <3>1. Out(i + 1) = Out(i)
      BY <1>1, <2>1, <2>3
    <3> HIDE DEF Out, ones
    <3> QED BY <1>5, <2>1, <2>2, <2>3, <3>1
  <2>4. CASE s[i+1] \notin S
    <3>1. Out(i + 1) = Out(i) \cup {i + 1} /\ i + 1 \notin Out(i)
      BY <1>1, <2>1, <2>4
    <3> HIDE DEF Out, ones
    <3>2. IsFiniteSet(Out(i + 1)) /\ Cardinality(Out(i + 1)) = Cardinality(Out(i)) + 1
      BY <1>5, <3>1, FS_AddElement
    <3> QED BY <1>5, <2>1, <2>2, <2>4, <3>2
  <2> QED BY <2>3, <2>4
<1> HIDE DEF ones, T, Counted
<1>6. CASE n = 0
  <2>1. ones = <<>>
    BY <1>1, <1>6 DEF ones
  <2>2. Len(Among(s, S)) = 0
    BY <1>3, <1>6, <2>1 DEF FlattenSeq
  <2>3. {j \in DOMAIN s : s[j] \notin S} = Out(0)
    BY <1>1, <1>6
  <2> QED BY <1>4, <1>6, <2>2, <2>3 DEF Counted
<1>7. CASE n # 0
  <2>1. PICK f : Flat(ones, f) /\ FlattenSeq(ones) = f[n]
    BY <1>1, <1>3, <1>7, FlattenIsFlat
  <2>2. ASSUME NEW i \in 0..(n - 1), i \in Good(f) PROVE i + 1 \in Good(f)
    <3>1. f[i+1] = IF i = 0 THEN ones[i+1] ELSE f[i] \o ones[i+1]
      BY <1>1, <1>3, <2>1, FlatStep
    <3>2. i + 1 \in 0..n /\ i + 1 \in DOMAIN s /\ ones[i+1] \in Seq(T)
      BY <1>1, <1>2
    <3>3. CASE i = 0
      <4>1. Counted(1, Len(ones[1]))
        <5>1. Counted(0 + 1, 0 + Len(ones[0+1]))
          BY <1>4, <1>5, <3>3
        <5>2. Len(ones[1]) \in Nat
          BY <3>2, <3>3
        <5> QED BY <5>1, <5>2
      <4>2. f[i+1] = ones[1] /\ i + 1 = 1
        BY <3>1, <3>3
      <4> QED BY <3>2, <3>3, <4>1, <4>2
    <3>4. CASE i # 0
      <4>1. f[i] \in Seq(T) /\ Counted(i, Len(f[i])) /\ f[i+1] = f[i] \o ones[i+1]
        BY <2>2, <3>1, <3>4
      <4>2. f[i+1] \in Seq(T) /\ Len(f[i+1]) = Len(f[i]) + Len(ones[i+1]) /\ Len(f[i]) \in Nat
        <5> DEFINE l == f[i]  r == ones[i+1]
        <5>1. l \in Seq(T) /\ r \in Seq(T) /\ f[i+1] = l \o r
          BY <3>2, <4>1
        <5> HIDE DEF l, r
        <5>2. l \o r \in Seq(T) /\ Len(l \o r) = Len(l) + Len(r) /\ Len(l) \in Nat
          BY <5>1, ConcatProperties
        <5> QED BY <5>1, <5>2 DEF l, r
      <4>3. Counted(i + 1, Len(f[i]) + Len(ones[i+1]))
        BY <1>5, <4>1, <4>2
      <4> QED BY <3>2, <4>2, <4>3
    <3> QED BY <3>3, <3>4
  <2>3. n \in Good(f)
    <3>1. 0 \in Good(f)
      BY <1>1
    <3> HIDE DEF Good
    <3> QED BY <1>1, <2>2, <3>1, UpTo
  <2>4. Counted(n, Len(Among(s, S)))
    BY <1>3, <1>7, <2>1, <2>3
  <2>5. {j \in DOMAIN s : s[j] \notin S} = Out(n)
    BY <1>1
  <2> QED BY <2>4, <2>5 DEF Counted
<1> QED BY <1>6, <1>7

\* The environments an Unleash file names for a feature.
NamesIn(f, k) == StatedIn(f, k) \cup {EnvironmentOf(f, s) : s \in StrategiesOf(f, k)}

\* An environment of the document: its state, its strategies, and those of the
\* file that are missing.
ReadsEnvironment(f, k, e) ==
    /\ e.enabled <=> EnabledIn(f, k, e.name)
    /\ IsList(e.strategies)
    /\ \A x \in Range(e.strategies) : \E s \in Range(PlacedIn(f, k, e.name)) :
          Converts(s, InferredFields(f)) /\ x = ConvertStrategy(s, InferredFields(f))
    /\ IsFiniteSet(Dropped(f, k, e.name)) /\ Cardinality(Dropped(f, k, e.name)) \in Nat
    /\ Len(PlacedIn(f, k, e.name)) = Len(e.strategies) + Cardinality(Dropped(f, k, e.name))

\* The document has every environment the file names for a feature.
Reads(doc, f) ==
    /\ IsDocument(doc)
    /\ doc.fields = [k \in DOMAIN InferredFields(f) \cap LegalKey |-> InferredFields(f)[k]]
    /\ \A i \in DOMAIN doc.flags :
          LET flag == doc.flags[i] IN
          /\ Names(doc, i, NamesIn(f, flag.key) \ {None})
          /\ doc.warnings[flag.key] = FlagWarnings(f, flag.key)
          /\ \A j \in DOMAIN flag.envs : ReadsEnvironment(f, flag.key, flag.envs[j])

\* A feature's states and strategies name finitely many environments.
LEMMA NamesAreFinite ==
    ASSUME NEW f, IsUnleashFile(f), NEW k
    PROVE  /\ IsFiniteSet(StatedIn(f, k)) /\ None \notin StatedIn(f, k)
           /\ IsFiniteSet({EnvironmentOf(f, s) : s \in StrategiesOf(f, k)})
<1>1. /\ Len(f.states) \in Nat /\ DOMAIN f.states = 1..Len(f.states)
      /\ Len(f.strategies) \in Nat /\ DOMAIN f.strategies = 1..Len(f.strategies)
  BY ListElements DEF IsUnleashFile
<1>2. IsFiniteSet(DOMAIN f.states) /\ IsFiniteSet(DOMAIN f.strategies)
  <2>1. IsFiniteSet(1..Len(f.states))
    BY ONLY <1>1, FS_Interval
  <2>2. IsFiniteSet(1..Len(f.strategies))
    BY ONLY <1>1, FS_Interval
  <2> QED BY ONLY <1>1, <2>1, <2>2
<1>3. IsFiniteSet(StatedIn(f, k))
  <2> DEFINE S == {i \in DOMAIN f.states : f.states[i].feature = k}
             T == StatedIn(f, k)
             m == [i \in S |-> f.states[i].env]
  <2>1. \A i \in S : m[i] \in T
    BY DEF StatedIn, Range
  <2>2. ASSUME NEW t \in T PROVE \E i \in S : m[i] = t
    BY DEF StatedIn, Range
  <2>3. m \in Surjection(S, T)
    BY <2>1, <2>2, Fun_IsSurj
  <2>4. IsFiniteSet(S)
    BY <1>2, FS_Subset
  <2> HIDE DEF S, m
  <2> QED BY <2>3, <2>4, FS_Surjection
<1>4. IsFiniteSet({EnvironmentOf(f, s) : s \in StrategiesOf(f, k)})
  <2> DEFINE S == {i \in DOMAIN f.strategies : f.strategies[i].feature = k}
             T == {EnvironmentOf(f, s) : s \in StrategiesOf(f, k)}
             m == [i \in S |-> EnvironmentOf(f, f.strategies[i])]
  <2>1. \A i \in S : m[i] \in T
    BY DEF StrategiesOf, Range
  <2>2. ASSUME NEW t \in T PROVE \E i \in S : m[i] = t
    BY DEF StrategiesOf, Range
  <2>3. m \in Surjection(S, T)
    BY <2>1, <2>2, Fun_IsSurj
  <2>4. IsFiniteSet(S)
    BY <1>2, FS_Subset
  <2> HIDE DEF S, m, T
  <2>5. IsFiniteSet(T)
    BY <2>3, <2>4, FS_Surjection
  <2> QED BY <2>5 DEF T
<1>5. None \notin StatedIn(f, k)
  BY DEF StatedIn, IsUnleashFile, Range
<1> QED BY <1>3, <1>4, <1>5

\* toNative: one feature.
LEMMA FeatureReads ==
    ASSUME NEW f, IsUnleashFile(f), NEW k
    PROVE  LET envs == FlagEnvironments(f, k) IN
           /\ IsList(envs)
           /\ \A n \in NamesIn(f, k) \ {None} : \E j \in DOMAIN envs : envs[j].name = n
           /\ \A j, l \in DOMAIN envs : envs[j].name = envs[l].name => j = l
           /\ \A j \in DOMAIN envs :
                 /\ envs[j].name \in NamesIn(f, k) \ {None}
                 /\ ReadsEnvironment(f, k, envs[j])
<1> DEFINE fields == InferredFields(f)
           own == StatedIn(f, k)
           named == {EnvironmentOf(f, s) : s \in StrategiesOf(f, k)} \ {None}
           kept(n) == Among(PlacedIn(f, k, n), {s \in Range(PlacedIn(f, k, n)) : Converts(s, fields)})
           listed(n) == [i \in DOMAIN kept(n) |-> ConvertStrategy(kept(n)[i], fields)]
           entry(n) == [name |-> n,
                        enabled |-> EnabledIn(f, k, n), strategies |-> listed(n)]
           order == SetToSeq(own) \o SetToSeq(named \ own)
           envs == FlagEnvironments(f, k)
<1>1. envs = [i \in DOMAIN order |-> entry(order[i])]
  BY DEF FlagEnvironments
<1>2. IsFiniteSet(own) /\ None \notin own /\ IsFiniteSet(named \ own)
  <2>1. IsFiniteSet({EnvironmentOf(f, s) : s \in StrategiesOf(f, k)})
    BY NamesAreFinite
  <2>2. IsFiniteSet(named)
    BY <2>1, FS_Subset
  <2> HIDE DEF named
  <2>3. IsFiniteSet(named \ own)
    BY <2>2, FS_Subset
  <2> QED BY <2>3, NamesAreFinite
<1>3. own \cup (named \ own) = NamesIn(f, k) \ {None}
  BY <1>2 DEF NamesIn
<1> HIDE DEF own, named, envs
<1>4. /\ IsList(order) /\ Range(order) = NamesIn(f, k) \ {None}
      /\ \A i, j \in DOMAIN order : order[i] = order[j] => i = j
  <2> DEFINE s == SetToSeq(own)
             t == SetToSeq(named \ own)
  <2>1. /\ IsList(s) /\ Range(s) = own /\ \A i, j \in DOMAIN s : s[i] = s[j] => i = j
        /\ IsList(t) /\ Range(t) = named \ own /\ \A i, j \in DOMAIN t : t[i] = t[j] => i = j
    BY <1>2, ListOfSet, SetToSeqIsList
  <2>2. Range(s) \cap Range(t) = {}
    BY <2>1
  <2> HIDE DEF s, t
  <2>3. /\ IsList(s \o t) /\ Range(s \o t) = Range(s) \cup Range(t)
        /\ \A i, j \in DOMAIN (s \o t) : (s \o t)[i] = (s \o t)[j] => i = j
    BY <2>1, <2>2, ListsJoined
  <2> QED BY <1>3, <2>1, <2>3 DEF s, t
<1> HIDE DEF order
<1>5. ASSUME NEW n, n # None
      PROVE  /\ IsList(listed(n))
             /\ \A x \in Range(listed(n)) : \E s \in Range(PlacedIn(f, k, n)) :
                   Converts(s, fields) /\ x = ConvertStrategy(s, fields)
             /\ IsFiniteSet(Dropped(f, k, n)) /\ Cardinality(Dropped(f, k, n)) \in Nat
             /\ Len(PlacedIn(f, k, n)) = Len(listed(n)) + Cardinality(Dropped(f, k, n))
  <2> DEFINE mine == {s \in StrategiesOf(f, k) : EnvironmentOf(f, s) = n}
             placed == PlacedIn(f, k, n)
             good == {s \in Range(placed) : Converts(s, fields)}
  <2>1. IsList(f.strategies)
    BY DEF IsUnleashFile
  <2>2. placed = Among(f.strategies, mine)
    BY DEF PlacedIn
  <2> HIDE DEF mine
  <2>3. IsList(placed) /\ Range(placed) \subseteq mine
    <3>1. /\ Among(f.strategies, mine) \in Seq(Range(f.strategies) \cap mine)
          /\ Range(Among(f.strategies, mine)) = Range(f.strategies) \cap mine
      BY <2>1, AmongElements
    <3> QED BY <2>2, <3>1 DEF IsList
  <2> HIDE DEF placed
  <2>4. IsList(Among(placed, good)) /\ Range(Among(placed, good)) \subseteq good
    <3>1. /\ Among(placed, good) \in Seq(Range(placed) \cap good)
          /\ Range(Among(placed, good)) = Range(placed) \cap good
      BY <2>3, AmongElements
    <3> HIDE DEF good
    <3> QED BY <3>1, SeqIsList
  <2>5. kept(n) = Among(placed, good)
    BY DEF placed
  <2>10. \A i \in DOMAIN kept(n) : kept(n)[i] \in good
    <3> HIDE DEF good, kept
    <3> QED BY <2>4, <2>5, ListElements
  <2> HIDE DEF kept, good
  <2>6. IsList(listed(n)) /\ DOMAIN listed(n) = DOMAIN kept(n)
    BY <2>4, <2>5, ListOver
  <2>7. Len(listed(n)) = Len(kept(n))
    BY <2>4, <2>5, <2>6, ListElements
  <2>8. Dropped(f, k, n) = {i \in DOMAIN placed : placed[i] \notin good}
    <3>1. \A i \in DOMAIN placed : placed[i] \in Range(placed)
      BY <2>3, ListElements
    <3>2. Dropped(f, k, n) = {i \in DOMAIN placed : ~Converts(placed[i], fields)}
      BY <1>5 DEF Dropped, placed
    <3> QED BY <3>1, <3>2 DEF good
  <2>9. /\ IsFiniteSet(Dropped(f, k, n)) /\ Cardinality(Dropped(f, k, n)) \in Nat
        /\ Len(placed) = Len(Among(placed, good)) + Cardinality(Dropped(f, k, n))
    BY <2>3, <2>8, AmongCounts
  <2>11. ASSUME NEW x \in Range(listed(n))
         PROVE  \E s \in Range(PlacedIn(f, k, n)) :
                   Converts(s, fields) /\ x = ConvertStrategy(s, fields)
    <3>1. PICK i \in DOMAIN kept(n) : x = ConvertStrategy(kept(n)[i], fields)
      BY <2>6, <2>11 DEF Range
    <3> QED BY <2>10, <3>1 DEF good, placed
  <2> QED BY <2>5, <2>6, <2>7, <2>9, <2>11 DEF placed
<1>6. \A i \in DOMAIN order : order[i] \in NamesIn(f, k) \ {None}
  BY <1>4, ListElements
<1> HIDE DEF listed
<1>7. /\ DOMAIN envs = DOMAIN order
      /\ \A i \in DOMAIN order : /\ envs[i].name = order[i]
                                 /\ envs[i].enabled <=> EnabledIn(f, k, order[i])
                                 /\ envs[i].strategies = listed(order[i])
  BY <1>1
<1>8. IsList(envs)
  BY <1>1, <1>4, <1>7, ListOver
<1>9. \A n \in NamesIn(f, k) \ {None} : \E j \in DOMAIN order : order[j] = n
  BY <1>4 DEF Range
<1>10. \A j, l \in DOMAIN envs : envs[j].name = envs[l].name => j = l
  BY <1>4, <1>7
<1>11. \A n \in NamesIn(f, k) \ {None} : \E j \in DOMAIN envs : envs[j].name = n
  BY <1>7, <1>9
<1>12. ASSUME NEW j \in DOMAIN envs
       PROVE  /\ envs[j].name \in NamesIn(f, k) \ {None}
              /\ ReadsEnvironment(f, k, envs[j])
  BY <1>5, <1>6, <1>7 DEF ReadsEnvironment
<1> QED BY <1>8, <1>10, <1>11, <1>12 DEF envs

\* toNative reads every file.
LEMMA ToNativeReads == ASSUME NEW f, IsUnleashFile(f) PROVE Reads(ToNative(f), f)
<1> DEFINE live == Among(f.features, {x \in Range(f.features) : ~x.archived})
           doc == ToNative(f)
<1>1. /\ doc.flags = [i \in DOMAIN live |->
                        [key |-> live[i].name, envs |-> FlagEnvironments(f, live[i].name)]]
      /\ doc.warnings = [k \in {live[i].name : i \in DOMAIN live} |-> FlagWarnings(f, k)]
      /\ doc.fields = [k \in DOMAIN InferredFields(f) \cap LegalKey |-> InferredFields(f)[k]]
  BY DEF ToNative
<1>2. IsList(live)
  BY AmongElements DEF IsUnleashFile, IsList
<1> HIDE DEF live, doc
<1>3. IsList(doc.flags) /\ DOMAIN doc.flags = DOMAIN live
  BY <1>1, <1>2, ListOver
<1>4. ASSUME NEW i \in DOMAIN doc.flags
      PROVE  LET flag == doc.flags[i] IN
             /\ IsList(flag.envs)
             /\ \A j \in DOMAIN flag.envs : IsList(flag.envs[j].strategies)
             /\ Names(doc, i, NamesIn(f, flag.key) \ {None})
             /\ doc.warnings[flag.key] = FlagWarnings(f, flag.key)
             /\ \A j \in DOMAIN flag.envs : ReadsEnvironment(f, flag.key, flag.envs[j])
  <2>1. doc.flags[i].envs = FlagEnvironments(f, doc.flags[i].key)
    BY <1>1, <1>3
  <2>2. doc.warnings[doc.flags[i].key] = FlagWarnings(f, doc.flags[i].key)
    BY <1>1, <1>3
  <2> DEFINE k == doc.flags[i].key
  <2> HIDE DEF k
  <2>3. doc.flags[i].envs = FlagEnvironments(f, k) /\ doc.flags[i].key = k
    BY <2>1 DEF k
  <2>4. Names(doc, i, NamesIn(f, k) \ {None})
    BY <2>3, FeatureReads DEF Names
  <2>7. \A j \in DOMAIN doc.flags[i].envs : ReadsEnvironment(f, k, doc.flags[i].envs[j])
    BY <2>3, FeatureReads
  <2>5. \A j \in DOMAIN doc.flags[i].envs : IsList(doc.flags[i].envs[j].strategies)
    BY <2>7 DEF ReadsEnvironment
  <2>6. IsList(doc.flags[i].envs)
    BY <2>3, FeatureReads
  <2> QED BY <2>2, <2>3, <2>4, <2>5, <2>6, <2>7
<1>5. Reads(doc, f)
  BY <1>1, <1>3, <1>4 DEF Reads, IsDocument
<1> QED BY <1>5 DEF doc
-----------------------------------------------------------------------------
(* The document of a transfer. *)

\* The document is an export, or an Unleash file that was read.
Documented ==
    /\ stage = "start" => file = None
    /\ stage = "unleash" => file # None
    /\ file # None => IsUnleashFile(file)
    /\ stage \notin {"start", "unleash"} =>
         IF file = None
         THEN /\ origin \in Origins
              /\ Renders(document, origin)
              /\ document = [fields |-> document.fields, flags |-> document.flags,
                             warnings |-> document.warnings]
         ELSE Reads(document, file)

\* A document that says everything twice says nothing else.
LEMMA RepeatRenders ==
    ASSUME NEW doc, NEW o, Renders(doc, o), doc = [fields |-> doc.fields, flags |-> doc.flags,
                                                   warnings |-> doc.warnings]
    PROVE  LET twice == [doc EXCEPT !.flags = @ \o @] IN
           /\ Renders(twice, o)
           /\ twice = [fields |-> twice.fields, flags |-> twice.flags,
                       warnings |-> twice.warnings]
<1> DEFINE twice == [doc EXCEPT !.flags = @ \o @]
           s == doc.flags
           w == s \o s
<1>1. twice = [fields |-> doc.fields, flags |-> s \o s, warnings |-> doc.warnings]
  <2>1. twice = [doc EXCEPT !.flags = w]
    OBVIOUS
  <2> HIDE DEF twice, w
  <2>2. [doc EXCEPT !.flags = w] = [fields |-> doc.fields, flags |-> w, warnings |-> doc.warnings]
    OBVIOUS
  <2> QED BY <2>1, <2>2 DEF w
<1>2. IsList(s)
  BY DEF Renders, IsDocument
<1> HIDE DEF twice, s
<1>3. IsList(s \o s) /\ Range(s \o s) = Range(s)
  <2>1. s \in Seq(Range(s))
    BY <1>2 DEF IsList
  <2>2. s \o s \in Seq(Range(s))
    BY <2>1
  <2>3. Range(s \o s) = Range(s) \cup Range(s)
    BY <2>1, RangeConcatenation
  <2> QED BY <2>2, <2>3 DEF IsList
<1>4. twice.flags = s \o s
  BY <1>1
<1>5. ASSUME NEW i \in DOMAIN twice.flags PROVE \E m \in DOMAIN doc.flags : twice.flags[i] = doc.flags[m]
  <2>1. twice.flags[i] \in Range(s)
    BY <1>3, <1>4, ListElements
  <2> QED BY <2>1 DEF Range, s
<1>6. ASSUME NEW i \in DOMAIN twice.flags
      PROVE  LET flag == twice.flags[i] IN
             /\ IsList(flag.envs)
             /\ \A j \in DOMAIN flag.envs : IsList(flag.envs[j].strategies)
             /\ flag.key \in DOMAIN o.flags
             /\ twice.warnings[flag.key] = {}
             /\ Names(twice, i, DOMAIN o.flags[flag.key].row)
             /\ \A j \in DOMAIN flag.envs :
                   /\ flag.envs[j].enabled = o.flags[flag.key].row[flag.envs[j].name]
                   /\ flag.envs[j].strategies = o.flags[flag.key].strategies[flag.envs[j].name]
  <2>1. PICK m \in DOMAIN doc.flags : twice.flags[i] = doc.flags[m]
    BY <1>5
  <2>2. Names(doc, m, DOMAIN o.flags[doc.flags[m].key].row)
    BY DEF Renders
  <2>3. Names(twice, i, DOMAIN o.flags[doc.flags[m].key].row)
    BY <2>1, <2>2 DEF Names
  <2>4. LET flag == doc.flags[m] IN
        /\ IsList(flag.envs)
        /\ \A j \in DOMAIN flag.envs : IsList(flag.envs[j].strategies)
        /\ flag.key \in DOMAIN o.flags
        /\ doc.warnings[flag.key] = {}
        /\ \A j \in DOMAIN flag.envs :
              /\ flag.envs[j].enabled = o.flags[flag.key].row[flag.envs[j].name]
              /\ flag.envs[j].strategies = o.flags[flag.key].strategies[flag.envs[j].name]
    BY DEF Renders, IsDocument
  <2>5. twice.warnings = doc.warnings
    BY <1>1
  <2> QED BY <2>1, <2>3, <2>4, <2>5
<1>7. twice.fields = doc.fields /\ doc.fields = o.fields
  BY <1>1 DEF Renders
<1>8. Renders(twice, o)
  BY <1>3, <1>4, <1>6, <1>7 DEF Renders, IsDocument
<1>9. twice = [fields |-> twice.fields, flags |-> twice.flags, warnings |-> twice.warnings]
  BY <1>1
<1> QED BY <1>8, <1>9 DEF twice

\* What an origin exports renders it, and is an Unleash file once converted.
LEMMA OriginIsExported ==
    ASSUME NEW o \in Origins
    PROVE  /\ Renders(Export(o), o)
           /\ Export(o) = [fields |-> Export(o).fields, flags |-> Export(o).flags,
                           warnings |-> Export(o).warnings]
           /\ IsUnleashFile(FromNative(Export(o))) /\ FromNative(Export(o)) # None
<1>1. IsFiniteSet(DOMAIN o.flags) /\ \A k \in DOMAIN o.flags : IsFlag(o.flags[k])
  BY TransferAssumption
<1>2. Renders(Export(o), o) /\ Export(o) = [fields |-> o.fields, flags |-> Export(o).flags,
                                            warnings |-> Export(o).warnings]
  BY <1>1, ExportRenders
<1>3. Export(o) = [fields |-> Export(o).fields, flags |-> Export(o).flags,
                   warnings |-> Export(o).warnings]
  BY <1>2
<1>4. ASSUME NEW i \in DOMAIN Export(o).flags, NEW j \in DOMAIN Export(o).flags[i].envs
      PROVE  /\ Export(o).flags[i].envs[j].name # None
             /\ \A s \in Range(Export(o).flags[i].envs[j].strategies) : IsStrategy(s)
  <2> DEFINE flag == Export(o).flags[i]
             f == o.flags[flag.key]
             n == flag.envs[j].name
  <2>1. /\ flag.key \in DOMAIN o.flags /\ Names(Export(o), i, DOMAIN f.row)
        /\ flag.envs[j].strategies = f.strategies[n]
    BY <1>2 DEF Renders
  <2>2. n \in DOMAIN f.row
    BY <2>1 DEF Names
  <2>3. IsFlag(f)
    BY <1>1, <2>1
  <2> HIDE DEF f, n, flag
  <2>4. n # None /\ \A s \in Range(f.strategies[n]) : IsStrategy(s)
    BY <2>2, <2>3, FlagLists
  <2> QED BY <2>1, <2>4 DEF n, flag
<1>5. IsUnleashFile(FromNative(Export(o)))
  BY <1>2, <1>4, FromNativeIsFile DEF Renders
<1> QED BY <1>2, <1>3, <1>5, TransferAssumption

\* A step keeps Documented.
LEMMA DocumentedStep == Documented /\ [Next]_vars => Documented'
<1> SUFFICES ASSUME Documented, [Next]_vars PROVE Documented'
  OBVIOUS
<1>1. CASE ExportNative
  <2>1. PICK o \in Origins : origin' = o /\ document' = Export(o)
    BY <1>1 DEF ExportNative
  <2>2. stage' = "converted" /\ file' = file /\ file = None
    BY <1>1 DEF ExportNative, Documented
  <2> QED BY <2>1, <2>2, OriginIsExported DEF Documented
<1>2. CASE ExportUnleash
  <2>1. PICK o \in Origins : file' = FromNative(Export(o))
    BY <1>2 DEF ExportUnleash
  <2> QED BY <1>2, <2>1, OriginIsExported DEF ExportUnleash, Documented
<1>3. CASE ReceiveUnleash
  BY <1>3, TransferAssumption DEF ReceiveUnleash, Documented
<1>4. CASE RepeatFlags
  BY <1>4, RepeatRenders DEF RepeatFlags, Documented
<1>5. CASE Convert
  BY <1>5, ToNativeReads DEF Convert, Documented
<1>6. CASE Import
  <2>1. stage \notin {"start", "unleash"} /\ UNCHANGED <<origin, file, document>>
        /\ stage' \in {"refused", "imported"}
    BY <1>6 DEF Import
  <2> QED BY <2>1 DEF Documented
<1>7. CASE ImportAgain
  BY <1>7 DEF ImportAgain, Documented
<1>8. CASE UNCHANGED vars
  BY <1>8 DEF Documented, vars
<1> QED BY <1>1, <1>2, <1>3, <1>4, <1>5, <1>6, <1>7, <1>8 DEF Next

\* Documented holds in every state.
LEMMA AlwaysDocumented == Spec => []Documented
<1>1. Init => Documented
  BY DEF Init, Documented
<1> QED BY <1>1, DocumentedStep, PTL DEF Spec

\* An entry has the environments its flag has where it comes from, each once.
LEMMA DocumentNames ==
    ASSUME Documented, Done
    PROVE  /\ IsDocument(document)
           /\ \A i \in DOMAIN document.flags :
                 Names(document, i, SourceNames(document.flags[i].key) \ {None})
<1>1. CASE file = None
  <2>1. origin \in Origins /\ Renders(document, origin)
    BY <1>1 DEF Documented, Done
  <2>2. ASSUME NEW i \in DOMAIN document.flags
        PROVE  Names(document, i, SourceNames(document.flags[i].key) \ {None})
    <3> DEFINE k == document.flags[i].key
    <3>1. k \in DOMAIN origin.flags /\ Names(document, i, DOMAIN origin.flags[k].row)
      BY <2>1 DEF Renders
    <3>2. IsFlag(origin.flags[k])
      BY <2>1, <3>1, TransferAssumption
    <3>3. None \notin DOMAIN origin.flags[k].row
      BY <3>2, FlagLists
    <3>4. SourceNames(k) \ {None} = DOMAIN origin.flags[k].row
      BY <1>1, <3>3 DEF SourceNames
    <3> QED BY <3>1, <3>4
  <2> QED BY <2>1, <2>2 DEF Renders
<1>2. CASE file # None
  BY <1>2 DEF Documented, Done, Reads, SourceNames, NamesIn
<1> QED BY <1>1, <1>2
-----------------------------------------------------------------------------
(* Properties of the import. *)

\* What is imported was not refused, the second time as the first.
Accepted ==
    /\ stage = "imported" => ~Refused(before, document)
    /\ stage = "again" => \E p : /\ Shape(p) /\ ~Refused(p, document)
                                 /\ before = ProjectAfter(p, document, args)

\* Accepted holds in every state.
LEMMA AlwaysAccepted == Spec => []Accepted
<1>1. Init => Accepted
  BY DEF Init, Accepted
<1>2. Imported /\ Accepted /\ [Next]_vars => Accepted'
  <2> SUFFICES ASSUME Imported, Accepted, [Next]_vars PROVE Accepted'
    OBVIOUS
  <2>1. CASE Import
    <3>1. CASE stage' = "refused"
      BY <3>1 DEF Accepted
    <3>2. CASE stage' # "refused"
      BY <2>1, <3>2 DEF Import, Apply, Accepted
    <3> QED BY <3>1, <3>2
  <2>2. CASE ImportAgain
    <3>1. stage = "imported" /\ stage' = "again" /\ before' = local
          /\ UNCHANGED <<args, document>>
      BY <2>2 DEF ImportAgain, Apply
    <3>2. /\ Shape(before) /\ ~Refused(before, document)
          /\ local = ProjectAfter(before, document, args)
      BY <3>1 DEF Accepted, Imported, Done
    <3>3. \E p : /\ Shape(p) /\ ~Refused(p, document)
                 /\ local = ProjectAfter(p, document, args)
      BY <3>2
    <3> QED BY <3>1, <3>3 DEF Accepted
  <2>3. CASE ExportNative \/ ExportUnleash \/ ReceiveUnleash \/ RepeatFlags \/ Convert
    <3>1. stage' \notin {"imported", "again"}
      BY <2>3 DEF ExportNative, ExportUnleash, ReceiveUnleash, RepeatFlags, Convert
    <3> QED BY <3>1 DEF Accepted
  <2>4. CASE UNCHANGED vars
    BY <2>4 DEF Accepted, vars
  <2> QED BY <2>1, <2>2, <2>3, <2>4 DEF Next
<1> QED BY <1>1, <1>2, AlwaysImported, PTL DEF Spec

\* The import wrote every flag of the document, or skipped what there was.
LEMMA WrittenFlags ==
    ASSUME Imported, Done
    PROVE  /\ Written \subseteq Flags(document)
           /\ args.onConflict # "skip" => Written = Flags(document)
<1>1. report = Report(before, document, args)
  BY DEF Imported
<1>2. DOMAIN report = Flags(document)
  BY <1>1 DEF Report
<1>3. ASSUME args.onConflict # "skip", NEW k \in Flags(document)
      PROVE  report[k].action # "skipped"
  BY <1>1, <1>3 DEF Report, Entry
<1> QED BY <1>2, <1>3 DEF Written

\* applyImport: the same import once more changes nothing, unless two names of
\* the file share a slug (transfer.service.ts:345-427).
THEOREM SecondImport == Spec => []ImportAgainChangesNothing
<1>1. Imported /\ Documented /\ Accepted => ImportAgainChangesNothing
  <2> SUFFICES ASSUME Imported, Documented, Accepted, stage = "again",
                      \A k \in Written : SourceNames(k) \ {None} \subseteq
                         Placed(k) \cup {n \in SourceNames(k) : Resolve(args, n) \notin local.envs}
               PROVE  local = before
    BY DEF ImportAgainChangesNothing
  <2>1. Done
    BY DEF Done
  <2>2. local = ProjectAfter(before, document, args)
    BY <2>1 DEF Imported
  <2>3. PICK p : Shape(p) /\ ~Refused(p, document) /\ before = ProjectAfter(p, document, args)
    BY DEF Accepted
  <2>4. p.envs = local.envs
    BY <2>1, <2>2, <2>3, AfterImportFields DEF Imported
  <2>5. IsDocument(document)
    BY <2>1, DocumentNames
  <2>6. ASSUME args.onConflict # "skip", NEW i \in DOMAIN document.flags, NEW s \in p.envs
        PROVE  Alone(args, document, i, s)
    <3> DEFINE envs == document.flags[i].envs
               k == document.flags[i].key
    <3> SUFFICES ASSUME NEW j \in DOMAIN envs, NEW l \in DOMAIN envs,
                        Resolve(args, envs[j].name) = s, Resolve(args, envs[l].name) = s
                 PROVE  j = l
      BY DEF Alone
    <3>1. Names(document, i, SourceNames(k) \ {None})
      BY <2>1, DocumentNames
    <3>2. envs[j].name \in SourceNames(k) \ {None} /\ envs[l].name \in SourceNames(k) \ {None}
      BY <3>1 DEF Names
    <3>3. k \in Written
      BY <2>1, <2>6, WrittenFlags DEF Flags
    <3>4. envs[j].name \in Placed(k)
      BY <2>4, <3>2, <3>3
    <3>5. envs[l].name = envs[j].name
      BY <3>2, <3>4 DEF Placed
    <3> QED BY <3>1, <3>5 DEF Names
  <2>7. ProjectAfter(before, document, args) = before
    BY <2>3, <2>5, <2>6, AgainSame
  <2> QED BY <2>2, <2>7
<1> QED BY <1>1, AlwaysImported, AlwaysDocumented, AlwaysAccepted, PTL

\* Where a flag is written, the last word on its environment is what it gets.
LEMMA LastWordWritten ==
    ASSUME NEW p, Shape(p), NEW doc, IsDocument(doc), NEW a, NEW k \in Flags(doc),
           NEW slug \in p.envs, Landing(a, doc, k, slug) # {},
           ~(k \in DOMAIN p.flags /\ a.onConflict = "skip"),
           k \notin DOMAIN p.flags =>
              \E i \in DOMAIN doc.flags : Single(doc, k, i) /\ Alone(a, doc, i, slug)
    PROVE  LET q == ProjectAfter(p, doc, a)
               said == LastWord(doc, Landing(a, doc, k, slug)) IN
           /\ q.flags[k].strategies[slug] = Filter(FieldsAfter(p, doc), said.strategies)
           /\ slug \in DOMAIN q.flags[k].row /\ ~Guarded(p, slug)
                => q.flags[k].row[slug] = said.enabled
<1> DEFINE q == ProjectAfter(p, doc, a)
           fields == FieldsAfter(p, doc)
           said == LastWord(doc, Landing(a, doc, k, slug))
<1>1. q.flags[k] = FlagAfter(p, fields, a, doc, k)
  BY AfterImportFields
<1>2. ~Guarded(p, slug) => \A x : StateAfter(p, a, doc, k, slug, x) = said.enabled
  BY DEF StateAfter
<1> HIDE DEF q, fields
<1>3. CASE k \in DOMAIN p.flags
  <2>1. q.flags[k] = Updated(p, fields, a, doc, k)
    BY <1>1, <1>3 DEF FlagAfter
  <2>2. q.flags[k].strategies[slug] = Filter(fields, said.strategies)
    BY <2>1 DEF Updated
  <2>3. slug \in DOMAIN q.flags[k].row =>
          q.flags[k].row[slug] = StateAfter(p, a, doc, k, slug, p.flags[k].row[slug])
    BY <2>1 DEF Updated
  <2> QED BY <1>2, <2>2, <2>3 DEF q, fields
<1>4. CASE k \notin DOMAIN p.flags
  <2>1. q.flags[k] = Created(p, fields, a, doc, k)
    BY <1>1, <1>4 DEF FlagAfter
  <2>2. PICK i \in DOMAIN doc.flags : Single(doc, k, i) /\ Alone(a, doc, i, slug)
    BY <1>4
  <2>3. Gathered(fields, a, EntryOf(doc, k).envs, slug) = Filter(fields, said.strategies)
    BY <2>2, OneLands
  <2>4. q.flags[k].strategies[slug] = Gathered(fields, a, EntryOf(doc, k).envs, slug)
    BY <2>1 DEF Created
  <2>5. q.flags[k].row[slug] = StateAfter(p, a, doc, k, slug, InitialEnabled(p, slug))
    BY <2>1 DEF Created
  <2> QED BY <1>2, <2>3, <2>4, <2>5 DEF q, fields
<1> QED BY <1>3, <1>4
\* A flag's entry is its last one.
LEMMA EntryIsLast ==
    ASSUME NEW doc, IsDocument(doc), NEW k \in Flags(doc)
    PROVE  \E i \in DOMAIN doc.flags :
              /\ EntryOf(doc, k) = doc.flags[i] /\ doc.flags[i].key = k
              /\ \A m \in DOMAIN doc.flags : doc.flags[m].key = k => m <= i
<1> DEFINE S == {i \in DOMAIN doc.flags : doc.flags[i].key = k}
<1>1. Len(doc.flags) \in Nat /\ S \in SUBSET (1..Len(doc.flags))
  BY ListElements DEF IsDocument
<1>2. S # {}
  BY DEF Flags
<1>3. EntryOf(doc, k) = doc.flags[Max(S)]
  BY DEF EntryOf
<1>4. Max(S) \in S /\ \A m \in S : m <= Max(S)
  <2> HIDE DEF S
  <2> QED BY <1>1, <1>2, MaxIn
<1> QED BY <1>3, <1>4

\* Where an environment of a written flag has a slug to itself, the flag gets what
\* its last entry says of that environment.
LEMMA PlacedIsWritten ==
    ASSUME Imported, Documented, Accepted, Done, NEW k \in Written, NEW n \in Placed(k)
    PROVE  \E i \in DOMAIN document.flags : \E j \in DOMAIN document.flags[i].envs :
              LET slug == Resolve(args, n)
                  said == document.flags[i].envs[j] IN
              /\ EntryOf(document, k) = document.flags[i] /\ document.flags[i].key = k
              /\ said.name = n
              /\ local.flags[k].strategies[slug] = Filter(local.fields, said.strategies)
              /\ slug \in DOMAIN local.flags[k].row /\ ~NeedsApproval(slug)
                   => local.flags[k].row[slug] = said.enabled
<1> DEFINE slug == Resolve(args, n)
           landing == Landing(args, document, k, slug)
<1>1. /\ Shape(before) /\ local = ProjectAfter(before, document, args)
      /\ report = Report(before, document, args)
  BY DEF Imported
<1>2. /\ IsDocument(document)
      /\ \A i \in DOMAIN document.flags :
            Names(document, i, SourceNames(document.flags[i].key) \ {None})
  BY DocumentNames
<1>3. k \in Flags(document)
  BY WrittenFlags
<1>4. /\ local.fields = FieldsAfter(before, document) /\ local.envs = before.envs
  BY <1>1, AfterImportFields
<1>5. /\ n \in SourceNames(k) \ {None} /\ slug \in local.envs
      /\ \A m \in SourceNames(k) : Resolve(args, m) = slug => m = n
  BY DEF Placed
<1>6. PICK i \in DOMAIN document.flags :
         /\ EntryOf(document, k) = document.flags[i] /\ document.flags[i].key = k
         /\ \A m \in DOMAIN document.flags : document.flags[m].key = k => m <= i
  BY <1>2, <1>3, EntryIsLast
<1>7. PICK j \in DOMAIN document.flags[i].envs : document.flags[i].envs[j].name = n
  BY <1>2, <1>5, <1>6 DEF Names
<1>8. <<i, j>> \in landing
  BY <1>6, <1>7 DEF Landing
<1>9. PICK x \in DOMAIN document.flags : \E y \in DOMAIN document.flags[x].envs :
         /\ document.flags[x].key = k
         /\ Resolve(args, document.flags[x].envs[y].name) = slug
         /\ LastWord(document, landing) = document.flags[x].envs[y]
         /\ \A p \in landing : p[1] <= x
  BY <1>2, <1>8, LastWordLands
<1>10. PICK y \in DOMAIN document.flags[x].envs :
         /\ document.flags[x].key = k
         /\ Resolve(args, document.flags[x].envs[y].name) = slug
         /\ LastWord(document, landing) = document.flags[x].envs[y]
         /\ \A p \in landing : p[1] <= x
  BY <1>9
<1>11. x = i
  <2>1. i <= x
    BY <1>8, <1>10
  <2>2. x <= i
    BY <1>6, <1>10
  <2>3. x \in Int /\ i \in Int
    BY <1>2, ListElements DEF IsDocument
  <2> QED BY <2>1, <2>2, <2>3
<1>12. y = j
  <2>1. Names(document, i, SourceNames(k) \ {None})
    BY <1>2, <1>6
  <2>2. document.flags[i].envs[y].name = n
    BY <1>5, <1>10, <1>11, <2>1 DEF Names
  <2> QED BY <1>7, <1>10, <1>11, <2>1, <2>2 DEF Names
<1> HIDE DEF landing
<1>13. ~(k \in DOMAIN before.flags /\ args.onConflict = "skip")
  <2>1. report[k] = Entry(before, FieldsAfter(before, document), args, EntryOf(document, k), document)
    BY <1>1, <1>3 DEF Report
  <2>2. report[k].action # "skipped"
    BY DEF Written
  <2> QED BY <1>6, <2>1, <2>2 DEF Entry
<1>14. ASSUME k \notin DOMAIN before.flags
       PROVE  Single(document, k, i) /\ Alone(args, document, i, slug)
  <2>1. stage = "imported"
    <3>1. ASSUME stage = "again" PROVE k \in DOMAIN before.flags
      <4>1. PICK p : Shape(p) /\ before = ProjectAfter(p, document, args)
        BY <3>1 DEF Accepted
      <4>2. DOMAIN before.flags = DOMAIN p.flags \cup Flags(document)
        BY <4>1, AfterImportFields
      <4> QED BY <1>3, <4>2
    <3> QED BY <1>14, <3>1 DEF Done
  <2>2. Single(document, k, i)
    BY <1>6, <1>14, <2>1 DEF Accepted, Refused, Single
  <2>3. Names(document, i, SourceNames(k) \ {None})
    BY <1>2, <1>6
  <2>4. \A l \in DOMAIN document.flags[i].envs :
           Resolve(args, document.flags[i].envs[l].name) = slug => l = j
    BY <1>5, <1>7, <2>3 DEF Names
  <2>5. Alone(args, document, i, slug)
    BY <2>4 DEF Alone
  <2> QED BY <2>2, <2>5
<1>15. LastWord(document, landing) = document.flags[i].envs[j]
  BY <1>10, <1>11, <1>12
<1> HIDE DEF slug
<1>16. /\ local.flags[k].strategies[slug]
            = Filter(local.fields, LastWord(document, landing).strategies)
       /\ slug \in DOMAIN local.flags[k].row /\ ~Guarded(before, slug)
            => local.flags[k].row[slug] = LastWord(document, landing).enabled
  BY <1>1, <1>2, <1>3, <1>4, <1>5, <1>8, <1>13, <1>14, LastWordWritten DEF landing
<1>17. NeedsApproval(slug) <=> Guarded(before, slug)
  BY DEF NeedsApproval, Guarded
<1> QED BY <1>6, <1>7, <1>15, <1>16, <1>17 DEF slug

\* exportProject, applyImport: a native file that overwrites carries the flags over
\* exactly, state and targeting, where the flag has a row to write and the
\* strategies are legal on both sides (transfer.service.ts:120-178, 345-427).
THEOREM CleanImport == Spec => []CleanImportIsExact
<1>1. Imported /\ Documented /\ Accepted => CleanImportIsExact
  <2> SUFFICES ASSUME Imported, Documented, Accepted, stage = "imported", file = None,
                      NEW k \in Written, NEW n \in Placed(k)
               PROVE  LET slug == Resolve(args, n) list == origin.flags[k].strategies[n] IN
                      /\ Filter(local.fields, list) = list
                           => local.flags[k].strategies[slug] = list
                      /\ slug \in DOMAIN local.flags[k].row /\ ~NeedsApproval(slug)
                           => local.flags[k].row[slug] = origin.flags[k].row[n]
    BY DEF CleanImportIsExact
  <2> DEFINE slug == Resolve(args, n)
  <2>1. Done
    BY DEF Done
  <2>2. PICK i \in DOMAIN document.flags : \E j \in DOMAIN document.flags[i].envs :
           LET said == document.flags[i].envs[j] IN
           /\ EntryOf(document, k) = document.flags[i] /\ document.flags[i].key = k
           /\ said.name = n
           /\ local.flags[k].strategies[slug] = Filter(local.fields, said.strategies)
           /\ slug \in DOMAIN local.flags[k].row /\ ~NeedsApproval(slug)
                => local.flags[k].row[slug] = said.enabled
    BY <2>1, PlacedIsWritten
  <2>3. PICK j \in DOMAIN document.flags[i].envs :
           LET said == document.flags[i].envs[j] IN
           /\ document.flags[i].key = k
           /\ said.name = n
           /\ local.flags[k].strategies[slug] = Filter(local.fields, said.strategies)
           /\ slug \in DOMAIN local.flags[k].row /\ ~NeedsApproval(slug)
                => local.flags[k].row[slug] = said.enabled
    BY <2>2
  <2>4. /\ document.flags[i].envs[j].enabled = origin.flags[k].row[n]
        /\ document.flags[i].envs[j].strategies = origin.flags[k].strategies[n]
    BY <2>3 DEF Documented, Renders
  <2> HIDE DEF slug
  <2> QED BY <2>3, <2>4 DEF slug
<1> QED BY <1>1, AlwaysImported, AlwaysDocumented, AlwaysAccepted, PTL

\* A warning for every place.
PlaceWarnings(env, kind, n, places) == {Warning(env, kind, n, i) : i \in places}

\* As many warnings as there are places.
LEMMA WarningsCount ==
    ASSUME NEW env, NEW kind, NEW n, NEW places, IsFiniteSet(places)
    PROVE  LET W == PlaceWarnings(env, kind, n, places) IN
           IsFiniteSet(W) /\ Cardinality(W) = Cardinality(places)
<1> DEFINE W == {Warning(env, kind, n, i) : i \in places}
           m == [i \in places |-> Warning(env, kind, n, i)]
<1>1. \A i : Warning(env, kind, n, i).of[2] = i
  BY DEF Warning
<1>2. \A i \in places : m[i].of[2] = i
  BY <1>1
<1>3. m \in [places -> W] /\ \A i, j \in places : m[i] = m[j] => i = j
  <2>1. \A i \in places : m[i] \in W
    OBVIOUS
  <2> HIDE DEF W
  <2>2. m \in [places -> W]
    BY <2>1
  <2> HIDE DEF m
  <2> QED BY <1>2, <2>2
<1>4. \A w \in W : \E i \in places : m[i] = w
  OBVIOUS
<1> HIDE DEF m, W
<1>5. m \in Bijection(places, W)
  BY <1>3, <1>4, Fun_IsBij
<1>6. IsFiniteSet(W) /\ Cardinality(W) = Cardinality(places)
  BY <1>5, FS_Bijection DEF ExistsBijection
<1> QED BY <1>6 DEF W, PlaceWarnings

\* toNative: the warnings on one of a feature's environments.
LEMMA FlagWarningsOf ==
    ASSUME NEW f, IsUnleashFile(f), NEW k, NEW n
    PROVE  /\ {w \in FlagWarnings(f, k) : w.of[1] = n}
                = PlaceWarnings(n, DroppedKind(n), n, Dropped(f, k, n))
           /\ \A w \in FlagWarnings(f, k) : w.kind # "approval-required"
<1>1. \A env, kind, name, i : /\ Warning(env, kind, name, i).of[1] = name
                              /\ Warning(env, kind, name, i).kind = kind
  BY DEF Warning
<1>2. ASSUME n \notin NamesOf(f, k) PROVE Dropped(f, k, n) = {}
  <2> DEFINE mine == {s \in StrategiesOf(f, k) : EnvironmentOf(f, s) = n}
  <2>1. mine = {}
    BY <1>2 DEF NamesOf
  <2>2. PlacedIn(f, k, n) = Among(f.strategies, mine)
    BY DEF PlacedIn
  <2> HIDE DEF mine
  <2>3. Among(f.strategies, mine) \in Seq(Range(f.strategies) \cap {})
    BY <2>1, AmongElements DEF IsUnleashFile
  <2>4. DOMAIN PlacedIn(f, k, n) = {}
    BY <2>2, <2>3
  <2> QED BY <2>4 DEF Dropped
<1>3. \A w : w \in FlagWarnings(f, k) <=>
         \E env \in NamesOf(f, k) : \E i \in Dropped(f, k, env) :
            w = Warning(env, DroppedKind(env), env, i)
  BY DEF FlagWarnings
<1>4. ASSUME NEW w \in FlagWarnings(f, k), w.of[1] = n
      PROVE  w \in PlaceWarnings(n, DroppedKind(n), n, Dropped(f, k, n))
  <2>1. PICK env \in NamesOf(f, k) : \E i \in Dropped(f, k, env) :
           w = Warning(env, DroppedKind(env), env, i)
    BY <1>3
  <2>2. env = n
    BY <1>1, <1>4, <2>1
  <2> QED BY <2>1, <2>2 DEF PlaceWarnings
<1>5. ASSUME NEW w \in PlaceWarnings(n, DroppedKind(n), n, Dropped(f, k, n))
      PROVE  w \in FlagWarnings(f, k) /\ w.of[1] = n
  <2>1. PICK i \in Dropped(f, k, n) : w = Warning(n, DroppedKind(n), n, i)
    BY DEF PlaceWarnings
  <2> QED BY <1>1, <1>2, <1>3, <2>1
<1>6. \A w \in FlagWarnings(f, k) : w.kind # "approval-required"
  <2>1. \A env : DroppedKind(env) # "approval-required"
    BY DEF DroppedKind
  <2> QED BY <1>1, <1>3, <2>1
<1> QED BY <1>4, <1>5, <1>6

\* filterStrategies keeps what it does not reject.
LEMMA FilterCounts ==
    ASSUME NEW fields, NEW s, IsList(s)
    PROVE  /\ IsFiniteSet(Rejected(fields, s)) /\ Cardinality(Rejected(fields, s)) \in Nat
           /\ Len(s) = Len(Filter(fields, s)) + Cardinality(Rejected(fields, s))
<1> DEFINE legal == {x \in Range(s) : \A c \in x : ~ConstraintError(fields, c)}
<1>1. Filter(fields, s) = Among(s, legal)
  BY DEF Filter
<1>2. Rejected(fields, s) = {j \in DOMAIN s : s[j] \notin legal}
  BY ListElements DEF Rejected
<1> HIDE DEF legal
<1> QED BY <1>1, <1>2, AmongCounts

\* The warnings among W on lost strategies of one name.
LossesIn(W, n) == {w \in W : w.of[1] = n /\ w.kind # "approval-required"}

\* applyImport: the warnings on the strategies of one of a flag's names.
LEMMA ImportWarningsOf ==
    ASSUME NEW p, NEW fields, NEW a, NEW flag, NEW j \in DOMAIN flag.envs,
           \A l \in DOMAIN flag.envs : flag.envs[l].name = flag.envs[j].name => l = j,
           Resolve(a, flag.envs[j].name) \in p.envs
    PROVE  LossesIn(ImportWarnings(p, fields, a, flag), flag.envs[j].name)
             = PlaceWarnings(Resolve(a, flag.envs[j].name), "constraint-rejected",
                             flag.envs[j].name, Rejected(fields, flag.envs[j].strategies))
<1> DEFINE e == flag.envs[j]
           placed == {x \in Range(flag.envs) : Resolve(a, x.name) \in p.envs}
           Lost(x) == {Warning(Resolve(a, x.name), "constraint-rejected", x.name, i) :
                         i \in Rejected(fields, x.strategies)}
<1>1. \A env, kind, name, i : /\ Warning(env, kind, name, i).of[1] = name
                              /\ Warning(env, kind, name, i).kind = kind
  BY DEF Warning
<1>2. \A x \in Range(flag.envs) : x.name = e.name => x = e
  BY DEF Range
<1>3. e \in placed
  BY DEF Range
<1>4. ImportWarnings(p, fields, a, flag)
        = {Warning(x.name, "unknown-environment", x.name, 0) : x \in Range(flag.envs) \ placed}
          \cup {Warning(Resolve(a, x.name), "approval-required", x.name, 0) :
                  x \in {y \in placed : Guarded(p, Resolve(a, y.name))}}
          \cup UNION {Lost(x) : x \in placed}
  BY DEF ImportWarnings
<1>5. placed \subseteq Range(flag.envs)
  OBVIOUS
<1> HIDE DEF e, placed
<1>6. ASSUME NEW w \in ImportWarnings(p, fields, a, flag), w.of[1] = e.name,
             w.kind # "approval-required"
      PROVE  w \in Lost(e)
  <2>1. CASE \E x \in Range(flag.envs) \ placed :
               w = Warning(x.name, "unknown-environment", x.name, 0)
    BY <1>1, <1>2, <1>3, <1>6, <2>1
  <2>2. CASE \E x \in placed : w = Warning(Resolve(a, x.name), "approval-required", x.name, 0)
    BY <1>1, <1>6, <2>2
  <2>3. CASE \E x \in placed : w \in Lost(x)
    <3>1. PICK x \in placed : w \in Lost(x)
      BY <2>3
    <3>2. x.name = e.name
      BY <1>1, <1>6, <3>1
    <3>3. x = e
      BY <1>2, <1>5, <3>2
    <3> QED BY <3>1, <3>3
  <2> QED BY <1>4, <1>6, <2>1, <2>2, <2>3
<1>7. ASSUME NEW w \in Lost(e)
      PROVE  /\ w \in ImportWarnings(p, fields, a, flag)
             /\ w.of[1] = e.name /\ w.kind # "approval-required"
  <2>1. w.of[1] = e.name /\ w.kind = "constraint-rejected"
    BY <1>1, <1>7
  <2>2. w \in ImportWarnings(p, fields, a, flag)
    <3> HIDE DEF Lost
    <3> QED BY <1>3, <1>4, <1>7
  <2> QED BY <2>1, <2>2
<1>8. Lost(e) = PlaceWarnings(Resolve(a, e.name), "constraint-rejected", e.name,
                              Rejected(fields, e.strategies))
  BY DEF PlaceWarnings
<1> HIDE DEF Lost
<1> QED BY <1>6, <1>7, <1>8 DEF e, LossesIn

\* applyImport, toNative: every strategy of the file that the flag did not get has a
\* warning of its own, or its environment is not found and has one for all of them
\* (transfer.service.ts:345-427, unleash.adapter.ts:435-520).
THEOREM LossesAreReported == Spec => []EveryLossIsReported
<1>1. Imported /\ Documented /\ Accepted => EveryLossIsReported
  <2> SUFFICES ASSUME Imported, Documented, Accepted, Done,
                      NEW k \in Written, NEW n \in SourceNames(k)
               PROVE  /\ n \in Placed(k) =>
                           Len(SourceList(k, n)) = Len(local.flags[k].strategies[Resolve(args, n)])
                                                   + Cardinality(LossWarnings(k, n))
                      /\ n = None => Len(SourceList(k, n)) = Cardinality(LossWarnings(k, n))
                      /\ n # None /\ Resolve(args, n) \notin local.envs =>
                           Warning(n, "unknown-environment", n, 0) \in LossWarnings(k, n)
    BY DEF EveryLossIsReported
  <2> DEFINE slug == Resolve(args, n)
             fields == FieldsAfter(before, document)
             entry == EntryOf(document, k)
             imported == ImportWarnings(before, fields, args, entry)
             OwnWarnings == PlaceWarnings(n, DroppedKind(n), n, Dropped(file, k, n))
             own == IF file = None THEN {} ELSE OwnWarnings
             Counts(w) == w.of[1] = n /\ w.kind # "approval-required"
  <2>1. /\ Shape(before) /\ local = ProjectAfter(before, document, args)
        /\ report = Report(before, document, args)
    BY DEF Imported
  <2>2. k \in Flags(document) /\ report[k].action # "skipped"
    BY WrittenFlags DEF Written
  <2>3. local.fields = fields /\ local.envs = before.envs
    BY <2>1, AfterImportFields
  <2>4. PICK i \in DOMAIN document.flags : entry = document.flags[i] /\ document.flags[i].key = k
    BY <2>2, DocumentNames, EntryIsLast
  <2>5. Names(document, i, SourceNames(k) \ {None})
    BY <2>4, DocumentNames
  <2>6. report[k].warnings = document.warnings[k] \cup imported
    <3>1. report[k] = Entry(before, fields, args, entry, document)
      BY <2>1, <2>2 DEF Report
    <3> QED BY <2>2, <2>4, <3>1 DEF Entry
  <2>7. file = None => /\ origin \in Origins /\ Renders(document, origin)
                       /\ document.warnings[k] = {}
    BY <2>4 DEF Documented, Done, Renders
  <2>8. file # None => /\ IsUnleashFile(file) /\ Reads(document, file)
                       /\ document.warnings[k] = FlagWarnings(file, k)
    BY <2>4 DEF Documented, Done, Reads
  <2> HIDE DEF fields, entry, imported
  <2>9. {w \in document.warnings[k] : Counts(w)} = own
    <3>1. CASE file = None
      BY <2>7, <3>1
    <3>2. CASE file # None
      <4>1. /\ {w \in FlagWarnings(file, k) : w.of[1] = n} = OwnWarnings
            /\ \A w \in FlagWarnings(file, k) : w.kind # "approval-required"
        BY <2>8, <3>2, FlagWarningsOf
      <4> HIDE DEF OwnWarnings
      <4> QED BY <2>8, <3>2, <4>1
    <3> QED BY <3>1, <3>2
  <2> HIDE DEF own
  <2>10. LossWarnings(k, n) = own \cup {w \in imported : Counts(w)}
    BY <2>6, <2>9 DEF LossWarnings
  <2>11. ASSUME IsFiniteSet(Dropped(file, k, n))
         PROVE  IsFiniteSet(OwnWarnings) /\ Cardinality(OwnWarnings) = Cardinality(Dropped(file, k, n))
    BY <2>11, WarningsCount
  <2>12. ASSUME n = None
         PROVE  Len(SourceList(k, n)) = Cardinality(LossWarnings(k, n))
    <3>1. file # None
      <4>1. ASSUME file = None PROVE FALSE
        <5>1. k \in DOMAIN origin.flags /\ n \in DOMAIN origin.flags[k].row
          BY <2>4, <2>7, <4>1 DEF Renders, SourceNames
        <5>2. IsFlag(origin.flags[k])
          BY <2>7, <4>1, <5>1, TransferAssumption
        <5> QED BY <2>12, <5>1, <5>2, FlagLists
      <4> QED BY <4>1
    <3>2. \A e \in Range(entry.envs) : e.name # None
      BY <2>4, <2>5 DEF Names, Range
    <3>3. \A w \in imported : w.of[1] # None
      <4>1. ASSUME NEW w \in imported PROVE \E e \in Range(entry.envs) : w.of[1] = e.name
        BY <4>1 DEF imported, ImportWarnings, Warning
      <4> QED BY <3>2, <4>1
    <3>4. LossWarnings(k, n) = OwnWarnings
      <4> HIDE DEF OwnWarnings
      <4> QED BY <2>10, <2>12, <3>1, <3>3 DEF own
    <3> DEFINE placed == PlacedIn(file, k, n)
    <3>5. IsList(placed)
      <4> DEFINE mine == {s \in StrategiesOf(file, k) : EnvironmentOf(file, s) = n}
      <4>1. placed = Among(file.strategies, mine)
        BY DEF PlacedIn
      <4> HIDE DEF mine, placed
      <4>2. Among(file.strategies, mine) \in Seq(Range(file.strategies) \cap mine)
        BY <2>8, <3>1, AmongElements DEF IsUnleashFile
      <4> QED BY <4>1, <4>2, SeqIsList
    <3>6. Dropped(file, k, n) = DOMAIN placed
      BY <2>12 DEF Dropped
    <3> HIDE DEF placed, OwnWarnings
    <3>7. Len(placed) \in Nat /\ DOMAIN placed = 1..Len(placed)
      BY <3>5, ListElements
    <3>8. IsFiniteSet(Dropped(file, k, n)) /\ Cardinality(Dropped(file, k, n)) = Len(placed)
      <4>1. \A m \in Nat : IsFiniteSet(1..m) /\ Cardinality(1..m) = m
        BY FS_Interval
      <4> QED BY <3>6, <3>7, <4>1
    <3>9. SourceList(k, n) = placed
      BY <3>1 DEF SourceList, placed
    <3> QED BY <2>11, <3>4, <3>8, <3>9
  <2>13. ASSUME n # None, slug \notin local.envs
         PROVE  Warning(n, "unknown-environment", n, 0) \in LossWarnings(k, n)
    <3>1. PICK j \in DOMAIN document.flags[i].envs : document.flags[i].envs[j].name = n
      BY <2>5, <2>13 DEF Names
    <3>2. /\ document.flags[i].envs[j] \in Range(entry.envs)
          /\ Resolve(args, document.flags[i].envs[j].name) \notin before.envs
      BY <2>3, <2>4, <2>13, <3>1 DEF Range
    <3>3. Warning(n, "unknown-environment", n, 0) \in imported
      BY <3>1, <3>2 DEF ImportWarnings, imported
    <3>4. Counts(Warning(n, "unknown-environment", n, 0))
      BY DEF Warning
    <3> HIDE DEF Counts
    <3> QED BY <2>10, <3>3, <3>4
  <2>14. ASSUME n \in Placed(k)
         PROVE  Len(SourceList(k, n))
                  = Len(local.flags[k].strategies[slug]) + Cardinality(LossWarnings(k, n))
    <3>1. PICK x \in DOMAIN document.flags : \E y \in DOMAIN document.flags[x].envs :
             /\ entry = document.flags[x] /\ document.flags[x].key = k
             /\ document.flags[x].envs[y].name = n
             /\ local.flags[k].strategies[slug]
                  = Filter(local.fields, document.flags[x].envs[y].strategies)
      BY <2>14, PlacedIsWritten DEF entry
    <3>2. PICK y \in DOMAIN document.flags[x].envs :
             /\ entry = document.flags[x] /\ document.flags[x].key = k
             /\ document.flags[x].envs[y].name = n
             /\ local.flags[k].strategies[slug]
                  = Filter(local.fields, document.flags[x].envs[y].strategies)
      BY <3>1
    <3> DEFINE said == document.flags[x].envs[y]
               list == local.flags[k].strategies[slug]
               rejected == Rejected(fields, said.strategies)
               RejectedWarnings == PlaceWarnings(slug, "constraint-rejected", n, rejected)
    <3>3. IsList(said.strategies)
      BY <2>7, <2>8 DEF Renders, Reads, IsDocument
    <3>4. /\ IsFiniteSet(rejected) /\ Cardinality(rejected) \in Nat
          /\ Len(said.strategies) = Len(list) + Cardinality(rejected)
      BY <2>3, <3>2, <3>3, FilterCounts
    <3>5. {w \in imported : Counts(w)} = RejectedWarnings
      <4>1. Names(document, x, SourceNames(k) \ {None})
        BY <3>2, DocumentNames
      <4>2. y \in DOMAIN entry.envs /\ entry.envs[y] = said /\ said.name = n
        BY <3>2
      <4>3. \A l \in DOMAIN entry.envs : entry.envs[l].name = entry.envs[y].name => l = y
        BY <3>2, <4>1 DEF Names
      <4>4. Resolve(args, entry.envs[y].name) \in before.envs
        BY <2>3, <2>14, <4>2 DEF Placed
      <4>5. LossesIn(imported, entry.envs[y].name)
              = PlaceWarnings(Resolve(args, entry.envs[y].name), "constraint-rejected",
                              entry.envs[y].name, Rejected(fields, entry.envs[y].strategies))
        <5> HIDE DEF said
        <5>1. y \in DOMAIN entry.envs
          BY <4>2
        <5>2. LossesIn(ImportWarnings(before, fields, args, entry), entry.envs[y].name)
                = PlaceWarnings(Resolve(args, entry.envs[y].name), "constraint-rejected",
                                entry.envs[y].name, Rejected(fields, entry.envs[y].strategies))
          BY ONLY <5>1, <4>3, <4>4, ImportWarningsOf
        <5> QED BY <5>2 DEF imported
      <4> HIDE DEF said
      <4>6. LossesIn(imported, n) = RejectedWarnings
        BY <4>2, <4>5
      <4> HIDE DEF RejectedWarnings
      <4> QED BY <4>6 DEF LossesIn
    <3>6. IsFiniteSet(RejectedWarnings) /\ Cardinality(RejectedWarnings) = Cardinality(rejected)
      BY <3>4, WarningsCount
    <3> HIDE DEF said, list, rejected
    <3>7. CASE file = None
      <4>1. LossWarnings(k, n) = RejectedWarnings
        <5> HIDE DEF RejectedWarnings
        <5> QED BY <2>10, <3>5, <3>7 DEF own
      <4>2. SourceList(k, n) = said.strategies
        BY <2>7, <3>2, <3>7 DEF Renders, SourceList, said
      <4> HIDE DEF RejectedWarnings
      <4> QED BY <3>4, <3>6, <4>1, <4>2 DEF list
    <3>8. CASE file # None
      <4>1. /\ IsFiniteSet(Dropped(file, k, n)) /\ Cardinality(Dropped(file, k, n)) \in Nat
            /\ Len(PlacedIn(file, k, n)) = Len(said.strategies) + Cardinality(Dropped(file, k, n))
        BY <2>8, <3>2, <3>8 DEF Reads, ReadsEnvironment, said
      <4>2. OwnWarnings \cap RejectedWarnings = {}
        <5>1. DroppedKind(n) # "constraint-rejected"
          BY DEF DroppedKind
        <5>2. \A w \in OwnWarnings : w.kind # "constraint-rejected"
          BY <5>1 DEF Warning, PlaceWarnings
        <5>3. \A w \in RejectedWarnings : w.kind = "constraint-rejected"
          BY DEF Warning, PlaceWarnings
        <5> HIDE DEF OwnWarnings, RejectedWarnings
        <5> QED BY <5>2, <5>3
      <4>3. LossWarnings(k, n) = OwnWarnings \cup RejectedWarnings
        <5> HIDE DEF RejectedWarnings, OwnWarnings
        <5> QED BY <2>10, <3>5, <3>8 DEF own
      <4>4. SourceList(k, n) = PlacedIn(file, k, n)
        BY <3>8 DEF SourceList
      <4>5. IsFiniteSet(OwnWarnings) /\ Cardinality(OwnWarnings) = Cardinality(Dropped(file, k, n))
        BY <2>11, <4>1
      <4> HIDE DEF OwnWarnings, RejectedWarnings
      <4>6. Cardinality(OwnWarnings \cup RejectedWarnings)
              = Cardinality(OwnWarnings) + Cardinality(RejectedWarnings) - Cardinality({})
        BY <3>6, <4>2, <4>5, FS_Union
      <4>7. Cardinality({}) = 0
        BY FS_EmptySet
      <4>8. Len(list) \in Nat
        <5>1. IsList(list)
          <6> DEFINE S == {s \in Range(said.strategies) : \A c \in s : ~ConstraintError(local.fields, c)}
          <6>1. list = Among(said.strategies, S)
            BY <3>2 DEF Filter, list, said
          <6>2. Among(said.strategies, S) \in Seq(Range(said.strategies) \cap S)
            BY <3>3, AmongElements
          <6> HIDE DEF S
          <6> QED BY <6>1, <6>2, SeqIsList
        <5> QED BY <5>1, ListElements
      <4>9. Cardinality(LossWarnings(k, n)) = Cardinality(Dropped(file, k, n)) + Cardinality(rejected)
        BY <3>4, <3>6, <4>1, <4>3, <4>5, <4>6, <4>7
      <4>10. Len(PlacedIn(file, k, n)) = Len(list) + Cardinality(LossWarnings(k, n))
        BY <3>4, <4>1, <4>8, <4>9
      <4> QED BY <4>4, <4>10 DEF list
    <3> QED BY <3>7, <3>8
  <2> QED BY <2>12, <2>13, <2>14
<1> QED BY <1>1, AlwaysImported, AlwaysDocumented, AlwaysAccepted, PTL
-----------------------------------------------------------------------------
(* Whom an imported strategy is for. *)

\* Every field has one of the types.
Typed(fields) == \A k \in DOMAIN fields : fields[k].type \in Types

\* toNative: a field that is used as a number, a version or a date is used as
\* nothing else.
LEMMA FieldTypes ==
    ASSUME NEW f, NEW k \in DOMAIN InferredFields(f)
    PROVE  LET type == InferredFields(f)[k].type IN
           /\ type \in Types
           /\ \A c \in ConstraintsOf(f) :
                /\ c.field = k
                /\ c.operator \in DOMAIN FromUnleashOperator \cap DOMAIN OperatorFamily
                /\ type \in {"number", "version", "date"}
                => type = OperatorFamily[c.operator]
<1> DEFINE families == Families(f, k)
           field == InferredFields(f)[k]
           string == [type |-> "string", values |-> {}]
           inferred == InferFieldTypes(f)[k]
<1>1. families \subseteq {"version", "date", "number"}
  BY DEF Families, OperatorFamily
<1>2. IsFiniteSet(families)
  <2>1. IsFiniteSet({"version"} \cup {"date"})
    BY FS_Singleton, FS_AddElement
  <2>2. IsFiniteSet(({"version"} \cup {"date"}) \cup {"number"})
    BY <2>1, FS_AddElement
  <2>3. families \subseteq ({"version"} \cup {"date"}) \cup {"number"}
    BY <1>1
  <2> HIDE DEF families
  <2> QED BY <2>2, <2>3, FS_Subset
<1>3. field = string \/ (k \in DOMAIN InferFieldTypes(f) /\ field = inferred)
  <2> DEFINE S == {"userId" : s \in {x \in Range(f.strategies) :
                                       x.name = "userWithId" /\ ~x.disabled}}
             user == [x \in S |-> string]
  <2>1. InferredFields(f) = Over(InferFieldTypes(f), user)
    BY DEF InferredFields
  <2>2. DOMAIN Over(InferFieldTypes(f), user) = DOMAIN InferFieldTypes(f) \cup S
    BY DEF Over
  <2>3. CASE k \in DOMAIN InferFieldTypes(f)
    BY <2>1, <2>3 DEF Over
  <2>4. CASE k \notin DOMAIN InferFieldTypes(f)
    <3>1. k \in S
      BY <2>1, <2>2, <2>4
    <3>2. user[k] = string
      BY <3>1
    <3>3. field = user[k]
      BY <2>1, <2>2, <2>4, <3>1 DEF Over
    <3> HIDE DEF user, field, inferred
    <3> QED BY <3>2, <3>3
  <2> QED BY <2>3, <2>4
<1>4. ASSUME k \in DOMAIN InferFieldTypes(f)
      PROVE  \/ inferred.type \in {"enum", "string"}
             \/ /\ Cardinality(families) = 1
                /\ inferred.type = CHOOSE x \in families : TRUE
  BY <1>4 DEF InferFieldTypes
<1> HIDE DEF families, inferred, field
<1>5. ASSUME Cardinality(families) = 1
      PROVE  \E x : families = {x} /\ (CHOOSE y \in families : TRUE) = x
  <2>1. PICK x : families = {x}
    BY <1>2, <1>5, FS_Singleton
  <2> QED BY <2>1
<1>6. CASE field.type \in {"enum", "string"}
  BY <1>6 DEF Types, field
<1>7. CASE Cardinality(families) = 1 /\ field.type = CHOOSE x \in families : TRUE
  <2>1. families = {field.type}
    BY <1>5, <1>7
  <2>2. field.type \in Types
    BY <1>1, <2>1 DEF Types
  <2>3. ASSUME NEW c \in ConstraintsOf(f), c.field = k,
               c.operator \in DOMAIN FromUnleashOperator \cap DOMAIN OperatorFamily
        PROVE  OperatorFamily[c.operator] \in families
    BY <2>3 DEF families, Families
  <2> QED BY <2>1, <2>2, <2>3 DEF field
<1> QED BY <1>3, <1>4, <1>6, <1>7

\* evaluate.ts: two types under which an operator is legal read it alike, numbers
\* and versions apart.
LEMMA TypesAgree ==
    ASSUME NEW t \in Types, NEW d \in Types, {t, d} # {"number", "version"},
           NEW op \in OperatorsByType[t] \cap OperatorsByType[d], NEW v, NEW values
    PROVE  Test(t, op, v, values) <=> Test(d, op, v, values)
<1>1. t = d \/ {t, d} \subseteq {"string", "enum"}
  <2>1. ASSUME NEW x \in Types, op \in OperatorsByType[x]
        PROVE  \/ /\ x \in {"string", "enum"}
                  /\ op \in {"equals", "in", "notIn", "startsWith", "contains", "regex"}
               \/ x = "boolean" /\ op = "is"
               \/ /\ x \in {"number", "version"}
                  /\ op \in {"eq", "neq", "lt", "lte", "gt", "gte", "satisfies"}
               \/ x = "date" /\ op \in {"before", "after"}
    <3>1. CASE x = "string"
      BY <2>1, <3>1 DEF OperatorsByType
    <3>2. CASE x = "enum"
      BY <2>1, <3>2 DEF OperatorsByType
    <3>3. CASE x = "boolean"
      BY <2>1, <3>3 DEF OperatorsByType
    <3>4. CASE x = "number"
      BY <2>1, <3>4 DEF OperatorsByType
    <3>5. CASE x = "version"
      BY <2>1, <3>5 DEF OperatorsByType
    <3>6. CASE x = "date"
      BY <2>1, <3>6 DEF OperatorsByType
    <3> QED BY <2>1, <3>1, <3>2, <3>3, <3>4, <3>5, <3>6 DEF Types
  <2>2. /\ op \in OperatorsByType[t]
        /\ op \in OperatorsByType[d]
    OBVIOUS
  <2>3. CASE t \in {"string", "enum"}
    BY <2>1, <2>2, <2>3
  <2>4. CASE t = "boolean"
    BY <2>1, <2>2, <2>4
  <2>5. CASE t \in {"number", "version"}
    BY <2>1, <2>2, <2>5
  <2>6. CASE t = "date"
    BY <2>1, <2>2, <2>6
  <2> QED BY <2>3, <2>4, <2>5, <2>6 DEF Types
<1>2. ASSUME NEW x \in {"string", "enum"}
      PROVE  Test(x, op, v, values) <=> Test("string", op, v, values)
  BY <1>2 DEF Test
<1> QED BY <1>1, <1>2

\* evaluate.ts: an ordered or textual comparison is with the first value alone.
LEMMA FirstValue ==
    ASSUME NEW type, NEW op, NEW v, NEW values, NEW w, w = Head(values),
           type \in {"number", "version", "date"} \/ op \in {"contains", "startsWith"}
    PROVE  Test(type, op, v, values) <=> Test(type, op, v, <<w>>)
<1>1. Head(<<w>>) = w
  OBVIOUS
<1>2. CASE type \in {"number", "version", "date"}
  BY <1>1, <1>2 DEF Test
<1>3. CASE type \notin {"number", "version", "date"}
  BY <1>1, <1>3 DEF Test
<1> QED BY <1>2, <1>3

\* evaluate.ts: of a comparison of numbers and its opposite at most one holds.
LEMMA Opposites ==
    ASSUME NEW v, NEW values,
           NEW pair \in {<<"eq", "neq">>, <<"gt", "lte">>, <<"gte", "lt">>,
                         <<"lt", "gte">>, <<"lte", "gt">>},
           Test("number", pair[2], v, values)
    PROVE  ~Test("number", pair[1], v, values)
<1> DEFINE w == Head(values)
           difference == NumberOf[v] - NumberOf[w]
<1>1. /\ v \in DOMAIN NumberOf /\ w \in DOMAIN NumberOf
      /\ Compares(pair[2], difference)
  BY DEF Test
<1>2. difference \in Int
  <2> HIDE DEF w
  <2> QED BY <1>1, TransferAssumption
<1> HIDE DEF difference, w
<1>3. ~Compares(pair[1], difference)
  BY <1>1, <1>2 DEF Compares
<1> QED BY <1>3 DEF Test, difference, w

\* compareVersions: versions that compare as equal have the same parts.
LEMMA EqualVersions ==
    ASSUME NEW v \in DOMAIN PartsOf, NEW w \in DOMAIN PartsOf,
           CompareTuple(ParseVersion(v), ParseVersion(w)) = 0
    PROVE  ParseVersion(v) = ParseVersion(w)
<1> DEFINE a == ParseVersion(v)
           b == ParseVersion(w)
           differ == {i \in 1..3 : a[i] # b[i]}
<1>1. a \in Triple /\ b \in Triple
  BY ParsedVersion
<1> HIDE DEF a, b
<1>2. differ = {}
  BY DEF CompareTuple, a, b
<1>3. \A i \in 1..3 : a[i] = b[i]
  BY <1>2
<1> HIDE DEF differ
<1>4. a = b
  BY <1>1, <1>3 DEF Triple
<1> QED BY <1>4 DEF a, b

\* convertStrategy: a constraint that became one the types agree on holds of nobody
\* of whom the Unleash constraint does not, if the versions it compares are releases.
LEMMA ConstraintCarries ==
    ASSUME NEW c, IsList(c.values), c.values # <<>>,
           c.inverted /\ c.operator \notin {"IN", "NOT_IN"} => Len(c.values) = 1,
           c.operator \in DOMAIN OperatorTable(c),
           NEW t \in Types, NEW d \in Types, {t, d} # {"number", "version"},
           OperatorTable(c)[c.operator] \in OperatorsByType[t] \cap OperatorsByType[d],
           c.operator \in DOMAIN OperatorFamily /\ d \in {"number", "version", "date"}
             => d = OperatorFamily[c.operator],
           NEW ctx, c.field \in DOMAIN ctx,
           t = "version" => \A text \in ({ctx[c.field]} \cup Range(c.values)) \cap DOMAIN PartsOf :
                              IsRelease(text),
           Test(t, OperatorTable(c)[c.operator], ctx[c.field], c.values)
    PROVE  UnleashHolds(c, ctx)
<1> DEFINE v == ctx[c.field]
           op == OperatorTable(c)[c.operator]
           Some(type, o) == \E i \in DOMAIN c.values : Test(type, o, v, <<c.values[i]>>)
<1>1. /\ op \in OperatorsByType[t] /\ op \in OperatorsByType[d]
      /\ Test(t, op, v, c.values) /\ Test(d, op, v, c.values)
  BY TypesAgree
<1>2. /\ 1 \in DOMAIN c.values /\ Head(c.values) = c.values[1]
      /\ Len(c.values) = 1 => \A i \in DOMAIN c.values : i = 1
  BY DEF IsList
<1>3. \A x : Head(<<x>>) = x
  OBVIOUS
<1>4. CASE c.operator \in {"IN", "NOT_IN"}
  <2>1. op = IF (c.operator = "IN") <=> ~c.inverted THEN "in" ELSE "notIn"
    BY <1>4 DEF OperatorTable, FromUnleashOperator, InvertedFromUnleashOperator
  <2>2. t \in {"string", "enum"}
    <3>1. op \in {"in", "notIn"}
      BY <2>1
    <3> HIDE DEF op
    <3> QED BY <1>1, <3>1 DEF OperatorsByType, Types
  <2>3. /\ Test(t, "in", v, c.values) <=> \E i \in DOMAIN c.values : c.values[i] = v
        /\ Test(t, "notIn", v, c.values) <=> \A i \in DOMAIN c.values : c.values[i] # v
    <3> HIDE DEF v
    <3> QED BY <2>2, TransferAssumption DEF Test
  <2>4. Some("string", "equals") <=> \E i \in DOMAIN c.values : c.values[i] = v
    <3>1. \A i \in DOMAIN c.values :
             Test("string", "equals", v, <<c.values[i]>>) <=> c.values[i] = v
      <4> TAKE i \in DOMAIN c.values
      <4> DEFINE x == c.values[i]
      <4>1. Test("string", "equals", v, <<x>>) <=> v = Head(<<x>>)
        <5> HIDE DEF v, x
        <5> QED BY TransferAssumption DEF Test
      <4> QED BY <1>3, <4>1
    <3> HIDE DEF v
    <3> QED BY <3>1
  <2>5. (op = "in" => Some("string", "equals")) /\ (op = "notIn" => ~Some("string", "equals"))
    <3> HIDE DEF op, v, Some
    <3> QED BY <1>1, <2>3, <2>4
  <2>6. CASE c.operator = "IN"
    <3>1. UnleashHolds(c, ctx) <=> (c.inverted <=> ~Some("string", "equals"))
      BY <2>6 DEF UnleashHolds, FromUnleashOperator
    <3> HIDE DEF op, Some
    <3> QED BY <2>1, <2>5, <2>6, <3>1
  <2>7. CASE c.operator = "NOT_IN"
    <3>1. UnleashHolds(c, ctx) <=> (c.inverted <=> Some("string", "equals"))
      BY <2>7 DEF UnleashHolds, FromUnleashOperator
    <3> HIDE DEF op, Some
    <3> QED BY <2>1, <2>5, <2>7, <3>1
  <2> QED BY <1>4, <2>6, <2>7
<1>5. CASE c.operator \in {"STR_CONTAINS", "STR_STARTS_WITH"}
  <2>1. ~c.inverted /\ op \in {"contains", "startsWith"} /\ op = FromUnleashOperator[c.operator]
    BY <1>5 DEF OperatorTable, FromUnleashOperator, InvertedFromUnleashOperator
  <2>2. t = "string"
    <3> HIDE DEF op
    <3> QED BY <1>1, <2>1 DEF OperatorsByType, Types
  <2>3. Test("string", op, v, <<c.values[1]>>)
    <3> HIDE DEF op, v
    <3> QED BY <1>1, <1>2, <2>1, <2>2, FirstValue
  <2>4. Some("string", op)
    <3> HIDE DEF op, v
    <3> QED BY <1>2, <2>3
  <2>5. UnleashHolds(c, ctx) <=> (c.inverted <=> ~Some("string", FromUnleashOperator[c.operator]))
    BY <1>5 DEF UnleashHolds, FromUnleashOperator
  <2> HIDE DEF op, Some
  <2> QED BY <2>1, <2>4, <2>5
<1>6. CASE c.operator = "SEMVER_EQ"
  <2> DEFINE w == c.values[1]
             Same == \E i \in DOMAIN c.values :
                        /\ {v, c.values[i]} \subseteq DOMAIN SemverOf
                        /\ SemverOf[v] = SemverOf[c.values[i]]
  <2>1. ~c.inverted /\ op = "eq"
    BY <1>6 DEF OperatorTable, FromUnleashOperator, InvertedFromUnleashOperator
  <2>2. t = "version"
    <3>1. d = "version"
      <4> HIDE DEF op
      <4> QED BY <1>1, <1>6, <2>1 DEF OperatorsByType, Types, OperatorFamily
    <3> HIDE DEF op
    <3> QED BY <1>1, <2>1, <3>1 DEF OperatorsByType, Types
  <2>3. /\ v \in DOMAIN PartsOf /\ w \in DOMAIN PartsOf
        /\ CompareTuple(ParseVersion(v), ParseVersion(w)) = 0
    <3>1. Test("version", "eq", v, c.values)
      <4> HIDE DEF op, v
      <4> QED BY <1>1, <2>1, <2>2
    <3> HIDE DEF v, op
    <3> QED BY <1>2, <3>1 DEF Test, Compares
  <2>4. IsRelease(v) /\ IsRelease(w)
    BY <1>2, <2>2, <2>3 DEF Range
  <2>5. SemverOf[v] = SemverOf[w] /\ v \in DOMAIN SemverOf /\ w \in DOMAIN SemverOf
    <3> HIDE DEF v, w
    <3> QED BY <2>3, <2>4, EqualVersions DEF IsRelease
  <2>6. Same
    <3> HIDE DEF v
    <3> QED BY <1>2, <2>5
  <2>7. UnleashHolds(c, ctx) <=> (c.inverted <=> ~Same)
    BY <1>6 DEF UnleashHolds, FromUnleashOperator
  <2> HIDE DEF Same
  <2> QED BY <2>1, <2>6, <2>7
<1>7. CASE c.operator \notin {"IN", "NOT_IN", "STR_CONTAINS", "STR_STARTS_WITH", "SEMVER_EQ"}
  <2> DEFINE plain == FromUnleashOperator[c.operator]
             family == OperatorFamily[c.operator]
  <2>1. /\ c.operator \in {"NUM_EQ", "NUM_GT", "NUM_GTE", "NUM_LT", "NUM_LTE",
                           "DATE_AFTER", "DATE_BEFORE"}
        /\ c.inverted => c.operator \in {"NUM_EQ", "NUM_GT", "NUM_GTE", "NUM_LT", "NUM_LTE"}
    BY <1>7 DEF OperatorTable, FromUnleashOperator, InvertedFromUnleashOperator
  <2>2. c.operator \in DOMAIN OperatorFamily /\ c.operator \in DOMAIN FromUnleashOperator
    BY <2>1 DEF OperatorFamily, FromUnleashOperator
  <2>3. op \in {"eq", "neq", "lt", "lte", "gt", "gte", "after", "before"}
    BY <2>1 DEF OperatorTable, FromUnleashOperator, InvertedFromUnleashOperator
  <2>4. d \in {"number", "version", "date"}
    <3> HIDE DEF op
    <3> QED BY <1>1, <2>3 DEF OperatorsByType, Types
  <2>5. d = family
    BY <2>2, <2>4
  <2>6. Test(family, op, v, <<c.values[1]>>)
    <3> HIDE DEF op, v, family
    <3> QED BY <1>1, <1>2, <2>4, <2>5, FirstValue
  <2>7. UnleashHolds(c, ctx) <=> (c.inverted <=> ~Some(family, plain))
    BY <1>7, <2>1, <2>2 DEF UnleashHolds
  <2>8. CASE ~c.inverted
    <3>1. op = plain
      BY <2>8 DEF OperatorTable
    <3>2. Some(family, plain)
      <4> HIDE DEF op, v, family, plain
      <4> QED BY <1>2, <2>6, <3>1
    <3> HIDE DEF Some, family, plain
    <3> QED BY <2>7, <2>8, <3>2
  <2>9. CASE c.inverted
    <3>1. /\ family = "number"
          /\ <<plain, op>> \in {<<"eq", "neq">>, <<"gt", "lte">>, <<"gte", "lt">>,
                               <<"lt", "gte">>, <<"lte", "gt">>}
      BY <2>1, <2>9 DEF OperatorTable, FromUnleashOperator, InvertedFromUnleashOperator,
                        OperatorFamily
    <3>2. ~Test(family, plain, v, <<c.values[1]>>)
      <4> DEFINE pair == <<plain, op>>
      <4>1. pair[1] = plain /\ pair[2] = op
        OBVIOUS
      <4> HIDE DEF op, v, family, plain, pair
      <4> QED BY <2>6, <3>1, <4>1, Opposites DEF pair
    <3>3. \A i \in DOMAIN c.values : i = 1
      BY <1>2, <1>7, <2>9
    <3>4. ~Some(family, plain)
      <4> HIDE DEF op, v, family, plain
      <4> QED BY <3>2, <3>3
    <3> HIDE DEF Some, family, plain
    <3> QED BY <2>7, <2>9, <3>4
  <2> QED BY <2>8, <2>9
<1> QED BY <1>4, <1>5, <1>6, <1>7

\* The field of c has a type in both, under which its operator is legal and
\* read alike.
Agreed(c, D, L) ==
    /\ c.field \in DOMAIN D
    /\ c.op \in OperatorsByType[D[c.field].type]
    /\ {D[c.field].type, L[c.field].type} # {"number", "version"}
    /\ ~ConstraintError(L, c)

\* matchConstraint: what an agreed constraint tests.
LEMMA AgreedTest ==
    ASSUME NEW c, NEW D, Typed(D), NEW L, Typed(L), Agreed(c, D, L),
           NEW ctx, Matches(c, TypesOf(L), ctx)
    PROVE  /\ c.field \in DOMAIN ctx /\ c.field \in DOMAIN D /\ c.field \in DOMAIN L
           /\ D[c.field].type \in Types /\ L[c.field].type \in Types
           /\ c.op \in OperatorsByType[L[c.field].type] \cap OperatorsByType[D[c.field].type]
           /\ Test(L[c.field].type, c.op, ctx[c.field], c.values)
           /\ Matches(c, TypesOf(D), ctx)
<1>1. c.field \in DOMAIN L /\ c.op \in OperatorsByType[L[c.field].type]
  BY DEF Agreed, ConstraintError
<1>2. c.field \in DOMAIN D /\ c.op \in OperatorsByType[D[c.field].type]
  BY DEF Agreed
<1>3. D[c.field].type \in Types /\ L[c.field].type \in Types
  BY <1>1, <1>2 DEF Typed
<1>4. c.field \in DOMAIN ctx /\ Test(L[c.field].type, c.op, ctx[c.field], c.values)
  <2>1. TypesOf(L)[c.field] = L[c.field].type
    BY <1>1 DEF TypesOf
  <2> QED BY <2>1 DEF Matches
<1>5. Test(D[c.field].type, c.op, ctx[c.field], c.values)
  <2>1. {L[c.field].type, D[c.field].type} # {"number", "version"}
    BY DEF Agreed
  <2> DEFINE t == L[c.field].type
             d == D[c.field].type
             op == c.op
             v == ctx[c.field]
             values == c.values
  <2>2. /\ t \in Types /\ d \in Types /\ {t, d} # {"number", "version"}
        /\ op \in OperatorsByType[t] \cap OperatorsByType[d] /\ Test(t, op, v, values)
    BY <1>1, <1>2, <1>3, <1>4, <2>1
  <2>3. Test(d, op, v, values)
    <3> HIDE DEF t, d, op, v, values
    <3> QED BY <2>2, TypesAgree
  <2> QED BY <2>3
<1>6. Matches(c, TypesOf(D), ctx)
  <2>1. TypesOf(D)[c.field] = D[c.field].type /\ c.field \in DOMAIN TypesOf(D)
    BY <1>2 DEF TypesOf
  <2> QED BY <1>4, <1>5, <2>1 DEF Matches
<1> QED BY <1>1, <1>2, <1>3, <1>4, <1>6

\* A constraint compares this caller's version, if its field is one, with releases,
\* and it is one itself.
Released(c, L, ctx) ==
    L[c.field].type = "version" /\ c.field \in DOMAIN ctx =>
        \A text \in ({ctx[c.field]} \cup Range(c.values)) \cap DOMAIN PartsOf : IsRelease(text)

\* convertStrategy: a strategy that was converted and is agreed on is for nobody
\* whom the Unleash strategy is not for, if it compares releases.
LEMMA StrategyCarries ==
    ASSUME NEW f, IsUnleashFile(f), NEW s \in Range(f.strategies),
           Converts(s, InferredFields(f)), NEW D, Typed(D),
           \A k \in DOMAIN D : k \in DOMAIN InferredFields(f) /\ D[k] = InferredFields(f)[k],
           NEW L, Typed(L), NEW ctx,
           \A c \in ConvertStrategy(s, InferredFields(f)) :
              Agreed(c, D, L) /\ Matches(c, TypesOf(L), ctx) /\ Released(c, L, ctx)
    PROVE  UnleashMatches(s, ctx)
<1> DEFINE inferred == InferredFields(f)
           Native(c) == [field |-> c.field, op |-> OperatorTable(c)[c.operator],
                         values |-> c.values]
           user == [field |-> "userId", op |-> "in", values |-> s.userIds]
<1>1. PICK i \in DOMAIN f.strategies : f.strategies[i] = s
  BY DEF Range
<1>2. ASSUME NEW c \in Range(s.constraints) PROVE UnleashHolds(c, ctx)
  <2>1. HasOperator(c, inferred) /\ c.values # <<>>
    BY DEF Converts
  <2>2. Native(c) \in ConvertStrategy(s, inferred)
    BY <2>1 DEF ConvertStrategy
  <2>3. c \in ConstraintsOf(f)
    BY <1>1 DEF ConstraintsOf
  <2>4. /\ IsList(c.values)
        /\ c.inverted /\ c.operator \notin {"IN", "NOT_IN"} => Len(c.values) = 1
    BY <1>1 DEF IsUnleashFile
  <2> DEFINE n == Native(c)
             t == L[c.field].type
             d == D[c.field].type
  <2>5. n.field = c.field /\ n.op = OperatorTable(c)[c.operator] /\ n.values = c.values
    OBVIOUS
  <2>6. Agreed(n, D, L) /\ Matches(n, TypesOf(L), ctx) /\ Released(n, L, ctx)
    BY <2>2
  <2> HIDE DEF n
  <2>7. /\ c.field \in DOMAIN ctx /\ c.field \in DOMAIN D
        /\ d \in Types /\ t \in Types
        /\ n.op \in OperatorsByType[t] \cap OperatorsByType[d]
        /\ Test(t, n.op, ctx[c.field], c.values)
    BY <2>5, <2>6, AgreedTest
  <2>8. {t, d} # {"number", "version"}
    BY <2>5, <2>6 DEF Agreed
  <2>9. c.operator \in DOMAIN OperatorFamily /\ d \in {"number", "version", "date"}
          => d = OperatorFamily[c.operator]
    <3>1. SUFFICES ASSUME c.operator \in DOMAIN OperatorFamily,
                          d \in {"number", "version", "date"}
                   PROVE  d = OperatorFamily[c.operator]
      OBVIOUS
    <3>2. c.field \in DOMAIN inferred /\ d = inferred[c.field].type
      BY <2>7
    <3>3. c.operator \in DOMAIN FromUnleashOperator
      BY <2>1 DEF HasOperator, OperatorTable, FromUnleashOperator, InvertedFromUnleashOperator
    <3> QED BY <2>3, <3>1, <3>2, <3>3, FieldTypes
  <2>10. c.operator \in DOMAIN OperatorTable(c)
    BY <2>1 DEF HasOperator
  <2>11. t = "version" => \A text \in ({ctx[c.field]} \cup Range(c.values)) \cap DOMAIN PartsOf :
                              IsRelease(text)
    BY <2>5, <2>6, <2>7 DEF Released
  <2> HIDE DEF t, d
  <2> QED BY <2>1, <2>4, <2>5, <2>7, <2>8, <2>9, <2>10, <2>11, ConstraintCarries
<1>3. ASSUME s.name = "userWithId"
      PROVE  "userId" \in DOMAIN ctx /\ ctx["userId"] \in Range(s.userIds)
  <2>1. user \in ConvertStrategy(s, inferred)
    BY <1>3 DEF ConvertStrategy
  <2>2. user.field = "userId" /\ user.op = "in" /\ user.values = s.userIds
    OBVIOUS
  <2>3. Agreed(user, D, L) /\ Matches(user, TypesOf(L), ctx)
    BY <2>1
  <2> DEFINE t == L["userId"].type
             v == ctx["userId"]
  <2> HIDE DEF user
  <2>4. /\ "userId" \in DOMAIN ctx /\ t \in Types /\ "in" \in OperatorsByType[t]
        /\ Test(t, "in", v, s.userIds)
    <3>1. /\ user.field \in DOMAIN ctx /\ L[user.field].type \in Types
          /\ user.op \in OperatorsByType[L[user.field].type]
          /\ Test(L[user.field].type, user.op, ctx[user.field], user.values)
      BY <2>3, AgreedTest
    <3> QED BY <2>2, <3>1
  <2> HIDE DEF t, v
  <2>5. t \in {"string", "enum"}
    BY <2>4 DEF OperatorsByType, Types
  <2>6. \E j \in DOMAIN s.userIds : s.userIds[j] = v
    BY <2>4, <2>5, TransferAssumption DEF Test
  <2> QED BY <2>4, <2>6 DEF Range, v
<1> QED BY <1>2, <1>3 DEF UnleashMatches, Converts

\* context_fields.type is one of the types, and so is every type a document gives.
LEMMA DocumentIsTyped ==
    ASSUME Documented, stage \notin {"start", "unleash"}
    PROVE  Typed(document.fields)
<1>1. CASE file = None
  <2>1. origin \in Origins /\ document.fields = origin.fields
    BY <1>1 DEF Documented, Renders
  <2> QED BY <2>1, TransferAssumption DEF AreFields, Typed
<1>2. CASE file # None
  <2>1. document.fields
          = [k \in DOMAIN InferredFields(file) \cap LegalKey |-> InferredFields(file)[k]]
    BY <1>2 DEF Documented, Reads
  <2>2. \A k \in DOMAIN InferredFields(file) : InferredFields(file)[k].type \in Types
    BY FieldTypes
  <2> QED BY <2>1, <2>2 DEF Typed
<1> QED BY <1>1, <1>2

\* The fields of the project imported into are typed in every state.
LEMMA AlwaysTyped == Spec => []Typed(local.fields)
<1>1. Init => Typed(local.fields)
  BY TransferAssumption DEF Init, IsProject, AreFields, Typed
<1>2. Imported /\ Documented /\ Typed(local.fields) /\ [Next]_vars => Typed(local.fields)'
  <2> SUFFICES ASSUME Imported, Documented, Typed(local.fields), [Next]_vars
               PROVE  Typed(local'.fields)
    OBVIOUS
  <2>1. CASE local' = local
    BY <2>1
  <2>2. CASE stage \notin {"start", "unleash"} /\ \E a : Apply(a)
    <3>1. PICK a : local' = ProjectAfter(local, document, a)
      BY <2>2 DEF Apply
    <3>2. local'.fields = Over(local.fields, document.fields)
      BY <3>1, AfterImportFields DEF FieldsAfter, Imported
    <3>3. Typed(document.fields)
      BY <2>2, DocumentIsTyped
    <3> QED BY <3>2, <3>3 DEF Typed, Over
  <2> QED BY <2>1, <2>2 DEF Next, vars, ExportNative, ExportUnleash, ReceiveUnleash, RepeatFlags,
                            Convert, Import, ImportAgain
<1> QED BY <1>1, <1>2, AlwaysImported, AlwaysDocumented, PTL DEF Spec

\* applyImport: the lists of an imported flag have strategies of the document, in
\* which every constraint is legal.
LEMMA FilteredElements ==
    ASSUME NEW fields, NEW list, IsList(list), NEW s \in Range(Filter(fields, list))
    PROVE  s \in Range(list) /\ \A c \in s : ~ConstraintError(fields, c)
  BY AmongElements DEF Filter

\* applyImport, toNative: whoever an imported flag is on for, it was on for where the
\* file comes from, unless none of its strategies survived or an Unleash constraint
\* compares a version that is not a release (transfer.service.ts:204-427,
\* unleash.adapter.ts:230-520, evaluate.ts:28-41).
THEOREM WidensNoOther == Spec => []WidensOnlyAsKnown
<1>1. /\ Imported /\ Documented /\ Accepted /\ Typed(local.fields)
      => WidensOnlyAsKnown
  <2> SUFFICES ASSUME Imported, Documented, Accepted, Typed(local.fields), Done,
                      NEW k \in Written, NEW n \in Placed(k),
                      LET list == local.flags[k].strategies[Resolve(args, n)] IN
                      /\ list # <<>> \/ SourceList(k, n) = <<>>
                      /\ \A i \in DOMAIN list : \A c \in list[i] : ReadAlike(c),
                      NEW ctx \in Callers,
                      file # None =>
                        ComparesReleases(local.flags[k].strategies[Resolve(args, n)], ctx),
                      IsOn(local, k, Resolve(args, n), ctx)
               PROVE  /\ SourceTargets(k, n, ctx)
                      /\ SourceEnabled(k, n) \/ NeedsApproval(Resolve(args, n))
    BY DEF WidensOnlyAsKnown
  <2> DEFINE slug == Resolve(args, n)
             list == local.flags[k].strategies[slug]
  <2>1. PICK x \in DOMAIN document.flags : \E y \in DOMAIN document.flags[x].envs :
           /\ document.flags[x].key = k
           /\ document.flags[x].envs[y].name = n
           /\ list = Filter(local.fields, document.flags[x].envs[y].strategies)
           /\ slug \in DOMAIN local.flags[k].row /\ ~NeedsApproval(slug)
                => local.flags[k].row[slug] = document.flags[x].envs[y].enabled
    BY PlacedIsWritten
  <2>2. PICK y \in DOMAIN document.flags[x].envs :
           /\ document.flags[x].key = k
           /\ document.flags[x].envs[y].name = n
           /\ list = Filter(local.fields, document.flags[x].envs[y].strategies)
           /\ slug \in DOMAIN local.flags[k].row /\ ~NeedsApproval(slug)
                => local.flags[k].row[slug] = document.flags[x].envs[y].enabled
    BY <2>1
  <2> DEFINE said == document.flags[x].envs[y]
  <2>3. file = None => /\ origin \in Origins /\ Renders(document, origin)
                       /\ k \in DOMAIN origin.flags /\ IsFlag(origin.flags[k])
                       /\ n \in DOMAIN origin.flags[k].row
                       /\ said.enabled = origin.flags[k].row[n]
                       /\ said.strategies = origin.flags[k].strategies[n]
    <3>1. ASSUME file = None
          PROVE  /\ origin \in Origins /\ Renders(document, origin)
                 /\ k \in DOMAIN origin.flags
                 /\ said.enabled = origin.flags[k].row[n]
                 /\ said.strategies = origin.flags[k].strategies[n]
      BY <2>2, <3>1 DEF Documented, Done, Renders
    <3>2. ASSUME file = None PROVE n \in DOMAIN origin.flags[k].row
      BY <3>2 DEF Placed, SourceNames
    <3> QED BY <3>1, <3>2, TransferAssumption
  <2>4. file # None => /\ IsUnleashFile(file) /\ Reads(document, file)
                       /\ ReadsEnvironment(file, k, said)
    BY <2>2 DEF Documented, Done, Reads
  <2>5. Typed(document.fields)
    BY DocumentIsTyped DEF Done
  <2>6. SourceEnabled(k, n) \/ NeedsApproval(slug)
    <3>1. SUFFICES ASSUME ~NeedsApproval(slug) PROVE SourceEnabled(k, n)
      OBVIOUS
    <3>2. slug \in DOMAIN local.flags[k].row /\ local.flags[k].row[slug]
      BY DEF IsOn, EvaluateFlag, StateIn
    <3>3. said.enabled
      BY <2>2, <3>1, <3>2
    <3>4. CASE file = None
      BY <2>3, <3>3, <3>4 DEF SourceEnabled
    <3>5. CASE file # None
      BY <2>2, <2>4, <3>3, <3>5 DEF SourceEnabled, ReadsEnvironment
    <3> QED BY <3>4, <3>5
  <2>7. CASE SourceList(k, n) = <<>>
    BY <2>6, <2>7 DEF SourceTargets
  <2>8. CASE SourceList(k, n) # <<>>
    <3>1. PICK i \in DOMAIN list : StrategyMatches(list[i], TypesOf(local.fields), ctx)
      BY <2>8 DEF IsOn, EvaluateFlag
    <3> DEFINE s == list[i]
    <3>2. IsList(said.strategies)
      <4>1. CASE file = None
        BY <2>3, <4>1, FlagLists
      <4>2. CASE file # None
        BY <2>4, <4>2 DEF ReadsEnvironment
      <4> QED BY <4>1, <4>2
    <3>3. s \in Range(list)
      BY <3>1 DEF Range
    <3>4. s \in Range(said.strategies) /\ \A c \in s : ~ConstraintError(local.fields, c)
      <4> HIDE DEF s, said, list
      <4> QED BY <2>2, <3>2, <3>3, FilteredElements DEF said
    <3>5. \A c \in s : /\ Agreed(c, document.fields, local.fields)
                       /\ Matches(c, TypesOf(local.fields), ctx)
      BY <3>1, <3>4 DEF ReadAlike, Agreed, StrategyMatches
    <3>8. file # None => \A c \in s : Released(c, local.fields, ctx)
      BY <3>1 DEF ComparesReleases, Released
    <3> HIDE DEF s, said
    <3>6. CASE file = None
      <4>1. \A c \in s : Matches(c, TypesOf(document.fields), ctx)
        BY <2>5, <3>5, AgreedTest
      <4>2. StrategyMatches(s, TypesOf(origin.fields), ctx)
        BY <2>3, <3>6, <4>1 DEF StrategyMatches, Renders
      <4>3. s \in Range(SourceList(k, n))
        BY <2>3, <3>4, <3>6 DEF SourceList
      <4> QED BY <2>6, <3>6, <4>2, <4>3 DEF SourceTargets, Range
    <3>7. CASE file # None
      <4>1. PICK u \in Range(PlacedIn(file, k, n)) :
               Converts(u, InferredFields(file)) /\ s = ConvertStrategy(u, InferredFields(file))
        BY <2>2, <2>4, <3>4, <3>7 DEF ReadsEnvironment, said
      <4>2. u \in Range(file.strategies)
        BY <2>4, <3>7, <4>1, AmongElements DEF PlacedIn, IsUnleashFile
      <4>3. document.fields
              = [f \in DOMAIN InferredFields(file) \cap LegalKey |-> InferredFields(file)[f]]
        BY <2>4, <3>7 DEF Reads
      <4>4. \A f \in DOMAIN document.fields : /\ f \in DOMAIN InferredFields(file)
                                              /\ document.fields[f] = InferredFields(file)[f]
        BY <4>3
      <4>5. UnleashMatches(u, ctx)
        BY <2>4, <2>5, <3>5, <3>7, <3>8, <4>1, <4>2, <4>4, StrategyCarries
      <4> QED BY <2>6, <3>7, <4>1, <4>5 DEF SourceTargets, SourceList, Range
    <3> QED BY <3>6, <3>7
  <2> QED BY <2>7, <2>8
<1> QED BY <1>1, AlwaysImported, AlwaysDocumented, AlwaysAccepted, AlwaysTyped, PTL
=============================================================================
