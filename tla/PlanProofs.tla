----------------------------- MODULE PlanProofs ------------------------------
(***************************************************************************)
(* Lemmas about ConvergePlan, for any list and any target: what the scan   *)
(* of the list stops and counts, how the plan alternates starts and stops, *)
(* and how many containers there are after any number of its steps.        *)
(***************************************************************************)
EXTENDS ConvergePlan, FiniteSetTheorems, SequenceTheorems, WellFoundedInduction, TLAPS

(* Induction over the natural numbers, for sets. *)
LEMMA SetInduction ==
  ASSUME NEW T \in SUBSET Nat, 0 \in T, \A m \in T : m + 1 \in T
  PROVE  T = Nat
<1> SUFFICES ASSUME Nat \ T # {} PROVE FALSE
  OBVIOUS
<1>1. PICK x \in Nat \ T : \A y \in Nat \ T : ~ (<<y, x>> \in OpToRel(<, Nat))
  BY NatLessThanWellFounded, WFMin
<1>2. x - 1 \in T
  <2>1. x - 1 \in Nat /\ x - 1 < x
    OBVIOUS
  <2> QED
    BY <1>1, <2>1 DEF OpToRel
<1> QED
  BY <1>2

-----------------------------------------------------------------------------
(* Sequences. *)

(* A sequence without its k-th element. *)
Cut(seq, k) == SubSeq(seq, 1, k - 1) \o SubSeq(seq, k + 1, Len(seq))

LEMMA CutElements ==
  ASSUME NEW S, NEW seq \in Seq(S), NEW k \in 1 .. Len(seq)
  PROVE  /\ Cut(seq, k) \in Seq(S) /\ Len(Cut(seq, k)) = Len(seq) - 1
         /\ Len(seq) \in Nat /\ DOMAIN Cut(seq, k) = 1 .. Len(seq) - 1
         /\ \A i \in 1 .. Len(seq) - 1 :
              Cut(seq, k)[i] = IF i < k THEN seq[i] ELSE seq[i + 1]
<1> DEFINE a == SubSeq(seq, 1, k - 1)
           b == SubSeq(seq, k + 1, Len(seq))
<1>5. /\ Len(seq) \in Nat /\ DOMAIN seq = 1 .. Len(seq)
      /\ \A i \in 1 .. Len(seq) : seq[i] \in S
  BY LenProperties, ElementOfSeq
<1>6. /\ a \in Seq(S) /\ Len(a) = k - 1
      /\ \A i \in 1 .. k - 1 : a[i] = seq[i]
  <2>1. \A i \in 1 .. k - 1 : seq[i] \in S
    BY <1>5
  <2> QED
    BY <2>1, SubSeqProperties
<1>7. /\ b \in Seq(S) /\ Len(b) = Len(seq) - k
      /\ \A i \in 1 .. Len(seq) - k : b[i] = seq[k + i]
  <2>1. \A i \in k + 1 .. Len(seq) : seq[i] \in S
    BY <1>5
  <2>2. /\ b \in Seq(S)
        /\ Len(b) = IF k + 1 <= Len(seq) THEN Len(seq) - (k + 1) + 1 ELSE 0
        /\ \A i \in 1 .. Len(seq) - (k + 1) + 1 : b[i] = seq[(k + 1) + i - 1]
    BY <1>5, <2>1, SubSeqProperties
  <2> HIDE DEF b
  <2>3. Len(b) = Len(seq) - k
    <3>1. Len(seq) \in Nat /\ k \in Nat /\ k <= Len(seq)
      BY <1>5
    <3>2. CASE k + 1 <= Len(seq)
      BY <2>2, <3>1, <3>2
    <3>3. CASE k = Len(seq)
      BY <2>2, <3>1, <3>3
    <3> QED
      BY <3>1, <3>2, <3>3
  <2>4. ASSUME NEW i \in 1 .. Len(seq) - k PROVE b[i] = seq[k + i]
    <3>1. i \in 1 .. Len(seq) - (k + 1) + 1 /\ (k + 1) + i - 1 = k + i
      BY <1>5
    <3> QED
      BY <2>2, <3>1
  <2> QED
    BY <2>2, <2>3, <2>4
<1> DEFINE w == a \o b
<1> HIDE DEF a, b
<1>8. /\ w \in Seq(S) /\ Len(w) = Len(seq) - 1 /\ DOMAIN w = 1 .. Len(seq) - 1
      /\ \A i \in 1 .. Len(seq) - 1 : w[i] = IF i < k THEN seq[i] ELSE seq[i + 1]
  <2>1. /\ w \in Seq(S) /\ Len(w) = Len(a) + Len(b)
        /\ \A i \in 1 .. Len(a) + Len(b) :
             w[i] = IF i <= Len(a) THEN a[i] ELSE b[i - Len(a)]
    BY <1>6, <1>7, ConcatProperties
  <2>2. DOMAIN w = 1 .. Len(w)
    BY <2>1, LenProperties
  <2> HIDE DEF w
  <2>3. ASSUME NEW i \in 1 .. Len(seq) - 1
        PROVE  w[i] = IF i < k THEN seq[i] ELSE seq[i + 1]
    <3>1. CASE i < k
      <4>1. i \in 1 .. k - 1 /\ i <= Len(a) /\ i \in 1 .. Len(a) + Len(b)
        BY <1>5, <1>6, <1>7, <3>1
      <4> QED
        BY <1>6, <2>1, <3>1, <4>1
    <3>2. CASE ~ (i < k)
      <4>1. /\ i - Len(a) \in 1 .. Len(seq) - k /\ ~ (i <= Len(a))
            /\ i \in 1 .. Len(a) + Len(b) /\ k + (i - Len(a)) = i + 1
        BY <1>5, <1>6, <1>7, <3>2
      <4>2. w[i] = b[i - Len(a)]
        BY <2>1, <4>1
      <4> QED
        BY <1>7, <3>2, <4>1, <4>2
    <3> QED
      BY <3>1, <3>2
  <2> QED
    BY <1>5, <1>6, <1>7, <2>1, <2>2, <2>3
<1> QED
  BY <1>5, <1>8 DEF a, b, w, Cut

(* What is left of a sequence after its first p elements. *)
After(seq, p) == SubSeq(seq, p + 1, Len(seq))

LEMMA AfterElements ==
  ASSUME NEW S, NEW seq \in Seq(S), NEW p \in 0 .. Len(seq)
  PROVE  /\ After(seq, p) = <<>> <=> p = Len(seq)
         /\ p < Len(seq) => /\ Head(After(seq, p)) = seq[p + 1]
                            /\ Tail(After(seq, p)) = After(seq, p + 1)
         /\ After(seq, p) \in Seq(S) /\ Len(After(seq, p)) = Len(seq) - p
         /\ \A i \in DOMAIN After(seq, p) :
              p + i \in DOMAIN seq /\ After(seq, p)[i] = seq[p + i]
         /\ p = 0 => After(seq, p) = seq
<1>1. Len(seq) \in Nat /\ DOMAIN seq = 1 .. Len(seq) /\ \A i \in 1 .. Len(seq) : seq[i] \in S
  BY LenProperties, ElementOfSeq
<1>2. ASSUME NEW n \in 0 .. Len(seq)
      PROVE  /\ After(seq, n) \in Seq(S) /\ Len(After(seq, n)) = Len(seq) - n
             /\ \A i \in 1 .. Len(seq) - n : After(seq, n)[i] = seq[n + i]
  <2>1. /\ After(seq, n) \in Seq(S)
        /\ Len(After(seq, n)) = IF n + 1 <= Len(seq) THEN Len(seq) - (n + 1) + 1 ELSE 0
        /\ \A i \in 1 .. Len(seq) - (n + 1) + 1 : After(seq, n)[i] = seq[(n + 1) + i - 1]
    <3>1. n + 1 \in Int /\ Len(seq) \in Int /\ \A i \in n + 1 .. Len(seq) : seq[i] \in S
      BY <1>1
    <3> QED
      BY <3>1, SubSeqProperties DEF After
  <2>2. Len(After(seq, n)) = Len(seq) - n
    <3>1. CASE n + 1 <= Len(seq)
      BY <1>1, <2>1, <3>1
    <3>2. CASE n = Len(seq)
      <4>1. ~ (n + 1 <= Len(seq))
        BY <1>1, <3>2
      <4> QED
        BY <1>1, <2>1, <3>2, <4>1
    <3>3. n + 1 <= Len(seq) \/ n = Len(seq)
      <4>1. Len(seq) \in Nat
        BY <1>1
      <4> QED
        BY <4>1
    <3> QED
      BY <3>1, <3>2, <3>3
  <2>3. ASSUME NEW i \in 1 .. Len(seq) - n PROVE After(seq, n)[i] = seq[n + i]
    <3>1. i \in 1 .. Len(seq) - (n + 1) + 1 /\ (n + 1) + i - 1 = n + i
      BY <1>1
    <3> QED
      BY <2>1, <3>1
  <2> QED
    BY <2>1, <2>2, <2>3
<1>3. After(seq, p) = <<>> <=> p = Len(seq)
  <2>1. Len(After(seq, p)) = Len(seq) - p /\ After(seq, p) \in Seq(S)
    BY <1>2
  <2>2. After(seq, p) = <<>> <=> Len(After(seq, p)) = 0
    BY <2>1, EmptySeq
  <2>3. Len(seq) - p = 0 <=> p = Len(seq)
    BY <1>1
  <2> QED
    BY <2>1, <2>2, <2>3
<1>4. ASSUME NEW i \in DOMAIN After(seq, p)
      PROVE  p + i \in DOMAIN seq /\ After(seq, p)[i] = seq[p + i]
  <2>1. i \in 1 .. Len(seq) - p
    BY <1>2, LenProperties
  <2>2. After(seq, p)[i] = seq[p + i]
    BY <1>2, <2>1
  <2>3. p + i \in 1 .. Len(seq)
    BY <1>1, <2>1
  <2> QED
    BY <1>1, <2>2, <2>3
<1>5. ASSUME p < Len(seq)
      PROVE  /\ Head(After(seq, p)) = seq[p + 1]
             /\ Tail(After(seq, p)) = After(seq, p + 1)
  <2>1. After(seq, p) \in Seq(S) /\ After(seq, p) # <<>>
    BY <1>2, <1>3, <1>5
  <2>2. /\ Head(After(seq, p)) = After(seq, p)[1]
        /\ Tail(After(seq, p)) \in Seq(S)
        /\ Len(Tail(After(seq, p))) = Len(seq) - p - 1
        /\ \A i \in 1 .. Len(seq) - p - 1 : Tail(After(seq, p))[i] = After(seq, p)[i + 1]
    <3>1. /\ Head(After(seq, p)) = After(seq, p)[1]
          /\ Tail(After(seq, p)) \in Seq(S)
          /\ Len(Tail(After(seq, p))) = Len(After(seq, p)) - 1
          /\ \A i \in 1 .. Len(After(seq, p)) - 1 :
               Tail(After(seq, p))[i] = After(seq, p)[i + 1]
      BY <2>1, HeadTailProperties
    <3>2. Len(After(seq, p)) - 1 = Len(seq) - p - 1
      BY <1>1, <1>2
    <3> QED
      BY <3>1, <3>2
  <2>3. p + 1 \in 0 .. Len(seq) /\ 1 \in 1 .. Len(seq) - p
    BY <1>1, <1>5
  <2>4. Head(After(seq, p)) = seq[p + 1]
    BY <1>2, <2>2, <2>3
  <2>5. /\ After(seq, p + 1) \in Seq(S) /\ Len(After(seq, p + 1)) = Len(seq) - (p + 1)
        /\ \A i \in 1 .. Len(seq) - (p + 1) : After(seq, p + 1)[i] = seq[(p + 1) + i]
    BY <1>2, <2>3
  <2>6. ASSUME NEW i \in 1 .. Len(seq) - (p + 1)
        PROVE  Tail(After(seq, p))[i] = After(seq, p + 1)[i]
    <3>1. i \in 1 .. Len(seq) - p - 1 /\ i + 1 \in 1 .. Len(seq) - p
          /\ p + (i + 1) = (p + 1) + i
      BY <1>1
    <3> QED
      BY <1>2, <2>2, <2>5, <3>1
  <2>7. Len(Tail(After(seq, p))) = Len(After(seq, p + 1))
    BY <1>1, <2>2, <2>5
  <2>8. Tail(After(seq, p)) = After(seq, p + 1)
    BY <2>2, <2>5, <2>6, <2>7, SeqEqual
  <2> QED
    BY <2>4, <2>8
<1>6. p = 0 => After(seq, p) = seq
  <2> SUFFICES ASSUME p = 0 PROVE After(seq, p) = seq
    OBVIOUS
  <2>1. After(seq, p) \in Seq(S) /\ Len(After(seq, p)) = Len(seq)
    <3>1. After(seq, p) \in Seq(S) /\ Len(After(seq, p)) = Len(seq) - p
      BY <1>2
    <3> QED
      BY <1>1, <3>1
  <2>2. ASSUME NEW i \in 1 .. Len(seq) PROVE After(seq, p)[i] = seq[i]
    <3>1. i \in 1 .. Len(seq) - p /\ p + i = i
      BY <1>1
    <3> QED
      BY <1>2, <3>1
  <2> QED
    BY <2>1, <2>2, SeqEqual
<1> QED
  BY <1>2, <1>3, <1>4, <1>5, <1>6

-----------------------------------------------------------------------------
ScanStart == [active |-> 0, toStop |-> <<>>]
IsScan(f, m, cs, t) ==
  f = [i \in 0 .. m |-> IF i = 0 THEN ScanStart ELSE ScanOne(f[i - 1], cs[i], t)]

LEMMA ScanIs ==
  ASSUME NEW cs, NEW t, Len(cs) \in Nat
  PROVE  \E f : IsScan(f, Len(cs), cs, t) /\ Scan(cs, t) = f[Len(cs)]
<1> DEFINE T == {m \in Nat : \E f : IsScan(f, m, cs, t)}
<1>1. 0 \in T
  <2>1. IsScan([i \in 0 .. 0 |-> ScanStart], 0, cs, t)
    BY DEF IsScan
  <2> QED
    BY <2>1
<1>2. ASSUME NEW m \in T PROVE m + 1 \in T
  <2>1. PICK g : IsScan(g, m, cs, t)
    OBVIOUS
  <2> DEFINE f == [i \in 0 .. m + 1 |->
                     IF i = m + 1 THEN ScanOne(g[m], cs[m + 1], t) ELSE g[i]]
             h == [i \in 0 .. m + 1 |->
                     IF i = 0 THEN ScanStart ELSE ScanOne(f[i - 1], cs[i], t)]
  <2>2. ASSUME NEW i \in 0 .. m + 1 PROVE f[i] = h[i]
    <3>1. CASE i = m + 1
      <4>1. f[i] = ScanOne(g[m], cs[m + 1], t) /\ f[m] = g[m]
        BY <3>1
      <4>2. i # 0 /\ i - 1 = m
        BY <3>1
      <4>3. h[i] = ScanOne(f[i - 1], cs[i], t)
        BY <4>2
      <4> QED
        BY <3>1, <4>1, <4>2, <4>3
    <3>2. CASE i \in 0 .. m
      <4>1. f[i] = g[i] /\ (i # 0 => f[i - 1] = g[i - 1])
        BY <3>2
      <4>2. g[i] = IF i = 0 THEN ScanStart ELSE ScanOne(g[i - 1], cs[i], t)
        BY <2>1, <3>2 DEF IsScan
      <4>3. h[i] = IF i = 0 THEN ScanStart ELSE ScanOne(f[i - 1], cs[i], t)
        OBVIOUS
      <4> QED
        BY <4>1, <4>2, <4>3
    <3> QED
      BY <3>1, <3>2
  <2>3. f = h
    <3> HIDE DEF f
    <3>1. DOMAIN f = 0 .. m + 1 /\ f = [i \in 0 .. m + 1 |-> f[i]]
      BY DEF f
    <3> QED
      BY <2>2, <3>1
  <2>4. IsScan(f, m + 1, cs, t)
    BY <2>3 DEF IsScan
  <2> QED
    BY <2>4
<1>3. \E f : IsScan(f, Len(cs), cs, t)
  BY <1>1, <1>2, SetInduction
<1> DEFINE scan == CHOOSE acc : acc = [i \in 0 .. Len(cs) |->
                     IF i = 0 THEN [active |-> 0, toStop |-> <<>>]
                     ELSE ScanOne(acc[i - 1], cs[i], t)]
<1>4. IsScan(scan, Len(cs), cs, t)
  BY <1>3, Zenon DEF IsScan, ScanStart
<1>5. Scan(cs, t) = scan[Len(cs)]
  BY Zenon DEF Scan
<1> QED
  BY <1>4, <1>5

(* What a container must be to be kept. *)
Kept(cn, t) == cn.ver = t.ver /\ cn.reason = Unset

StopSteps(cs) ==
  [op : {"stop"}, id : {cs[i].id : i \in DOMAIN cs},
   reason : {cs[i].reason : i \in DOMAIN cs} \cup {ScaleDown, VersionChanged}]

(* The first i containers were kept and counted, or are to be stopped: ix tells
   which one each stop is for, in the order of the list. *)
Scanned(s, i, cs, t) ==
  /\ s.active \in Nat /\ s.toStop \in Seq(StopSteps(cs))
  /\ s = [active |-> s.active, toStop |-> s.toStop]
  /\ s.active + Len(s.toStop) = i /\ s.active <= t.count
StopIndex(ix, s, i, cs, t) ==
  /\ ix \in [1 .. Len(s.toStop) -> 1 .. i]
  /\ \A k \in 1 .. Len(s.toStop) : s.toStop[k].id = cs[ix[k]].id
  /\ \A k, l \in 1 .. Len(s.toStop) : k < l => ix[k] < ix[l]
  /\ \A j \in 1 .. i : Kept(cs[j], t) \/ \E k \in 1 .. Len(s.toStop) : ix[k] = j
  /\ \A k \in 1 .. Len(s.toStop) : Kept(cs[ix[k]], t) => s.active = t.count

LEMMA ScanStep ==
  ASSUME NEW C, NEW cs \in Seq(C), NEW t, t.count \in Nat,
         NEW i \in Nat, i + 1 \in DOMAIN cs,
         NEW s, Scanned(s, i, cs, t), \E ix : StopIndex(ix, s, i, cs, t)
  PROVE  LET r == ScanOne(s, cs[i + 1], t) IN
           Scanned(r, i + 1, cs, t) /\ \E ix : StopIndex(ix, r, i + 1, cs, t)
<1> DEFINE cn == cs[i + 1]
           r == ScanOne(s, cn, t)
<1>0. r = ScanOne(s, cn, t)
  OBVIOUS
<1> HIDE DEF r
<1>1. PICK ix : StopIndex(ix, s, i, cs, t)
  OBVIOUS
<1>2. /\ s.active \in Nat /\ s.toStop \in Seq(StopSteps(cs)) /\ Len(s.toStop) \in Nat
      /\ s.active + Len(s.toStop) = i /\ s.active <= t.count
      /\ s = [active |-> s.active, toStop |-> s.toStop]
  BY LenProperties DEF Scanned
<1>3. CASE r = [active |-> s.active + 1, toStop |-> s.toStop]
            /\ s.active < t.count /\ Kept(cn, t)
  <2>1. Scanned(r, i + 1, cs, t)
    BY <1>2, <1>3 DEF Scanned
  <2>2. StopIndex(ix, r, i + 1, cs, t)
    <3>1. r.toStop = s.toStop /\ r.active = s.active + 1
      BY <1>3
    <3>2. ix \in [1 .. Len(s.toStop) -> 1 .. i + 1]
      BY <1>1, <1>2 DEF StopIndex
    <3>3. \A j \in 1 .. i + 1 : Kept(cs[j], t) \/ \E k \in 1 .. Len(s.toStop) : ix[k] = j
      BY <1>1, <1>3 DEF StopIndex
    <3>4. \A k \in 1 .. Len(s.toStop) : ~ Kept(cs[ix[k]], t)
      BY <1>1, <1>2, <1>3 DEF StopIndex
    <3> QED
      BY <1>1, <3>1, <3>2, <3>3, <3>4 DEF StopIndex
  <2> QED
    BY <1>0, <2>1, <2>2
<1>4. ASSUME NEW reason \in {cs[j].reason : j \in DOMAIN cs} \cup {ScaleDown, VersionChanged},
             r = [active |-> s.active, toStop |-> Append(s.toStop, StopStep(cn.id, reason))],
             Kept(cn, t) => s.active = t.count
      PROVE  Scanned(r, i + 1, cs, t) /\ \E jx : StopIndex(jx, r, i + 1, cs, t)
  <2> DEFINE n == Len(s.toStop)
             q == Append(s.toStop, StopStep(cn.id, reason))
             jx == [k \in 1 .. n + 1 |-> IF k = n + 1 THEN i + 1 ELSE ix[k]]
  <2>1. StopStep(cn.id, reason) \in StopSteps(cs) /\ StopStep(cn.id, reason).id = cn.id
    BY DEF StopStep, StopSteps
  <2>2. /\ q \in Seq(StopSteps(cs)) /\ Len(q) = n + 1
        /\ \A k \in 1 .. n : q[k] = s.toStop[k]
        /\ q[n + 1] = StopStep(cn.id, reason)
    BY <1>2, <2>1, AppendProperties
  <2>3. r.toStop = q /\ r.active = s.active /\ r = [active |-> r.active, toStop |-> r.toStop]
    BY <1>4
  <2> HIDE DEF q
  <2>4. Scanned(r, i + 1, cs, t)
    <3>1. r.active + Len(q) = i + 1
      BY <1>2, <2>2, <2>3
    <3> QED
      BY <1>2, <2>2, <2>3, <3>1 DEF Scanned
  <2>5. /\ \A k \in 1 .. n : jx[k] = ix[k] /\ ix[k] \in 1 .. i
        /\ jx[n + 1] = i + 1
    BY <1>1, <1>2 DEF StopIndex
  <2>6. jx \in [1 .. n + 1 -> 1 .. i + 1]
    <3>1. \A k \in 1 .. n + 1 : (IF k = n + 1 THEN i + 1 ELSE ix[k]) \in 1 .. i + 1
      <4>1. \A k \in 1 .. n + 1 : k = n + 1 \/ k \in 1 .. n
        BY <1>2
      <4>2. ASSUME NEW k \in 1 .. n PROVE ix[k] \in 1 .. i + 1
        <5>1. ix[k] \in 1 .. i
          BY <2>5
        <5> QED
          BY <5>1
      <4> QED
        BY <4>1, <4>2
    <3> QED
      BY <3>1
  <2> HIDE DEF jx
  <2>7. \A k \in 1 .. n + 1 : q[k].id = cs[jx[k]].id
    <3> SUFFICES ASSUME NEW k \in 1 .. n + 1 PROVE q[k].id = cs[jx[k]].id
      OBVIOUS
    <3>1. CASE k = n + 1
      BY <2>1, <2>2, <2>5, <3>1
    <3>2. CASE k \in 1 .. n
      BY <1>1, <2>2, <2>5, <3>2 DEF StopIndex
    <3> QED
      BY <1>2, <3>1, <3>2
  <2>8. \A k, l \in 1 .. n + 1 : k < l => jx[k] < jx[l]
    <3> SUFFICES ASSUME NEW k \in 1 .. n + 1, NEW l \in 1 .. n + 1, k < l
                 PROVE  jx[k] < jx[l]
      OBVIOUS
    <3>1. k \in 1 .. n
      BY <1>2
    <3>2. CASE l \in 1 .. n
      BY <1>1, <2>5, <3>1, <3>2 DEF StopIndex
    <3>3. CASE l = n + 1
      <4>1. jx[k] \in 1 .. i
        BY <2>5, <3>1
      <4> QED
        BY <2>5, <3>3, <4>1
    <3> QED
      BY <1>2, <3>2, <3>3
  <2>9. \A j \in 1 .. i + 1 : Kept(cs[j], t) \/ \E k \in 1 .. n + 1 : jx[k] = j
    <3> SUFFICES ASSUME NEW j \in 1 .. i + 1, ~ Kept(cs[j], t)
                 PROVE  \E k \in 1 .. n + 1 : jx[k] = j
      OBVIOUS
    <3>1. CASE j = i + 1
      BY <1>2, <2>5, <3>1
    <3>2. CASE j \in 1 .. i
      <4>1. PICK k \in 1 .. n : ix[k] = j
        BY <1>1, <3>2 DEF StopIndex
      <4>2. k \in 1 .. n + 1 /\ jx[k] = j
        BY <1>2, <2>5, <4>1
      <4> QED
        BY <4>2
    <3> QED
      BY <3>1, <3>2
  <2>10. \A k \in 1 .. n + 1 : Kept(cs[jx[k]], t) => s.active = t.count
    <3> SUFFICES ASSUME NEW k \in 1 .. n + 1, Kept(cs[jx[k]], t) PROVE s.active = t.count
      OBVIOUS
    <3>1. CASE k = n + 1
      BY <1>4, <2>5, <3>1
    <3>2. CASE k \in 1 .. n
      BY <1>1, <2>5, <3>2 DEF StopIndex
    <3> QED
      BY <1>2, <3>1, <3>2
  <2>11. StopIndex(jx, r, i + 1, cs, t)
    BY <2>2, <2>3, <2>6, <2>7, <2>8, <2>9, <2>10 DEF StopIndex
  <2> QED
    BY <2>4, <2>11
<1>5. \/ /\ r = [active |-> s.active + 1, toStop |-> s.toStop]
         /\ s.active < t.count /\ Kept(cn, t)
      \/ \E reason \in {cs[j].reason : j \in DOMAIN cs} \cup {ScaleDown, VersionChanged} :
            /\ r = [active |-> s.active, toStop |-> Append(s.toStop, StopStep(cn.id, reason))]
            /\ Kept(cn, t) => s.active = t.count
  <2>0. PICK a, b : s = [active |-> a, toStop |-> b] /\ s.active = a /\ s.toStop = b
    BY <1>2
  <2>1. ASSUME NEW reason
        PROVE  [s EXCEPT !.toStop = Append(@, StopStep(cn.id, reason))]
                 = [active |-> s.active, toStop |-> Append(s.toStop, StopStep(cn.id, reason))]
    <3> DEFINE v == Append(s.toStop, StopStep(cn.id, reason))
    <3>1. \A w : [s EXCEPT !.toStop = w] = [active |-> s.active, toStop |-> w]
      BY <2>0
    <3>2. [s EXCEPT !.toStop = v] = [active |-> s.active, toStop |-> v]
      BY <3>1
    <3> QED
      BY <3>2
  <2>2. [s EXCEPT !.active = @ + 1] = [active |-> s.active + 1, toStop |-> s.toStop]
    BY <2>0
  <2>3. cn.reason \in {cs[j].reason : j \in DOMAIN cs} \cup {ScaleDown, VersionChanged}
    OBVIOUS
  <2>4. CASE s.active >= t.count
    <3>1. r = [active |-> s.active, toStop |-> Append(s.toStop, StopStep(cn.id, ScaleDown))]
      BY <1>0, <2>1, <2>4 DEF ScanOne
    <3>2. s.active = t.count
      BY <1>2, <2>4
    <3> QED
      BY <3>1, <3>2
  <2>5. CASE s.active < t.count
    <3>1. ~ (s.active >= t.count)
      BY <1>2, <2>5
    <3>2. CASE cn.reason # Unset
      <4>1. r = [active |-> s.active, toStop |-> Append(s.toStop, StopStep(cn.id, cn.reason))]
        BY <1>0, <2>1, <3>1, <3>2 DEF ScanOne
      <4> QED
        BY <2>3, <3>2, <4>1 DEF Kept
    <3>3. CASE cn.reason = Unset /\ cn.ver = t.ver
      <4>1. r = [active |-> s.active + 1, toStop |-> s.toStop]
        BY <1>0, <2>2, <3>1, <3>3 DEF ScanOne
      <4> QED
        BY <2>5, <3>3, <4>1 DEF Kept
    <3>4. CASE cn.reason = Unset /\ cn.ver # t.ver
      <4>1. r = [active |-> s.active,
                 toStop |-> Append(s.toStop, StopStep(cn.id, VersionChanged))]
        BY <1>0, <2>1, <3>1, <3>4 DEF ScanOne
      <4> QED
        BY <3>4, <4>1 DEF Kept
    <3> QED
      BY <3>2, <3>3, <3>4
  <2> QED
    BY <1>2, <2>4, <2>5
<1> QED
  BY <1>0, <1>3, <1>4, <1>5

(* What the loop over a list returns. *)
LEMMA ScanReturns ==
  ASSUME NEW C, NEW cs \in Seq(C), NEW t, t.count \in Nat
  PROVE  LET s == Scan(cs, t) IN
           Scanned(s, Len(cs), cs, t) /\ \E ix : StopIndex(ix, s, Len(cs), cs, t)
<1>1. Len(cs) \in Nat /\ DOMAIN cs = 1 .. Len(cs)
  BY LenProperties
<1>2. PICK f : IsScan(f, Len(cs), cs, t) /\ Scan(cs, t) = f[Len(cs)]
  BY <1>1, ScanIs
<1> DEFINE T == {m \in Nat : m <= Len(cs) =>
                   Scanned(f[m], m, cs, t) /\ \E ix : StopIndex(ix, f[m], m, cs, t)}
<1>3. 0 \in T
  <2>1. f[0] = [active |-> 0, toStop |-> <<>>]
    BY <1>1, <1>2 DEF IsScan, ScanStart
  <2>2. <<>> \in Seq(StopSteps(cs)) /\ Len(<<>>) = 0
    BY EmptySeq
  <2>3. Scanned(f[0], 0, cs, t)
    BY <2>1, <2>2 DEF Scanned
  <2>4. StopIndex([k \in 1 .. 0 |-> 0], f[0], 0, cs, t)
    BY <2>1, <2>2 DEF StopIndex
  <2> QED
    BY <2>3, <2>4
<1>4. ASSUME NEW m \in T PROVE m + 1 \in T
  <2> SUFFICES ASSUME m + 1 <= Len(cs)
               PROVE  /\ Scanned(f[m + 1], m + 1, cs, t)
                      /\ \E ix : StopIndex(ix, f[m + 1], m + 1, cs, t)
    OBVIOUS
  <2>1. f[m + 1] = ScanOne(f[m], cs[m + 1], t)
    <3>1. m + 1 \in 0 .. Len(cs) /\ m + 1 # 0 /\ (m + 1) - 1 = m
      BY <1>1
    <3>2. f[m + 1] = ScanOne(f[(m + 1) - 1], cs[m + 1], t)
      BY <1>2, <3>1 DEF IsScan
    <3> QED
      BY <3>1, <3>2
  <2>2. m \in Nat /\ m <= Len(cs) /\ m + 1 \in DOMAIN cs
    BY <1>1
  <2>3. Scanned(f[m], m, cs, t) /\ \E ix : StopIndex(ix, f[m], m, cs, t)
    BY <2>2
  <2> QED
    BY <2>1, <2>2, <2>3, ScanStep
<1>5. Len(cs) \in T
  BY <1>1, <1>3, <1>4, SetInduction
<1> QED
  BY <1>1, <1>2, <1>5

-----------------------------------------------------------------------------
(* How starts and stops alternate.                                         *)

LEMMA Halves ==
  ASSUME NEW z \in Nat
  PROVE  \E h \in Nat : \/ z = 2 * h /\ z \div 2 = h /\ z % 2 = 0
                        \/ z = 2 * h + 1 /\ z \div 2 = h /\ z % 2 = 1
<1> DEFINE T == {n \in Nat : \E h \in Nat : n = 2 * h \/ n = 2 * h + 1}
<1>1. 0 \in T
  OBVIOUS
<1>2. ASSUME NEW n \in T PROVE n + 1 \in T
  <2>1. PICK h \in Nat : n = 2 * h \/ n = 2 * h + 1
    OBVIOUS
  <2>2. CASE n = 2 * h
    <3>1. n + 1 = 2 * h + 1 /\ n + 1 \in Nat
      BY <2>2
    <3> QED
      BY <3>1
  <2>3. CASE n = 2 * h + 1
    <3>1. n + 1 = 2 * (h + 1) /\ h + 1 \in Nat /\ n + 1 \in Nat
      BY <2>3
    <3> QED
      BY <3>1
  <2> QED
    BY <2>1, <2>2, <2>3
<1>3. PICK h \in Nat : z = 2 * h \/ z = 2 * h + 1
  <2>1. T = Nat
    <3> HIDE DEF T
    <3>1. T \in SUBSET Nat
      BY DEF T
    <3> QED
      BY <1>1, <1>2, <3>1, SetInduction
  <2> QED
    BY <2>1
<1>4. CASE z = 2 * h
  BY <1>4
<1>5. CASE z = 2 * h + 1
  BY <1>5
<1> QED
  BY <1>3, <1>4, <1>5

(* The starts among the first p steps, when there are a starts and b stops. *)
StartsAmong(a, b, first, p) ==
  IF p <= 2 * (IF a < b THEN a ELSE b)
  THEN (IF first THEN p + 1 ELSE p) \div 2
  ELSE IF a > b THEN p - b ELSE a

LEMMA AlternateStep ==
  ASSUME NEW t, NEW a \in Nat, NEW S, NEW q \in Seq(S), NEW p \in 0 .. a + Len(q) - 1
  PROVE  LET m == StartsAmong(a, Len(q), StartsFirst(t), p)
             x == Alternate(t, a, q)[p + 1]
         IN  /\ m \in 0 .. a /\ p - m \in 0 .. Len(q)
             /\ \/ /\ x = StartStep(t.ver, TakesLock(t, m + 1))
                   /\ StartsAmong(a, Len(q), StartsFirst(t), p + 1) = m + 1
                   /\ m + 1 <= a
                \/ /\ x = q[p - m + 1]
                   /\ StartsAmong(a, Len(q), StartsFirst(t), p + 1) = m
                   /\ p - m + 1 <= Len(q)
<1> DEFINE b == Len(q)
           pairs == IF a < b THEN a ELSE b
           m == StartsAmong(a, b, StartsFirst(t), p)
           n == StartsAmong(a, b, StartsFirst(t), p + 1)
           x == Alternate(t, a, q)[p + 1]
           k == p + 1
<1>1. b \in Nat /\ p \in Nat /\ p < a + b /\ k \in 1 .. a + b /\ pairs \in Nat
  BY LenProperties
<1>2. x = IF k <= 2 * pairs
          THEN IF (k % 2 = 1) = StartsFirst(t)
               THEN StartStep(t.ver, TakesLock(t, (k + 1) \div 2)) ELSE q[(k + 1) \div 2]
          ELSE IF k - pairs > b THEN StartStep(t.ver, TakesLock(t, k - pairs)) ELSE q[k - pairs]
  BY <1>1 DEF Alternate
<1>3. m = IF p <= 2 * pairs THEN (IF StartsFirst(t) THEN p + 1 ELSE p) \div 2
          ELSE IF a > b THEN p - b ELSE a
  BY DEF StartsAmong
<1>4. n = IF p + 1 <= 2 * pairs THEN (IF StartsFirst(t) THEN p + 2 ELSE p + 1) \div 2
          ELSE IF a > b THEN p + 1 - b ELSE a
  BY <1>1 DEF StartsAmong
<1>5. \/ a < b /\ pairs = a
      \/ ~ (a < b) /\ pairs = b
  OBVIOUS
<1> HIDE DEF b, m, n, x, pairs
<1> DEFINE Goal == /\ m \in 0 .. a /\ p - m \in 0 .. b
                   /\ \/ x = StartStep(t.ver, TakesLock(t, m + 1)) /\ n = m + 1 /\ m + 1 <= a
                      \/ x = q[p - m + 1] /\ n = m /\ p - m + 1 <= b
<1> SUFFICES Goal
  BY DEF b, m, n, x
<1>6. PICK h \in Nat : \/ p = 2 * h /\ p \div 2 = h /\ p % 2 = 0
                       \/ p = 2 * h + 1 /\ p \div 2 = h /\ p % 2 = 1
  BY <1>1, Halves
<1>7. PICK g \in Nat : \/ p + 1 = 2 * g /\ (p + 1) \div 2 = g /\ (p + 1) % 2 = 0
                       \/ p + 1 = 2 * g + 1 /\ (p + 1) \div 2 = g /\ (p + 1) % 2 = 1
  BY <1>1, Halves
<1>8. PICK e \in Nat : \/ p + 2 = 2 * e /\ (p + 2) \div 2 = e
                       \/ p + 2 = 2 * e + 1 /\ (p + 2) \div 2 = e
  BY <1>1, Halves
<1>9. k % 2 = (p + 1) % 2 /\ (k + 1) \div 2 = (p + 2) \div 2 /\ k = p + 1
  BY <1>1
<1> HIDE DEF k
<1>10. CASE p + 1 <= 2 * pairs /\ StartsFirst(t)
  <2>1. m = g /\ n = e
    BY <1>1, <1>3, <1>4, <1>5, <1>7, <1>8, <1>10
  <2>2. CASE p = 2 * h
    <3>1. g = h /\ e = h + 1
      BY <1>1, <1>7, <1>8, <2>2
    <3>2. x = StartStep(t.ver, TakesLock(t, h + 1))
      <4>1. k % 2 = 1 /\ k <= 2 * pairs /\ (k + 1) \div 2 = h + 1
        BY <1>1, <1>7, <1>8, <1>9, <1>10, <3>1, <2>2
      <4>2. (k % 2 = 1) = StartsFirst(t)
        BY <1>10, <4>1 DEF StartsFirst
      <4> QED
        BY <1>2, <4>1, <4>2
    <3>3. m + 1 = h + 1 /\ n = m + 1 /\ m + 1 <= a /\ m \in 0 .. a /\ p - m \in 0 .. b
      BY <1>1, <1>5, <1>10, <2>1, <2>2, <3>1
    <3> QED
      BY <3>2, <3>3
  <2>3. CASE p = 2 * h + 1
    <3>1. g = h + 1 /\ e = h + 1
      BY <1>1, <1>7, <1>8, <2>3
    <3>2. x = q[h + 1]
      <4>1. k % 2 = 0 /\ k <= 2 * pairs /\ (k + 1) \div 2 = h + 1
        BY <1>1, <1>7, <1>8, <1>9, <1>10, <3>1, <2>3
      <4>2. ~ ((k % 2 = 1) = StartsFirst(t))
        BY <1>10, <4>1 DEF StartsFirst
      <4> QED
        BY <1>2, <4>1, <4>2
    <3>3. p - m + 1 = h + 1 /\ n = m /\ p - m + 1 <= b /\ m \in 0 .. a /\ p - m \in 0 .. b
      BY <1>1, <1>5, <1>10, <2>1, <2>3, <3>1
    <3> QED
      BY <3>2, <3>3
  <2> QED
    BY <1>6, <2>2, <2>3
<1>11. CASE p + 1 <= 2 * pairs /\ ~ StartsFirst(t)
  <2>1. m = h /\ n = g
    BY <1>1, <1>3, <1>4, <1>5, <1>6, <1>7, <1>11
  <2>2. CASE p = 2 * h
    <3>1. g = h /\ e = h + 1
      BY <1>1, <1>7, <1>8, <2>2
    <3>2. x = q[h + 1]
      <4>1. k % 2 = 1 /\ k <= 2 * pairs /\ (k + 1) \div 2 = h + 1
        BY <1>1, <1>7, <1>8, <1>9, <1>11, <3>1, <2>2
      <4>2. ~ ((k % 2 = 1) = StartsFirst(t))
        BY <1>11, <4>1 DEF StartsFirst
      <4> QED
        BY <1>2, <4>1, <4>2
    <3>3. p - m + 1 = h + 1 /\ n = m /\ p - m + 1 <= b /\ m \in 0 .. a /\ p - m \in 0 .. b
      BY <1>1, <1>5, <1>11, <2>1, <2>2, <3>1
    <3> QED
      BY <3>2, <3>3
  <2>3. CASE p = 2 * h + 1
    <3>1. g = h + 1 /\ e = h + 1
      BY <1>1, <1>7, <1>8, <2>3
    <3>2. x = StartStep(t.ver, TakesLock(t, h + 1))
      <4>1. k % 2 = 0 /\ k <= 2 * pairs /\ (k + 1) \div 2 = h + 1
        BY <1>1, <1>7, <1>8, <1>9, <1>11, <3>1, <2>3
      <4>2. (k % 2 = 1) = StartsFirst(t)
        BY <1>11, <4>1 DEF StartsFirst
      <4> QED
        BY <1>2, <4>1, <4>2
    <3>3. m + 1 = h + 1 /\ n = m + 1 /\ m + 1 <= a /\ m \in 0 .. a /\ p - m \in 0 .. b
      BY <1>1, <1>5, <1>11, <2>1, <2>3, <3>1
    <3> QED
      BY <3>2, <3>3
  <2> QED
    BY <1>6, <2>2, <2>3
<1>12. CASE ~ (p + 1 <= 2 * pairs)
  <2>1. p >= 2 * pairs /\ ~ (k <= 2 * pairs)
    BY <1>1, <1>9, <1>12
  <2>2. n = IF a > b THEN p + 1 - b ELSE a
    BY <1>4, <1>12
  <2>3. m = IF a > b THEN p - b ELSE a
    <3>1. CASE p = 2 * pairs
      <4>1. p = 2 * h /\ p \div 2 = h /\ h = pairs /\ (p + 1) \div 2 = h
        BY <1>1, <1>6, <1>7, <3>1
      <4>2. m = pairs
        BY <1>3, <3>1, <4>1
      <4> QED
        BY <1>1, <1>5, <3>1, <4>2
    <3>2. CASE p > 2 * pairs
      BY <1>1, <1>3, <3>2
    <3> QED
      BY <1>1, <2>1, <3>1, <3>2
  <2>4. x = IF k - pairs > b THEN StartStep(t.ver, TakesLock(t, k - pairs)) ELSE q[k - pairs]
    BY <1>2, <2>1
  <2>5. CASE a > b
    <3>1. pairs = b /\ m = p - b /\ n = p + 1 - b /\ k - pairs = m + 1
      BY <1>1, <1>5, <1>9, <2>2, <2>3, <2>5
    <3>2. k - pairs > b
      BY <1>1, <1>9, <2>1, <3>1
    <3>3. x = StartStep(t.ver, TakesLock(t, m + 1))
      BY <2>4, <3>1, <3>2
    <3>4. n = m + 1 /\ m + 1 <= a /\ m \in 0 .. a /\ p - m \in 0 .. b
      BY <1>1, <2>1, <2>5, <3>1
    <3> QED
      BY <3>3, <3>4
  <2>6. CASE ~ (a > b)
    <3>1. pairs = a /\ m = a /\ n = a /\ k - pairs = p - m + 1
      BY <1>1, <1>5, <1>9, <2>2, <2>3, <2>6
    <3>2. ~ (k - pairs > b)
      BY <1>1, <1>9, <3>1
    <3>3. x = q[p - m + 1]
      BY <2>4, <3>1, <3>2
    <3>4. n = m /\ p - m + 1 <= b /\ m \in 0 .. a /\ p - m \in 0 .. b
      BY <1>1, <1>9, <2>1, <2>6, <3>1
    <3> QED
      BY <3>3, <3>4
  <2> QED
    BY <2>5, <2>6
<1> QED
  BY <1>10, <1>11, <1>12

-----------------------------------------------------------------------------
(* The plan: what has happened after its first p steps.                    *)

IdsIn(cs) == {cs[i].id : i \in DOMAIN cs}
StopsOf(cs, t) == Scan(cs, t).toStop
ToStart(cs, t) == t.count - Scan(cs, t).active
Begun(cs, t, p) == StartsAmong(ToStart(cs, t), Len(StopsOf(cs, t)), StartsFirst(t), p)
Ended(cs, t, p) == {StopsOf(cs, t)[k].id : k \in 1 .. p - Begun(cs, t, p)}
StartSteps(t) == {StartStep(t.ver, b) : b \in BOOLEAN}

LEMMA PlanShape ==
  ASSUME NEW C, NEW cs \in Seq(C), NEW t, t.count \in Nat
  PROVE  /\ ToStart(cs, t) \in 0 .. t.count
         /\ StopsOf(cs, t) \in Seq(StopSteps(cs)) /\ Len(StopsOf(cs, t)) \in 0 .. Len(cs)
         /\ Len(cs) \in Nat
         /\ Len(cs) + ToStart(cs, t) - Len(StopsOf(cs, t)) = t.count
         /\ Plan(cs, t).steps \in Seq(StopSteps(cs) \cup StartSteps(t))
         /\ Len(Plan(cs, t).steps) = ToStart(cs, t) + Len(StopsOf(cs, t))
         /\ Plan(cs, t).steps = Alternate(t, ToStart(cs, t), StopsOf(cs, t))
         /\ Plan(cs, t).pull = (ToStart(cs, t) > 0)
<1> DEFINE a == ToStart(cs, t)
           q == StopsOf(cs, t)
           b == Len(q)
           f == Alternate(t, a, q)
           U == StopSteps(cs) \cup StartSteps(t)
<1>1. /\ a \in 0 .. t.count /\ q \in Seq(StopSteps(cs)) /\ b \in 0 .. Len(cs)
      /\ Len(cs) \in Nat /\ Len(cs) + a - b = t.count /\ b \in Nat
  <2>1. Scanned(Scan(cs, t), Len(cs), cs, t)
    BY ScanReturns
  <2>2. Len(cs) \in Nat /\ Len(Scan(cs, t).toStop) \in Nat
    BY <2>1, LenProperties DEF Scanned
  <2> QED
    BY <2>1, <2>2 DEF Scanned, ToStart, StopsOf
<1>2. Plan(cs, t).steps = f /\ Plan(cs, t).pull = (a > 0)
  BY DEF Plan, ToStart, StopsOf
<1> HIDE DEF a, q
<1>3. ASSUME NEW k \in 1 .. a + b PROVE f[k] \in U
  <2> DEFINE p == k - 1
             m == StartsAmong(a, b, StartsFirst(t), p)
  <2>1. p \in 0 .. a + Len(q) - 1 /\ p + 1 = k
    BY <1>1
  <2> HIDE DEF p
  <2>2. /\ m \in 0 .. a /\ p - m \in 0 .. b
        /\ \/ f[p + 1] = StartStep(t.ver, TakesLock(t, m + 1))
           \/ f[p + 1] = q[p - m + 1] /\ p - m + 1 <= b
    BY <1>1, <2>1, AlternateStep
  <2> HIDE DEF m, f
  <2>3. CASE f[k] = StartStep(t.ver, TakesLock(t, m + 1))
    <3>1. TakesLock(t, m + 1) \in BOOLEAN
      BY DEF TakesLock
    <3> QED
      BY <2>3, <3>1 DEF StartSteps
  <2>4. CASE f[k] = q[p - m + 1] /\ p - m + 1 <= b
    <3>1. p - m + 1 \in 1 .. b
      BY <1>1, <2>1, <2>2, <2>4
    <3> QED
      BY <1>1, <2>4, <3>1, ElementOfSeq
  <2> QED
    BY <2>1, <2>2, <2>3, <2>4
<1>4. f \in [1 .. a + b -> U]
  <2>1. DOMAIN f = 1 .. a + b /\ f = [k \in 1 .. a + b |-> f[k]]
    BY DEF Alternate
  <2> HIDE DEF f
  <2> QED
    BY <1>3, <2>1
<1> HIDE DEF f
<1>5. f \in Seq(U) /\ Len(f) = a + b
  <2>1. a + b \in Nat
    BY <1>1
  <2> QED
    BY <1>4, <2>1, SeqDef, LenProperties
<1> QED
  BY <1>1, <1>2, <1>5 DEF a, q, f

LEMMA PlanStep ==
  ASSUME NEW C, NEW cs \in Seq(C), NEW t, t.count \in Nat,
         NEW p \in Nat, p < Len(Plan(cs, t).steps)
  PROVE  LET m == Begun(cs, t, p)
             x == Plan(cs, t).steps[p + 1]
         IN  /\ m \in 0 .. ToStart(cs, t) /\ p - m \in 0 .. Len(StopsOf(cs, t))
             /\ \/ /\ x = StartStep(t.ver, TakesLock(t, m + 1))
                   /\ Begun(cs, t, p + 1) = m + 1 /\ m + 1 <= ToStart(cs, t)
                   /\ Ended(cs, t, p + 1) = Ended(cs, t, p)
                \/ /\ x = StopsOf(cs, t)[p - m + 1] /\ p - m + 1 <= Len(StopsOf(cs, t))
                   /\ Begun(cs, t, p + 1) = m
                   /\ Ended(cs, t, p + 1) = Ended(cs, t, p) \cup {x.id}
<1> DEFINE a == ToStart(cs, t)
           q == StopsOf(cs, t)
           b == Len(q)
           m == Begun(cs, t, p)
           n == Begun(cs, t, p + 1)
           x == Plan(cs, t).steps[p + 1]
<1>1. /\ a \in Nat /\ q \in Seq(StopSteps(cs)) /\ b \in Nat /\ p \in 0 .. a + b - 1
      /\ x = Alternate(t, a, q)[p + 1]
  <2>1. /\ a \in 0 .. t.count /\ q \in Seq(StopSteps(cs)) /\ b \in 0 .. Len(cs)
        /\ Len(Plan(cs, t).steps) = a + b /\ x = Alternate(t, a, q)[p + 1]
    BY PlanShape
  <2> HIDE DEF a, q, b, x
  <2> QED
    BY <2>1
<1>2. /\ m \in 0 .. a /\ p - m \in 0 .. b
      /\ \/ x = StartStep(t.ver, TakesLock(t, m + 1)) /\ n = m + 1 /\ m + 1 <= a
         \/ x = q[p - m + 1] /\ n = m /\ p - m + 1 <= b
  <2>1. /\ m = StartsAmong(a, b, StartsFirst(t), p)
        /\ n = StartsAmong(a, b, StartsFirst(t), p + 1)
    BY DEF Begun
  <2> HIDE DEF a, q, x, m, n
  <2> QED
    BY <1>1, <2>1, AlternateStep
<1>3. /\ Ended(cs, t, p) = {q[k].id : k \in 1 .. p - m}
      /\ Ended(cs, t, p + 1) = {q[k].id : k \in 1 .. (p + 1) - n}
  <2>1. Ended(cs, t, p) = {q[k].id : k \in 1 .. p - m}
    BY DEF Ended
  <2>2. Ended(cs, t, p + 1) = {q[k].id : k \in 1 .. (p + 1) - n}
    BY DEF Ended
  <2> QED
    BY <2>1, <2>2
<1> HIDE DEF a, q, m, n, x
<1>4. CASE x = StartStep(t.ver, TakesLock(t, m + 1)) /\ n = m + 1 /\ m + 1 <= a
  <2>1. (p + 1) - n = p - m
    BY <1>1, <1>2, <1>4
  <2> QED
    BY <1>2, <1>3, <1>4, <2>1 DEF a, q, m, n, x
<1>5. CASE x = q[p - m + 1] /\ n = m /\ p - m + 1 <= b
  <2>1. 1 .. (p + 1) - n = (1 .. p - m) \cup {p - m + 1}
    BY <1>1, <1>2, <1>5
  <2>2. Ended(cs, t, p + 1) = Ended(cs, t, p) \cup {x.id}
    BY <1>3, <1>5, <2>1
  <2> QED
    BY <1>2, <1>5, <2>2 DEF a, q, m, n, x
<1> QED
  BY <1>2, <1>4, <1>5

(* The first p of a starts and b stops: how many more containers there are. *)
LEMMA AlternateBalance ==
  ASSUME NEW a \in Nat, NEW b \in Nat, NEW first \in BOOLEAN, NEW p \in 0 .. a + b
  PROVE  LET m == StartsAmong(a, b, first, p) IN
         /\ m \in 0 .. a /\ p - m \in 0 .. b
         /\ 2 * m - p <= (IF a > b THEN a - b ELSE 0) + (IF first THEN 1 ELSE 0)
         /\ first => 2 * m - p >= (IF a > b THEN 0 ELSE a - b)
         /\ p = 0 => m = 0
         /\ p = a + b => m = a
<1> DEFINE m == StartsAmong(a, b, first, p)
           pairs == IF a < b THEN a ELSE b
<1>1. m = IF p <= 2 * pairs THEN (IF first THEN p + 1 ELSE p) \div 2
          ELSE IF a > b THEN p - b ELSE a
  BY DEF StartsAmong
<1>2. PICK h \in Nat : \/ p = 2 * h /\ p \div 2 = h
                       \/ p = 2 * h + 1 /\ p \div 2 = h
  BY Halves
<1>3. PICK g \in Nat : \/ p + 1 = 2 * g /\ (p + 1) \div 2 = g
                       \/ p + 1 = 2 * g + 1 /\ (p + 1) \div 2 = g
  BY Halves
<1>4. \/ a < b /\ pairs = a
      \/ ~ (a < b) /\ pairs = b
  OBVIOUS
<1> HIDE DEF m, pairs
<1> SUFFICES /\ m \in 0 .. a /\ p - m \in 0 .. b
             /\ 2 * m - p <= (IF a > b THEN a - b ELSE 0) + (IF first THEN 1 ELSE 0)
             /\ first => 2 * m - p >= (IF a > b THEN 0 ELSE a - b)
             /\ p = 0 => m = 0
             /\ p = a + b => m = a
  BY DEF m
<1>5. CASE p <= 2 * pairs /\ first
  <2>1. m = g
    BY <1>1, <1>3, <1>5
  <2> QED
    BY <1>3, <1>4, <1>5, <2>1
<1>6. CASE p <= 2 * pairs /\ ~ first
  <2>1. m = h
    BY <1>1, <1>2, <1>6
  <2> QED
    BY <1>2, <1>4, <1>6, <2>1
<1>7. CASE ~ (p <= 2 * pairs)
  <2>1. m = IF a > b THEN p - b ELSE a
    BY <1>1, <1>7
  <2> QED
    BY <1>4, <1>7, <2>1
<1> QED
  BY <1>5, <1>6, <1>7

(* How many containers there are after the first p steps: never more than
   before and than asked for, but for one with startstop, never fewer with
   startstop, and as many as asked for at the end. *)
LEMMA PlanBalance ==
  ASSUME NEW C, NEW cs \in Seq(C), NEW t, t.count \in Nat,
         NEW p \in 0 .. Len(Plan(cs, t).steps)
  PROVE  LET m == Begun(cs, t, p)
             now == Len(cs) + 2 * m - p
         IN  /\ m \in 0 .. ToStart(cs, t) /\ p - m \in 0 .. Len(StopsOf(cs, t))
             /\ now <= (IF Len(cs) > t.count THEN Len(cs) ELSE t.count)
                       + (IF StartsFirst(t) THEN 1 ELSE 0)
             /\ StartsFirst(t) => now >= (IF Len(cs) < t.count THEN Len(cs) ELSE t.count)
             /\ p = 0 => m = 0 /\ Ended(cs, t, p) = {}
             /\ p = Len(Plan(cs, t).steps) =>
                  now = t.count /\ p - m = Len(StopsOf(cs, t))
<1> DEFINE a == ToStart(cs, t)
           b == Len(StopsOf(cs, t))
           m == Begun(cs, t, p)
<1>1. /\ a \in Nat /\ b \in Nat /\ p \in 0 .. a + b /\ Len(cs) \in Nat
      /\ Len(cs) + a - b = t.count /\ Len(Plan(cs, t).steps) = a + b
  <2>1. /\ a \in 0 .. t.count /\ b \in 0 .. Len(cs) /\ Len(cs) \in Nat
        /\ Len(cs) + a - b = t.count /\ Len(Plan(cs, t).steps) = a + b
    BY PlanShape
  <2> HIDE DEF a, b
  <2> QED
    BY <2>1
<1>2. StartsFirst(t) \in BOOLEAN
  BY DEF StartsFirst
<1> HIDE DEF a, b
<1>3. /\ m \in 0 .. a /\ p - m \in 0 .. b
      /\ 2 * m - p <= (IF a > b THEN a - b ELSE 0) + (IF StartsFirst(t) THEN 1 ELSE 0)
      /\ StartsFirst(t) => 2 * m - p >= (IF a > b THEN 0 ELSE a - b)
      /\ p = 0 => m = 0
      /\ p = a + b => m = a
  BY <1>1, <1>2, AlternateBalance DEF Begun, a, b
<1>4. p = 0 => Ended(cs, t, p) = {}
  BY <1>3 DEF Ended
<1> HIDE DEF m
<1>5. /\ Len(cs) + 2 * m - p <= (IF Len(cs) > t.count THEN Len(cs) ELSE t.count)
                                + (IF StartsFirst(t) THEN 1 ELSE 0)
      /\ StartsFirst(t) => Len(cs) + 2 * m - p
                             >= (IF Len(cs) < t.count THEN Len(cs) ELSE t.count)
      /\ p = a + b => Len(cs) + 2 * m - p = t.count /\ p - m = b
  BY <1>1, <1>2, <1>3
<1> QED
  BY <1>1, <1>3, <1>4, <1>5 DEF a, b, m

-----------------------------------------------------------------------------
(* The containers that the plan's first p steps leave.                     *)

(* The indices in cs of what the first e stops leave. *)
Rest(ix, e, cs) == (1 .. Len(cs)) \ {ix[k] : k \in 1 .. e}

LEMMA StoppedIndices ==
  ASSUME NEW C, NEW cs \in Seq(C), NEW t, NEW s, NEW ix,
         StopIndex(ix, s, Len(cs), cs, t), Len(s.toStop) \in Nat, Len(cs) \in Nat,
         NEW e \in 0 .. Len(s.toStop)
  PROVE  IsFiniteSet(Rest(ix, e, cs)) /\ Cardinality(Rest(ix, e, cs)) = Len(cs) - e
<1> DEFINE I == {ix[k] : k \in 1 .. e}
           f == [k \in 1 .. e |-> ix[k]]
           N == 1 .. Len(cs)
<1>1. I \subseteq N
  <2> SUFFICES ASSUME NEW k \in 1 .. e PROVE ix[k] \in N
    OBVIOUS
  <2>1. k \in 1 .. Len(s.toStop)
    OBVIOUS
  <2> QED
    BY <2>1 DEF StopIndex
<1>2. f \in Surjection(1 .. e, I) /\ f \in Injection(1 .. e, I)
  <2>1. f \in [1 .. e -> I]
    OBVIOUS
  <2>2. \A k, l \in 1 .. e : f[k] = f[l] => k = l
    BY DEF StopIndex
  <2>3. \A y \in I : \E k \in 1 .. e : f[k] = y
    OBVIOUS
  <2> HIDE DEF f, I
  <2> QED
    BY <2>1, <2>2, <2>3 DEF Surjection, Injection, IsInjective
<1>3. /\ IsFiniteSet(1 .. e) /\ Cardinality(1 .. e) = e
      /\ IsFiniteSet(N) /\ Cardinality(N) = Len(cs)
  <2>1. e \in Int /\ 1 \in Int /\ Len(cs) \in Int
    OBVIOUS
  <2>2. /\ Cardinality(1 .. e) = IF 1 > e THEN 0 ELSE e - 1 + 1
        /\ Cardinality(N) = IF 1 > Len(cs) THEN 0 ELSE Len(cs) - 1 + 1
        /\ IsFiniteSet(1 .. e) /\ IsFiniteSet(N)
    BY <2>1, FS_Interval
  <2> QED
    BY <2>2
<1>4. Cardinality(I) = e /\ IsFiniteSet(I)
  BY <1>2, <1>3, FS_Surjection
<1>5. N \cap I = I
  BY <1>1
<1> HIDE DEF I, N
<1>6. IsFiniteSet(N \ I) /\ Cardinality(N \ I) = Len(cs) - e
  <2>1. IsFiniteSet(N \ I) /\ Cardinality(N \ I) = Cardinality(N) - Cardinality(N \cap I)
    BY <1>3, FS_Difference
  <2> QED
    BY <1>3, <1>4, <1>5, <2>1
<1> QED
  BY <1>6 DEF Rest, I, N

(* An id that none of the steps stopped is the id of one of so many containers. *)
LEMMA LeftIds ==
  ASSUME NEW C, NEW cs \in Seq(C), NEW t, t.count \in Nat,
         NEW p \in 0 .. Len(Plan(cs, t).steps)
  PROVE  LET left == IdsIn(cs) \ Ended(cs, t, p) IN
         /\ IsFiniteSet(left)
         /\ Cardinality(left) <= Len(cs) - (p - Begun(cs, t, p))
<1> DEFINE e == p - Begun(cs, t, p)
           q == StopsOf(cs, t)
           left == IdsIn(cs) \ Ended(cs, t, p)
<1>1. e \in 0 .. Len(q) /\ Len(q) \in Nat /\ Len(cs) \in Nat /\ DOMAIN cs = 1 .. Len(cs)
  <2>1. Len(q) \in 0 .. Len(cs) /\ Len(cs) \in Nat /\ DOMAIN cs = 1 .. Len(cs)
    BY PlanShape, LenProperties
  <2>2. e \in 0 .. Len(q)
    BY PlanBalance
  <2> HIDE DEF e, q
  <2> QED
    BY <2>1, <2>2
<1>2. PICK ix : StopIndex(ix, Scan(cs, t), Len(cs), cs, t)
  BY ScanReturns
<1> DEFINE J == Rest(ix, e, cs)
<1>3. IsFiniteSet(J) /\ Cardinality(J) = Len(cs) - e
  <2> DEFINE s == Scan(cs, t)
  <2>1. q = s.toStop
    BY DEF StopsOf
  <2> HIDE DEF e, q, s
  <2>2. e \in 0 .. Len(s.toStop) /\ Len(s.toStop) \in Nat
    BY <1>1, <2>1
  <2>3. StopIndex(ix, s, Len(cs), cs, t)
    BY <1>2 DEF s
  <2> QED
    BY <1>1, <2>2, <2>3, StoppedIndices
<1>4. left \subseteq {cs[j].id : j \in J}
  <2> SUFFICES ASSUME NEW x \in left PROVE \E j \in J : x = cs[j].id
    OBVIOUS
  <2>1. PICK j \in DOMAIN cs : x = cs[j].id
    BY DEF IdsIn
  <2>2. ASSUME NEW k \in 1 .. e, ix[k] = j PROVE FALSE
    <3>1. q[k].id = cs[j].id
      <4>1. k \in 1 .. Len(q)
        BY <1>1
      <4> QED
        BY <1>2, <2>2, <4>1 DEF StopIndex, StopsOf
    <3>2. x \in Ended(cs, t, p)
      BY <2>1, <3>1 DEF Ended
    <3> QED
      BY <3>2
  <2> QED
    BY <1>1, <2>1, <2>2 DEF Rest
<1> HIDE DEF J
<1>5. /\ IsFiniteSet({cs[j].id : j \in J})
      /\ Cardinality({cs[j].id : j \in J}) <= Len(cs) - e
  <2> DEFINE S == {cs[j].id : j \in J}
             f == [j \in J |-> cs[j].id]
  <2>1. f \in [J -> S] /\ \A y \in S : \E j \in J : f[j] = y
    OBVIOUS
  <2>2. f \in Surjection(J, S)
    <3> HIDE DEF f, S
    <3> QED
      BY <2>1 DEF Surjection
  <2> HIDE DEF f, S
  <2>3. IsFiniteSet(S) /\ Cardinality(S) <= Cardinality(J)
    BY <1>3, <2>2, FS_Surjection
  <2> QED
    BY <1>3, <2>3 DEF S
<1>6. Cardinality({cs[j].id : j \in J}) \in Nat
  BY <1>5, FS_CardinalityType
<1> HIDE DEF e, left
<1>7. IsFiniteSet(left) /\ Cardinality(left) <= Cardinality({cs[j].id : j \in J})
  BY <1>4, <1>5, FS_Subset
<1>8. Cardinality(left) \in Nat /\ Len(cs) - e \in Int
  BY <1>1, <1>7, FS_CardinalityType
<1>9. Cardinality(left) <= Len(cs) - e
  BY <1>5, <1>6, <1>7, <1>8
<1> QED
  BY <1>7, <1>9 DEF e, left

Unalike(cs) == \A i, j \in DOMAIN cs : cs[i].id = cs[j].id => i = j

(* Which containers the plan leaves: those that are kept, if there are ids to tell. *)
LEMMA PlanLeaves ==
  ASSUME NEW C, NEW cs \in Seq(C), NEW t, t.count \in Nat,
         NEW p \in 0 .. Len(Plan(cs, t).steps)
  PROVE  /\ Ended(cs, t, p) \subseteq IdsIn(cs)
         /\ p = Len(Plan(cs, t).steps) =>
              \A j \in DOMAIN cs : cs[j].id \notin Ended(cs, t, p) => Kept(cs[j], t)
         /\ Unalike(cs) /\ p < Len(Plan(cs, t).steps)
              /\ p - Begun(cs, t, p) < Len(StopsOf(cs, t)) =>
                StopsOf(cs, t)[p - Begun(cs, t, p) + 1].id \in IdsIn(cs) \ Ended(cs, t, p)
<1> DEFINE e == p - Begun(cs, t, p)
           q == StopsOf(cs, t)
<1>1. /\ e \in 0 .. Len(q) /\ Len(q) \in Nat /\ Len(cs) \in Nat
      /\ DOMAIN cs = 1 .. Len(cs)
      /\ p = Len(Plan(cs, t).steps) => e = Len(q)
  <2>1. Len(q) \in 0 .. Len(cs) /\ Len(cs) \in Nat /\ DOMAIN cs = 1 .. Len(cs)
    BY PlanShape, LenProperties
  <2>2. e \in 0 .. Len(q) /\ (p = Len(Plan(cs, t).steps) => e = Len(q))
    BY PlanBalance
  <2> HIDE DEF e, q
  <2> QED
    BY <2>1, <2>2
<1>2. PICK ix : StopIndex(ix, Scan(cs, t), Len(cs), cs, t)
  BY ScanReturns
<1>3. Ended(cs, t, p) = {q[k].id : k \in 1 .. e}
  BY DEF Ended
<1>4. /\ \A k \in 1 .. Len(q) : ix[k] \in DOMAIN cs /\ q[k].id = cs[ix[k]].id
      /\ \A k, l \in 1 .. Len(q) : ix[k] = ix[l] => k = l
      /\ \A j \in DOMAIN cs : Kept(cs[j], t) \/ \E k \in 1 .. Len(q) : ix[k] = j
  BY <1>1, <1>2 DEF StopIndex, StopsOf
<1> HIDE DEF e, q
<1>5. Ended(cs, t, p) \subseteq IdsIn(cs)
  <2> SUFFICES ASSUME NEW k \in 1 .. e PROVE q[k].id \in IdsIn(cs)
    BY <1>3
  <2>1. k \in 1 .. Len(q)
    BY <1>1
  <2> QED
    BY <1>4, <2>1 DEF IdsIn
<1>6. ASSUME p = Len(Plan(cs, t).steps), NEW j \in DOMAIN cs, cs[j].id \notin Ended(cs, t, p)
      PROVE  Kept(cs[j], t)
  <2>1. e = Len(q)
    BY <1>1, <1>6
  <2> QED
    BY <1>3, <1>4, <1>6, <2>1
<1>7. ASSUME Unalike(cs), e < Len(q)
      PROVE  q[e + 1].id \in IdsIn(cs) \ Ended(cs, t, p)
  <2>1. e + 1 \in 1 .. Len(q)
    BY <1>1, <1>7
  <2>2. q[e + 1].id \in IdsIn(cs)
    BY <1>4, <2>1 DEF IdsIn
  <2>3. ASSUME NEW k \in 1 .. e PROVE q[k].id # q[e + 1].id
    <3>1. k \in 1 .. Len(q) /\ k # e + 1
      BY <1>1
    <3> QED
      BY <1>4, <1>7, <2>1, <3>1 DEF Unalike
  <2> QED
    BY <1>3, <2>2, <2>3
<1> QED
  BY <1>5, <1>6, <1>7 DEF e, q

(* As many ids as indices, when no two are alike. *)
LEMMA CountIds ==
  ASSUME NEW C, NEW cs \in Seq(C), NEW J \in SUBSET DOMAIN cs
  PROVE  /\ IsFiniteSet(J) /\ IsFiniteSet({cs[j].id : j \in J})
         /\ Cardinality({cs[j].id : j \in J}) <= Cardinality(J)
         /\ Unalike(cs) => Cardinality({cs[j].id : j \in J}) = Cardinality(J)
         /\ Cardinality(DOMAIN cs) = Len(cs) /\ Len(cs) \in Nat
<1> DEFINE S == {cs[j].id : j \in J}
           f == [j \in J |-> cs[j].id]
<1>1. Len(cs) \in Nat /\ DOMAIN cs = 1 .. Len(cs)
  BY LenProperties
<1>2. IsFiniteSet(DOMAIN cs) /\ Cardinality(DOMAIN cs) = Len(cs)
  <2>1. /\ IsFiniteSet(1 .. Len(cs))
        /\ Cardinality(1 .. Len(cs)) = IF 1 > Len(cs) THEN 0 ELSE Len(cs) - 1 + 1
    BY <1>1, FS_Interval
  <2> QED
    BY <1>1, <2>1
<1>3. IsFiniteSet(J)
  BY <1>2, FS_Subset
<1>4. f \in [J -> S] /\ \A y \in S : \E j \in J : f[j] = y
  OBVIOUS
<1>5. Unalike(cs) => \A i, j \in J : f[i] = f[j] => i = j
  BY DEF Unalike
<1> HIDE DEF f, S
<1>6. f \in Surjection(J, S)
  BY <1>4 DEF Surjection
<1>7. Unalike(cs) => f \in Injection(J, S)
  BY <1>4, <1>5 DEF Injection, IsInjective
<1>8. IsFiniteSet(S) /\ Cardinality(S) <= Cardinality(J)
      /\ (Unalike(cs) => Cardinality(S) = Cardinality(J))
  BY <1>3, <1>6, <1>7, FS_Surjection
<1> QED
  BY <1>1, <1>2, <1>3, <1>8 DEF S

FitIds(cs, t) == {cs[j].id : j \in {i \in DOMAIN cs : Kept(cs[i], t)}}

(* What fits is kept, as far as the target's count goes. *)
LEMMA PlanKeeps ==
  ASSUME NEW C, NEW cs \in Seq(C), NEW t, t.count \in Nat, Unalike(cs),
         NEW p \in 0 .. Len(Plan(cs, t).steps)
  PROVE  /\ IsFiniteSet(FitIds(cs, t))
         /\ Cardinality(FitIds(cs, t) \ Ended(cs, t, p)) >=
              (IF t.count < Cardinality(FitIds(cs, t))
               THEN t.count ELSE Cardinality(FitIds(cs, t)))
<1> DEFINE e == p - Begun(cs, t, p)
           q == StopsOf(cs, t)
           s == Scan(cs, t)
           fit == FitIds(cs, t)
           kept == fit \ Ended(cs, t, p)
<1>1. /\ e \in 0 .. Len(q) /\ Len(q) \in Nat /\ Len(cs) \in Nat
      /\ DOMAIN cs = 1 .. Len(cs)
  <2>1. Len(q) \in 0 .. Len(cs) /\ Len(cs) \in Nat /\ DOMAIN cs = 1 .. Len(cs)
    BY PlanShape, LenProperties
  <2>2. e \in 0 .. Len(q)
    BY PlanBalance
  <2> HIDE DEF e, q
  <2> QED
    BY <2>1, <2>2
<1>2. PICK ix : StopIndex(ix, s, Len(cs), cs, t)
  BY ScanReturns
<1>3. q = s.toStop /\ s.active \in Nat /\ s.active + Len(s.toStop) = Len(cs)
      /\ s.active <= t.count
  BY ScanReturns DEF Scanned, StopsOf
<1>4. Ended(cs, t, p) = {q[k].id : k \in 1 .. e}
  BY DEF Ended
<1> HIDE DEF e, q, s
<1>5. /\ \A k \in 1 .. Len(q) : ix[k] \in DOMAIN cs /\ q[k].id = cs[ix[k]].id
      /\ \A j \in DOMAIN cs : Kept(cs[j], t) \/ \E k \in 1 .. Len(q) : ix[k] = j
      /\ \A k \in 1 .. Len(q) : Kept(cs[ix[k]], t) => s.active = t.count
  BY <1>1, <1>2, <1>3 DEF StopIndex
<1>6. \A k \in 1 .. e : k \in 1 .. Len(q)
  BY <1>1
<1>7. IsFiniteSet(fit) /\ IsFiniteSet(kept)
  <2>1. {i \in DOMAIN cs : Kept(cs[i], t)} \in SUBSET DOMAIN cs
    OBVIOUS
  <2>2. IsFiniteSet(fit)
    BY <2>1, CountIds DEF FitIds
  <2>3. kept \in SUBSET fit
    OBVIOUS
  <2> HIDE DEF fit, kept
  <2> QED
    BY <2>2, <2>3, FS_Subset
<1>8. Cardinality(fit) \in Nat /\ Cardinality(kept) \in Nat
  BY <1>7, FS_CardinalityType
<1>9. CASE s.active < t.count
  <2>1. ASSUME NEW x \in fit PROVE x \notin Ended(cs, t, p)
    <3>1. PICK j \in DOMAIN cs : Kept(cs[j], t) /\ x = cs[j].id
      BY DEF FitIds
    <3>2. ASSUME NEW k \in 1 .. e, q[k].id = x PROVE FALSE
      <4>1. ix[k] \in DOMAIN cs /\ cs[ix[k]].id = cs[j].id
        BY <1>5, <1>6, <3>1, <3>2
      <4>2. ix[k] = j
        BY <4>1 DEF Unalike
      <4>3. s.active = t.count
        BY <1>5, <1>6, <3>1, <4>2
      <4> QED
        BY <1>3, <1>9, <4>3
    <3> QED
      BY <1>4, <3>2
  <2>2. kept = fit
    BY <2>1
  <2> HIDE DEF kept
  <2>3. Cardinality(kept) >= IF t.count < Cardinality(fit) THEN t.count ELSE Cardinality(fit)
    BY <1>8, <2>2
  <2> QED
    BY <1>7, <2>3 DEF kept
<1>10. CASE s.active = t.count
  <2> DEFINE J == Rest(ix, Len(q), cs)
             K == {cs[j].id : j \in J}
  <2>1. Cardinality(J) = t.count /\ J \in SUBSET DOMAIN cs
    <3>1. Len(s.toStop) \in 0 .. Len(s.toStop) /\ Len(s.toStop) \in Nat
      BY <1>1, <1>3
    <3>2. Cardinality(Rest(ix, Len(s.toStop), cs)) = Len(cs) - Len(s.toStop)
      BY <1>1, <1>2, <3>1, StoppedIndices
    <3>3. J \in SUBSET DOMAIN cs
      BY <1>1 DEF Rest
    <3> QED
      BY <1>1, <1>3, <1>10, <3>2, <3>3
  <2>2. K \in SUBSET kept
    <3> SUFFICES ASSUME NEW j \in J PROVE cs[j].id \in fit /\ cs[j].id \notin Ended(cs, t, p)
      OBVIOUS
    <3>1. j \in DOMAIN cs /\ ~ \E k \in 1 .. Len(q) : ix[k] = j
      BY <1>1 DEF Rest
    <3>2. Kept(cs[j], t)
      BY <1>5, <3>1
    <3>3. ASSUME NEW k \in 1 .. e, q[k].id = cs[j].id PROVE FALSE
      <4>1. k \in 1 .. Len(q) /\ ix[k] \in DOMAIN cs /\ cs[ix[k]].id = cs[j].id
        BY <1>5, <1>6, <3>3
      <4> QED
        BY <3>1, <4>1 DEF Unalike
    <3> QED
      BY <1>4, <3>1, <3>2, <3>3 DEF FitIds
  <2> HIDE DEF J
  <2>3. IsFiniteSet(K) /\ Cardinality(K) = t.count
    BY <2>1, CountIds
  <2> HIDE DEF K, kept
  <2>4. Cardinality(K) <= Cardinality(kept)
    BY <1>7, <2>2, FS_Subset
  <2>5. Cardinality(kept) >= t.count
    BY <1>8, <2>3, <2>4
  <2> HIDE DEF fit
  <2>6. Cardinality(kept) >= IF t.count < Cardinality(fit) THEN t.count ELSE Cardinality(fit)
    BY <1>8, <2>5
  <2> QED
    BY <1>7, <2>6 DEF kept, fit
<1> QED
  BY <1>3, <1>9, <1>10

-----------------------------------------------------------------------------
(* The containers that the steps after the p-th will stop.                 *)

Later(cs, t, p) ==
  {StopsOf(cs, t)[k].id : k \in p - Begun(cs, t, p) + 1 .. Len(StopsOf(cs, t))}

(* They are stopped in the order of the list. *)
LEMMA StopsInOrder ==
  ASSUME NEW C, NEW cs \in Seq(C), NEW t, t.count \in Nat
  PROVE  \E ix \in [1 .. Len(StopsOf(cs, t)) -> DOMAIN cs] :
           /\ \A k \in 1 .. Len(StopsOf(cs, t)) : StopsOf(cs, t)[k].id = cs[ix[k]].id
           /\ \A k, l \in 1 .. Len(StopsOf(cs, t)) : k < l => ix[k] < ix[l]
<1>1. PICK ix : StopIndex(ix, Scan(cs, t), Len(cs), cs, t)
  BY ScanReturns
<1>2. DOMAIN cs = 1 .. Len(cs)
  BY LenProperties
<1> QED
  BY <1>1, <1>2 DEF StopIndex, StopsOf

LEMMA LaterStep ==
  ASSUME NEW C, NEW cs \in Seq(C), NEW t, t.count \in Nat,
         NEW p \in Nat, p < Len(Plan(cs, t).steps)
  PROVE  LET m == Begun(cs, t, p)
             x == Plan(cs, t).steps[p + 1]
         IN  \/ /\ x.op = "start" /\ x.ver = t.ver
                /\ Begun(cs, t, p + 1) = m + 1
                /\ Later(cs, t, p + 1) = Later(cs, t, p)
             \/ /\ x.op = "stop" /\ Begun(cs, t, p + 1) = m
                /\ p - m + 1 \in 1 .. Len(StopsOf(cs, t))
                /\ x.id = StopsOf(cs, t)[p - m + 1].id
                /\ Later(cs, t, p) = Later(cs, t, p + 1) \cup {x.id}
<1> DEFINE q == StopsOf(cs, t)
           m == Begun(cs, t, p)
           n == Begun(cs, t, p + 1)
           x == Plan(cs, t).steps[p + 1]
<1>1. /\ ToStart(cs, t) \in 0 .. t.count /\ q \in Seq(StopSteps(cs)) /\ Len(q) \in 0 .. Len(cs)
      /\ Len(cs) \in Nat
  BY PlanShape
<1>2. /\ m \in 0 .. ToStart(cs, t) /\ p - m \in 0 .. Len(q)
      /\ \/ /\ x = StartStep(t.ver, TakesLock(t, m + 1))
            /\ n = m + 1
         \/ /\ x = q[p - m + 1] /\ p - m + 1 <= Len(q)
            /\ n = m
  BY PlanStep
<1>3. Later(cs, t, p) = {q[k].id : k \in p - m + 1 .. Len(q)}
  BY DEF Later
<1>4. Later(cs, t, p + 1) = {q[k].id : k \in (p + 1) - n + 1 .. Len(q)}
  BY DEF Later
<1> HIDE DEF q, m, n, x
<1>5. m \in Nat /\ Len(q) \in Nat
  <2>1. ToStart(cs, t) \in Nat
    BY <1>1
  <2> QED
    BY <1>1, <1>2, <2>1
<1>6. CASE x = StartStep(t.ver, TakesLock(t, m + 1)) /\ n = m + 1
  <2>1. x.op = "start" /\ x.ver = t.ver
    BY <1>6 DEF StartStep
  <2>2. (p + 1) - n + 1 = p - m + 1
    BY <1>5, <1>6
  <2>3. Later(cs, t, p + 1) = Later(cs, t, p)
    BY <1>3, <1>4, <2>2
  <2> QED
    BY <1>6, <2>1, <2>3 DEF q, m, n, x
<1>7. CASE x = q[p - m + 1] /\ p - m + 1 <= Len(q) /\ n = m
  <2>1. p - m + 1 \in 1 .. Len(q)
    BY <1>2, <1>5, <1>7
  <2>2. x \in StopSteps(cs)
    BY <1>1, <1>7, <2>1, ElementOfSeq
  <2>3. x.op = "stop" /\ x.id = q[p - m + 1].id
    BY <1>7, <2>2 DEF StopSteps
  <2>4. \A k : k \in p - m + 1 .. Len(q)
                 <=> k \in (p + 1) - n + 1 .. Len(q) \/ k = p - m + 1
    BY <1>5, <1>7, <2>1
  <2>5. Later(cs, t, p) = Later(cs, t, p + 1) \cup {x.id}
    BY <1>3, <1>4, <2>3, <2>4
  <2> QED
    BY <1>7, <2>1, <2>3, <2>5 DEF q, m, n, x
<1> QED
  BY <1>2, <1>6, <1>7

(* The steps that are left say which containers they will stop. *)
LEMMA LaterSteps ==
  ASSUME NEW C, NEW cs \in Seq(C), NEW t, t.count \in Nat,
         NEW p \in 0 .. Len(Plan(cs, t).steps), NEW x \in Later(cs, t, p)
  PROVE  \E i \in DOMAIN After(Plan(cs, t).steps, p) :
           After(Plan(cs, t).steps, p)[i].op = "stop" /\ After(Plan(cs, t).steps, p)[i].id = x
<1> DEFINE s == Plan(cs, t).steps
           Told(n) == \A y \in Later(cs, t, n) :
                        \E i \in n + 1 .. Len(s) : s[i].op = "stop" /\ s[i].id = y
           T == {d \in Nat : d <= Len(s) => Told(Len(s) - d)}
<1>1. s \in Seq(StopSteps(cs) \cup StartSteps(t)) /\ Len(s) \in Nat /\ DOMAIN s = 1 .. Len(s)
  BY PlanShape, LenProperties
<1>2. 0 \in T
  <2>1. Len(s) - Begun(cs, t, Len(s)) = Len(StopsOf(cs, t))
    <3>1. Len(s) \in 0 .. Len(Plan(cs, t).steps)
      BY <1>1
    <3> QED
      BY <3>1, PlanBalance
  <2>2. Len(StopsOf(cs, t)) \in 0 .. Len(cs) /\ Len(cs) \in Nat
    BY PlanShape
  <2>3. Later(cs, t, Len(s)) = {}
    BY <2>1, <2>2 DEF Later
  <2>4. Len(s) - 0 = Len(s)
    BY <1>1
  <2> QED
    BY <2>3, <2>4
<1>3. ASSUME NEW d \in T PROVE d + 1 \in T
  <2> SUFFICES ASSUME d + 1 <= Len(s), NEW y \in Later(cs, t, Len(s) - (d + 1))
               PROVE  \E i \in Len(s) - (d + 1) + 1 .. Len(s) : s[i].op = "stop" /\ s[i].id = y
    OBVIOUS
  <2> DEFINE n == Len(s) - (d + 1)
  <2>1. n \in Nat /\ n < Len(s) /\ n + 1 = Len(s) - d /\ d \in Nat /\ d <= Len(s)
    BY <1>1
  <2>2. Told(n + 1)
    BY <2>1
  <2>3. CASE y \in Later(cs, t, n + 1)
    <3>1. PICK i \in n + 1 + 1 .. Len(s) : s[i].op = "stop" /\ s[i].id = y
      BY <2>2, <2>3
    <3>2. i \in n + 1 .. Len(s)
      BY <2>1, <3>1
    <3> QED
      BY <3>1, <3>2
  <2>4. CASE y \notin Later(cs, t, n + 1)
    <3>1. y \in Later(cs, t, n)
      OBVIOUS
    <3> HIDE DEF n
    <3>2. s[n + 1].op = "stop" /\ s[n + 1].id = y
      BY <2>1, <2>4, <3>1, LaterStep
    <3>3. n + 1 \in n + 1 .. Len(s)
      BY <1>1, <2>1
    <3>4. \E i \in n + 1 .. Len(s) : s[i].op = "stop" /\ s[i].id = y
      BY <3>2, <3>3
    <3> QED
      BY <3>4 DEF n
  <2> QED
    BY <2>3, <2>4
<1>4. Len(s) - p \in Nat /\ Len(s) - (Len(s) - p) = p /\ p \in Nat /\ Len(s) - p <= Len(s)
  BY <1>1
<1>5. Len(s) - p \in T
  <2>1. \A d \in T : d + 1 \in T
    BY <1>3
  <2> QED
    <3>1. T \subseteq Nat
      OBVIOUS
    <3> HIDE DEF T
    <3> QED
      BY <1>2, <1>4, <2>1, <3>1, SetInduction
<1>6. Told(p)
  BY <1>4, <1>5
<1>7. PICK i \in p + 1 .. Len(s) : s[i].op = "stop" /\ s[i].id = x
  BY <1>6
<1>8. /\ After(s, p) \in Seq(StopSteps(cs) \cup StartSteps(t))
      /\ \A j \in DOMAIN After(s, p) : After(s, p)[j] = s[p + j]
      /\ Len(After(s, p)) = Len(s) - p
  <2> DEFINE S == StopSteps(cs) \cup StartSteps(t)
  <2>1. p \in 0 .. Len(s) /\ s \in Seq(S)
    BY <1>1
  <2> HIDE DEF s, S
  <2> QED
    BY <2>1, AfterElements DEF S
<1>9. i - p \in DOMAIN After(s, p) /\ p + (i - p) = i
  <2>1. DOMAIN After(s, p) = 1 .. Len(After(s, p))
    BY <1>8, LenProperties
  <2> QED
    BY <1>1, <1>4, <1>7, <1>8, <2>1
<1> QED
  BY <1>7, <1>8, <1>9

(* There are as many of them as steps are left to stop one, at most. *)
LEMMA LaterCount ==
  ASSUME NEW C, NEW cs \in Seq(C), NEW t, t.count \in Nat,
         NEW p \in 0 .. Len(Plan(cs, t).steps)
  PROVE  /\ IsFiniteSet(Later(cs, t, p))
         /\ Cardinality(Later(cs, t, p)) <= Len(StopsOf(cs, t)) - (p - Begun(cs, t, p))
<1> DEFINE q == StopsOf(cs, t)
           e == p - Begun(cs, t, p)
           K == e + 1 .. Len(q)
           f == [k \in K |-> q[k].id]
           S == {q[k].id : k \in K}
<1>1. e \in 0 .. Len(q) /\ Len(q) \in Nat
  <2>1. Len(q) \in 0 .. Len(cs) /\ Len(cs) \in Nat
    BY PlanShape
  <2>2. e \in 0 .. Len(q)
    BY PlanBalance
  <2> HIDE DEF e, q
  <2> QED
    BY <2>1, <2>2
<1>2. Later(cs, t, p) = S
  BY DEF Later
<1>3. f \in [K -> S] /\ \A y \in S : \E k \in K : f[k] = y
  OBVIOUS
<1> HIDE DEF e, q
<1>4. IsFiniteSet(K) /\ Cardinality(K) = Len(q) - e
  <2>1. e + 1 \in Int /\ Len(q) \in Int
    BY <1>1
  <2>2. /\ IsFiniteSet(K)
        /\ Cardinality(K) = IF e + 1 > Len(q) THEN 0 ELSE Len(q) - (e + 1) + 1
    BY <2>1, FS_Interval
  <2> HIDE DEF K
  <2> QED
    BY <1>1, <2>2
<1> HIDE DEF f, S, K
<1>5. f \in Surjection(K, S)
  BY <1>3 DEF Surjection
<1>6. IsFiniteSet(S) /\ Cardinality(S) <= Cardinality(K)
  BY <1>4, <1>5, FS_Surjection
<1> QED
  BY <1>2, <1>4, <1>6 DEF e, q

(* A list of exactly the containers that are wanted needs no plan. *)
LEMMA PlanEmpty ==
  ASSUME NEW C, NEW cs \in Seq(C), NEW t, t.count \in Nat, Len(cs) = t.count,
         \A j \in DOMAIN cs : Kept(cs[j], t)
  PROVE  Plan(cs, t).steps = <<>>
<1> DEFINE s == Scan(cs, t)
           q == StopsOf(cs, t)
<1>1. PICK ix : StopIndex(ix, s, Len(cs), cs, t)
  BY ScanReturns
<1>2. /\ s.active \in Nat /\ q \in Seq(StopSteps(cs)) /\ q = s.toStop
      /\ s.active + Len(q) = Len(cs)
  BY ScanReturns DEF Scanned, StopsOf
<1>3. ToStart(cs, t) = t.count - s.active
  BY DEF ToStart
<1>4. Len(cs) \in Nat /\ DOMAIN cs = 1 .. Len(cs) /\ Len(q) \in Nat
  BY <1>2, LenProperties
<1> HIDE DEF s, q
<1>5. Len(q) = 0
  <2> SUFFICES ASSUME Len(q) # 0 PROVE FALSE
    OBVIOUS
  <2>1. 1 \in 1 .. Len(q)
    BY <1>4
  <2>2. ix[1] \in 1 .. Len(cs)
    BY <1>1, <1>2, <2>1 DEF StopIndex
  <2>3. s.active = t.count
    BY <1>1, <1>2, <1>4, <2>1, <2>2 DEF StopIndex
  <2> QED
    BY <1>2, <1>4, <2>3
<1>6. ToStart(cs, t) = 0
  BY <1>2, <1>3, <1>4, <1>5
<1>7. Plan(cs, t).steps \in Seq(StopSteps(cs) \cup StartSteps(t)) /\ Len(Plan(cs, t).steps) = 0
  <2>1. /\ Plan(cs, t).steps \in Seq(StopSteps(cs) \cup StartSteps(t))
        /\ Len(Plan(cs, t).steps) = ToStart(cs, t) + Len(q)
    BY PlanShape DEF q
  <2> QED
    BY <1>5, <1>6, <2>1
<1> QED
  BY <1>7, EmptySeq
=============================================================================
