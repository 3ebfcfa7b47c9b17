---------------------------- MODULE DescChainProofs ----------------------------
(***************************************************************************)
(* What holds of packets that are chains of descriptors, for any number of *)
(* descriptors and packets and any lengths: proofs of the invariants that  *)
(* MCDescChain checks.  What _process_desc makes of a chain is a recursive *)
(* function of the rounds of its loop; induction on them is the search for *)
(* the first round that is not as it should be (SmallestOf).               *)
(***************************************************************************)
EXTENDS DescChain, WellFoundedInduction, FiniteSetTheorems, TLAPS

-----------------------------------------------------------------------------
(* The parts of the inductive invariant, most of which hold for as long as the
   driver has looked at no entry that _process_desc did not write. *)
Clean == \A p \in 1 .. seen : delivered[p] # Nothing

Live == seen + 1 .. availIdx

(* The driver's packets are those it has not seen in the used ring. *)
LiveChains == ~ broken /\ \A p \in Packets : chain[p] # <<>> <=> p \in Live

(* A packet in its descriptors: its k-th buffer is in ids[k], and they are
   linked in this order. *)
InDescs(p, c, ids) ==
  /\ ids \in [1 .. Len(c) -> Ids]
  /\ \A k \in 1 .. Len(c) :
       desc[ids[k]] = [len |-> c[k], of |-> p,
                       next |-> IF k = Len(c) THEN NONE ELSE ids[k + 1]]

DescsInPlace == \A p \in Live : InDescs(p, sizes[p], chain[p])

(* No two of them share a descriptor. *)
ChainsApart ==
  \A p, q \in Live : p # q => Range(chain[p]) \cap Range(chain[q]) = {}

HeadsListed == \A p \in lastAvail + 1 .. availIdx :
                 availRing[(p - 1) % Num] = chain[p][1]

HeadsUsed == \A p \in seen + 1 .. lastAvail :
               delivered[p] # Nothing => usedRing[(p - 1) % Num] = chain[p][1]

(* What avail_handler gets of packet p. *)
Outcome(p) == IF sizes[p][1] < Cap
                THEN [len |-> Prefix(sizes[p]) - Hdr, of |-> {p}]
                ELSE Nothing

Outcomes == \A p \in Processed : delivered[p] = Outcome(p)

Orderly == /\ LiveChains /\ ChainsApart /\ DescsInPlace
           /\ HeadsListed /\ HeadsUsed /\ Outcomes

SizesOK == \A p \in 1 .. availIdx : sizes[p] \in Chains

NotYet == \A p \in lastAvail + 1 .. MaxPackets : delivered[p] = Nothing

ByPacket(f) == f = [p \in Packets |-> f[p]]

ChainInv == /\ TypeOK
            /\ ByPacket(chain) /\ ByPacket(sizes) /\ ByPacket(delivered)
            /\ SizesOK
            /\ NotYet
            /\ FirstBuffersFit => Clean
            /\ Clean => Orderly

-----------------------------------------------------------------------------
Less == {ss \in Nat \X Nat : ss[1] < ss[2]}

(* Induction over the natural numbers, for a set instead of a predicate. *)
LEMMA SmallestOf ==
  ASSUME NEW T, T \subseteq Nat, T # {}
  PROVE  \E n \in T : \A m \in T : n <= m
<1>1. IsWellFoundedOn(Less, Nat)
  <2>1. Less = OpToRel(<, Nat)
    BY Zenon DEF Less, OpToRel
  <2> QED
    BY <2>1, NatLessThanWellFounded, Zenon
<1>2. PICK n \in T : \A m \in T : ~ (<<m, n>> \in Less)
  BY <1>1, WFMin, Zenon
<1>3. ASSUME NEW m \in T PROVE n <= m
  <2>1. n \in Nat /\ m \in Nat
    OBVIOUS
  <2>2. ~ (<<m, n>> \in Less)
    BY <1>2
  <2>3. ~ (m < n)
    BY <2>1, <2>2 DEF Less
  <2> QED
    BY <2>1, <2>3
<1> QED
  BY <1>3, Zenon

(* Totals computes the sums of the first buffers, as its text says. *)
LEMMA TotalsAdd ==
  ASSUME NEW c \in Seq(Nat)
  PROVE  /\ Totals(c) \in [0 .. Len(c) -> Nat]
         /\ Totals(c)[0] = 0
         /\ \A k \in 1 .. Len(c) : Totals(c)[k] = Totals(c)[k - 1] + c[k]
<1> DEFINE Sums(f, n) == /\ f \in [0 .. n -> Nat]
                         /\ f[0] = 0
                         /\ \A k \in 1 .. n : f[k] = f[k - 1] + c[k]
           Fails == {n \in 0 .. Len(c) : ~ \E f : Sums(f, n)}
<1>1. Len(c) \in Nat /\ \A k \in 1 .. Len(c) : c[k] \in Nat
  OBVIOUS
<1>2. Fails = {}
  <2> SUFFICES ASSUME Fails # {} PROVE FALSE
    OBVIOUS
  <2>1. Fails \subseteq Nat
    BY <1>1
  <2>2. PICK n \in Fails : \A m \in Fails : n <= m
    BY <2>1, SmallestOf, Zenon
  <2>3. n \in 0 .. Len(c) /\ ~ \E f : Sums(f, n)
    OBVIOUS
  <2>4. CASE n = 0
    <3>1. Sums([k \in 0 .. 0 |-> 0], 0)
      OBVIOUS
    <3> QED
      BY <2>3, <2>4, <3>1
  <2>5. CASE n # 0
    <3>1. n - 1 \in 0 .. Len(c) /\ ~ (n <= n - 1)
      BY <1>1, <2>3, <2>5
    <3>2. n - 1 \notin Fails
      BY <2>2, <3>1
    <3>3. PICK f : Sums(f, n - 1)
      BY <3>1, <3>2
    <3> DEFINE g == [k \in 0 .. n |-> IF k = n THEN f[n - 1] + c[n] ELSE f[k]]
    <3>4. f[n - 1] \in Nat /\ c[n] \in Nat
      BY <1>1, <2>3, <2>5, <3>3
    <3>5. g \in [0 .. n -> Nat]
      BY <1>1, <2>3, <3>3, <3>4
    <3>6. g[0] = 0
      BY <1>1, <2>3, <2>5, <3>3
    <3>7. ASSUME NEW k \in 1 .. n PROVE g[k] = g[k - 1] + c[k]
      <4>1. CASE k = n
        BY <1>1, <2>3, <4>1
      <4>2. CASE k # n
        <5>1. k \in 1 .. n - 1 /\ k \in 0 .. n /\ k - 1 \in 0 .. n /\ k - 1 # n
          BY <1>1, <2>3, <4>2
        <5> QED
          BY <3>3, <4>2, <5>1
      <4> QED
        BY <4>1, <4>2
    <3> QED
      BY <2>3, <3>5, <3>6, <3>7
  <2> QED
    BY <2>4, <2>5
<1>3. PICK f : Sums(f, Len(c))
  <2>1. Len(c) \in 0 .. Len(c)
    BY <1>1
  <2> QED
    BY <1>2, <2>1, Zenon
<1> DEFINE Is(g) == g = [k \in 0 .. Len(c) |-> IF k = 0 THEN 0
                                              ELSE g[k - 1] + c[k]]
<1>4. Is(f)
  BY <1>1, <1>3
<1>5. Is(Totals(c))
  BY <1>4, Zenon DEF Totals
<1>6. /\ Totals(c)[0] = 0
      /\ \A k \in 1 .. Len(c) : Totals(c)[k] = Totals(c)[k - 1] + c[k]
  BY <1>1, <1>5
<1> DEFINE Differ == {k \in 0 .. Len(c) : Totals(c)[k] # f[k]}
<1>7. Differ = {}
  <2> SUFFICES ASSUME Differ # {} PROVE FALSE
    OBVIOUS
  <2>1. Differ \subseteq Nat
    BY <1>1
  <2>2. PICK k \in Differ : \A m \in Differ : k <= m
    BY <2>1, SmallestOf, Zenon
  <2>3. k # 0
    BY <1>3, <1>6
  <2>4. k \in 1 .. Len(c) /\ k - 1 \in 0 .. Len(c) /\ ~ (k <= k - 1)
    BY <1>1, <2>3
  <2>5. Totals(c)[k - 1] = f[k - 1]
    BY <2>2, <2>4
  <2> QED
    BY <1>3, <1>6, <2>4, <2>5
<1>8. Totals(c) = f
  <2>1. \A k \in 0 .. Len(c) : Totals(c)[k] = f[k]
    BY <1>7
  <2>2. Totals(c) = [k \in 0 .. Len(c) |-> Totals(c)[k]]
    BY <1>5
  <2> QED
    BY <1>3, <2>1, <2>2
<1> QED
  BY <1>3, <1>8

LEMMA TotalsGrow ==
  ASSUME NEW c \in Seq(Nat \ {0}), NEW j \in 0 .. Len(c), NEW k \in 0 .. Len(c),
         j < k
  PROVE  Totals(c)[j] < Totals(c)[k]
<1> DEFINE Fails == {n \in j + 1 .. Len(c) : ~ (Totals(c)[j] < Totals(c)[n])}
<1>1. /\ Len(c) \in Nat /\ j \in Nat /\ k \in Nat
      /\ \A n \in 1 .. Len(c) : c[n] \in Nat /\ c[n] > 0
  OBVIOUS
<1>2. c \in Seq(Nat)
  OBVIOUS
<1>3. /\ \A n \in 0 .. Len(c) : Totals(c)[n] \in Nat
      /\ \A n \in 1 .. Len(c) : Totals(c)[n] = Totals(c)[n - 1] + c[n]
  BY <1>1, <1>2, TotalsAdd
<1>4. ASSUME NEW n \in j + 1 .. Len(c), n - 1 # j => Totals(c)[j] < Totals(c)[n - 1]
      PROVE  Totals(c)[j] < Totals(c)[n]
  <2>1. n \in 1 .. Len(c) /\ n - 1 \in 0 .. Len(c) /\ n \in 0 .. Len(c)
    BY <1>1
  <2>2. Totals(c)[n] = Totals(c)[n - 1] + c[n] /\ c[n] \in Nat /\ c[n] > 0
    BY <1>1, <1>3, <2>1
  <2>3. Totals(c)[n - 1] \in Nat /\ Totals(c)[j] \in Nat
    BY <1>1, <1>3, <2>1
  <2>4. Totals(c)[n - 1] = Totals(c)[j] \/ Totals(c)[j] < Totals(c)[n - 1]
    BY <1>4, Zenon
  <2> QED
    BY <2>2, <2>3, <2>4
<1>5. Fails = {}
  <2> SUFFICES ASSUME Fails # {} PROVE FALSE
    OBVIOUS
  <2>1. Fails \subseteq Nat
    BY <1>1
  <2>2. PICK n \in Fails : \A m \in Fails : n <= m
    BY <2>1, SmallestOf, Zenon
  <2>3. n \in j + 1 .. Len(c) /\ ~ (Totals(c)[j] < Totals(c)[n])
    BY Zenon
  <2>4. n - 1 # j => n - 1 \in j + 1 .. Len(c) /\ ~ (n <= n - 1)
    BY <1>1, <2>3
  <2>5. n - 1 # j => Totals(c)[j] < Totals(c)[n - 1]
    BY <2>2, <2>4, Zenon
  <2> QED
    BY <1>4, <2>3, <2>5, Zenon
<1>6. k \in j + 1 .. Len(c) /\ k \notin Fails
  BY <1>1, <1>5
<1> QED
  BY <1>6, Zenon

(* Where _process_desc stops in a packet with buffers c: after k of them. *)
CutAt(c, k) == /\ k \in 0 .. Len(c)
               /\ Totals(c)[k] < Cap
               /\ k < Len(c) => Totals(c)[k] + c[k + 1] >= Cap

LEMMA CutExists ==
  ASSUME NEW c \in Chains
  PROVE  \E k : /\ CutAt(c, k)
                /\ Prefix(c) = Totals(c)[k]
                /\ c[1] < Cap <=> k > 0
                /\ k > 0 => Totals(c)[k] > 0
<1>1. /\ c \in Seq(Nat \ {0}) /\ c \in Seq(Nat)
      /\ Len(c) \in Nat /\ Len(c) >= 1
      /\ Cap \in Nat /\ Cap > 0
      /\ \A n \in 1 .. Len(c) : c[n] \in Nat /\ c[n] > 0
  BY DescChainAssumption
<1>2. /\ \A n \in 0 .. Len(c) : Totals(c)[n] \in Nat
      /\ Totals(c)[0] = 0
      /\ \A n \in 1 .. Len(c) : Totals(c)[n] = Totals(c)[n - 1] + c[n]
  BY <1>1, TotalsAdd
<1> DEFINE Stops == {n \in 0 .. Len(c) : n < Len(c) => Totals(c)[n] + c[n + 1] >= Cap}
<1>3. Stops \subseteq Nat /\ Stops # {}
  <2>1. Len(c) \in Stops
    BY <1>1
  <2> QED
    BY <1>1, <2>1
<1>4. PICK k \in Stops : \A m \in Stops : k <= m
  BY <1>3, SmallestOf, Zenon
<1>5. k \in 0 .. Len(c) /\ (k < Len(c) => Totals(c)[k] + c[k + 1] >= Cap)
  OBVIOUS
<1>6. Totals(c)[k] < Cap
  <2>1. CASE k = 0
    BY <1>1, <1>2, <2>1
  <2>2. CASE k # 0
    <3>1. k \in 1 .. Len(c) /\ k - 1 \in 0 .. Len(c) /\ k - 1 < Len(c)
          /\ ~ (k <= k - 1) /\ (k - 1) + 1 = k
      BY <1>1, <1>5, <2>2
    <3>2. k - 1 \notin Stops
      BY <1>4, <3>1
    <3>3. ~ (Totals(c)[k - 1] + c[k] >= Cap)
      BY <3>1, <3>2
    <3> QED
      BY <1>1, <1>2, <3>1, <3>3
  <2> QED
    BY <2>1, <2>2
<1>7. CutAt(c, k)
  BY <1>5, <1>6 DEF CutAt
<1>8. Prefix(c) = Totals(c)[k]
  <2> DEFINE Short == {t \in {Totals(c)[n] : n \in 0 .. Len(c)} : t < Cap}
  <2>1. Totals(c)[k] \in Short
    BY <1>5, <1>6
  <2>2. ASSUME NEW t \in Short PROVE t \in Nat /\ Totals(c)[k] >= t
    <3>1. PICK n \in 0 .. Len(c) : t = Totals(c)[n]
      OBVIOUS
    <3>2. t \in Nat /\ t < Cap
      BY <1>2, <3>1
    <3>3. CASE n <= k
      <4>1. n = k \/ n < k
        BY <1>1, <1>5, <3>3
      <4>2. n < k => Totals(c)[n] < Totals(c)[k]
        BY <1>1, <1>5, TotalsGrow
      <4> QED
        BY <1>2, <1>5, <3>1, <3>2, <4>1, <4>2
    <3>4. CASE k < n
      <4>1. k < Len(c) /\ k + 1 \in 1 .. Len(c) /\ (k + 1) - 1 = k
        BY <1>1, <1>5, <3>4
      <4>2. Totals(c)[k + 1] >= Cap
        BY <1>2, <1>5, <4>1
      <4>3. n = k + 1 \/ k + 1 < n
        BY <1>1, <1>5, <3>4
      <4>4. k + 1 < n => Totals(c)[k + 1] < Totals(c)[n]
        BY <1>1, <4>1, TotalsGrow
      <4> QED
        BY <1>1, <1>2, <3>1, <3>2, <4>1, <4>2, <4>3, <4>4
    <3> QED
      BY <1>1, <1>5, <3>2, <3>3, <3>4
  <2>3. Max(Short) \in Short /\ \A t \in Short : Max(Short) >= t
    <3> HIDE DEF Short
    <3>1. \E t \in Short : \A u \in Short : t >= u
      BY <2>1, <2>2
    <3> QED
      BY <3>1, Zenon DEF Max
  <2>4. Max(Short) = Totals(c)[k]
    <3> HIDE DEF Short
    <3>1. Max(Short) >= Totals(c)[k] /\ Totals(c)[k] >= Max(Short)
      BY <2>1, <2>2, <2>3
    <3> QED
      BY <2>1, <2>2, <2>3, <3>1
  <2> QED
    BY <2>4 DEF Prefix
<1>9. c[1] < Cap <=> k > 0
  <2>1. CASE k = 0
    BY <1>1, <1>2, <1>5, <2>1
  <2>2. CASE k # 0
    <3>1. k \in 1 .. Len(c) /\ 1 \in 1 .. Len(c) /\ 1 \in 0 .. Len(c)
      BY <1>1, <1>5, <2>2
    <3>2. Totals(c)[1] = c[1]
      BY <1>1, <1>2, <3>1
    <3>3. k = 1 \/ Totals(c)[1] < Totals(c)[k]
      BY <1>1, <1>5, <3>1, TotalsGrow
    <3> QED
      BY <1>1, <1>2, <1>5, <1>6, <3>1, <3>2, <3>3
  <2> QED
    BY <2>1, <2>2
<1>10. k > 0 => Totals(c)[k] > 0
  BY <1>1, <1>2, <1>5, TotalsGrow
<1> QED
  BY <1>7, <1>8, <1>9, <1>10

(* The first k buffers of p are copied, and nothing else. *)
CopiedBefore(k, p, c, ids) ==
  /\ Copy(ids[1]).len = Totals(c)[k]
  /\ Copy(ids[1]).of = IF k = 0 THEN {} ELSE {p}

(* The loop of _process_desc copies the buffers before the cut, and stops. *)
LEMMA WalkStops ==
  ASSUME NEW c \in Chains, NEW p, NEW ids, InDescs(p, c, ids), NEW k, CutAt(c, k)
  PROVE  CopiedBefore(k, p, c, ids)
<1> DEFINE Round(s) == IF s.at # NONE /\ Fits(s.len, desc[s.at].len)
                         THEN [at  |-> desc[s.at].next,
                               len |-> s.len + desc[s.at].len,
                               of  |-> s.of \cup {desc[s.at].of}]
                         ELSE [s EXCEPT !.at = NONE]
           Start == [at |-> ids[1], len |-> 0, of |-> {}]
           Of(n) == IF n = 0 THEN {} ELSE {p}
           Copied(n) == [at  |-> IF n = Len(c) THEN NONE ELSE ids[n + 1],
                         len |-> Totals(c)[n], of |-> Of(n)]
           Stopped == [at |-> NONE, len |-> Totals(c)[k], of |-> Of(k)]
           g == [n \in 0 .. Num |-> IF n <= k THEN Copied(n) ELSE Stopped]
           Is(f) == f = [n \in 0 .. Num |-> IF n = 0 THEN Start
                                            ELSE Round(f[n - 1])]
<1>1. /\ c \in Seq(Nat \ {0}) /\ c \in Seq(Nat)
      /\ Len(c) \in 1 .. Num /\ Num \in Nat /\ Cap \in Nat
      /\ \A n \in 1 .. Len(c) : c[n] \in Nat /\ c[n] > 0
  BY DescChainAssumption
<1>2. /\ \A n \in 0 .. Len(c) : Totals(c)[n] \in Nat
      /\ Totals(c)[0] = 0
      /\ \A n \in 1 .. Len(c) : Totals(c)[n] = Totals(c)[n - 1] + c[n]
  BY <1>1, TotalsAdd
<1>3. k \in 0 .. Len(c) /\ k \in 0 .. Num
  BY <1>1 DEF CutAt
<1>4. \A n \in 1 .. Len(c) : ids[n] \in Ids /\ ids[n] # NONE
  <2>1. ids \in [1 .. Len(c) -> Ids]
    BY DEF InDescs
  <2>2. NONE \notin Ids
    BY <1>1 DEF Ids, NONE
  <2> QED
    BY <2>1, <2>2
<1>5. g[0] = Start
  <2>1. 0 \in 0 .. Num /\ 0 <= k /\ 0 # Len(c) /\ 0 + 1 = 1
    BY <1>1, <1>3
  <2>2. g[0] = Copied(0)
    BY <2>1
  <2> QED
    BY <1>2, <2>1, <2>2
<1>6. ASSUME NEW n \in 1 .. k PROVE Copied(n) = Round(Copied(n - 1))
  <2>1. n \in 1 .. Len(c) /\ n - 1 \in 0 .. Len(c) /\ n - 1 # Len(c)
    BY <1>1, <1>3
  <2>2. Totals(c)[n] < Cap
    <3>1. n = k \/ Totals(c)[n] < Totals(c)[k]
      BY <1>1, <1>3, <2>1, TotalsGrow
    <3>2. Totals(c)[n] \in Nat /\ Totals(c)[k] \in Nat /\ Totals(c)[k] < Cap
      BY <1>2, <1>3, <2>1 DEF CutAt
    <3> QED
      BY <1>1, <3>1, <3>2
  <2> DEFINE s == Copied(n - 1)
  <2>3. s.at = ids[n] /\ s.len = Totals(c)[n - 1] /\ s.of = Of(n - 1)
    BY <2>1
  <2>4. desc[ids[n]] = [len |-> c[n], of |-> p,
                        next |-> IF n = Len(c) THEN NONE ELSE ids[n + 1]]
    BY <2>1 DEF InDescs
  <2>5. Totals(c)[n] = Totals(c)[n - 1] + c[n]
    BY <1>2, <2>1
  <2>6. Fits(Totals(c)[n - 1], c[n])
    BY <2>2, <2>5 DEF Fits
  <2>7. Of(n) = Of(n - 1) \cup {p}
    BY <2>1
  <2>8. ids[n] # NONE
    BY <1>4, <2>1
  <2> HIDE DEF s, Of
  <2>9. Round(s) = [at |-> IF n = Len(c) THEN NONE ELSE ids[n + 1],
                     len |-> Totals(c)[n], of |-> Of(n)]
    BY <2>3, <2>4, <2>5, <2>6, <2>7, <2>8
  <2> QED
    BY <2>9 DEF s, Of
<1>7. Stopped = Round(Copied(k))
  <2>1. CASE k = Len(c)
    BY <2>1
  <2>2. CASE k # Len(c)
    <3>1. k + 1 \in 1 .. Len(c) /\ k < Len(c)
      BY <1>1, <1>3, <2>2
    <3>2. desc[ids[k + 1]].len = c[k + 1]
      <4> DEFINE n == k + 1
      <4>1. n \in 1 .. Len(c)
        BY <3>1
      <4> HIDE DEF n
      <4>2. desc[ids[n]] = [len |-> c[n], of |-> p,
                            next |-> IF n = Len(c) THEN NONE ELSE ids[n + 1]]
        BY <4>1 DEF InDescs
      <4>3. desc[ids[n]].len = c[n]
        BY <4>2
      <4> QED
        BY <4>3 DEF n
    <3>3. Totals(c)[k] \in Nat /\ c[k + 1] \in Nat /\ Totals(c)[k] + c[k + 1] >= Cap
      BY <1>1, <1>2, <1>3, <3>1 DEF CutAt
    <3>4. ~ Fits(Totals(c)[k], c[k + 1])
      BY <1>1, <3>3 DEF Fits
    <3> QED
      BY <2>2, <3>2, <3>4
  <2> QED
    BY <2>1, <2>2
<1>8. Stopped = Round(Stopped)
  OBVIOUS
<1>9. ASSUME NEW n \in 1 .. Num PROVE g[n] = Round(g[n - 1])
  <2> n - 1 \in 0 .. Num /\ n \in 0 .. Num
    BY <1>1
  <2>1. CASE n <= k
    <3>1. n \in 1 .. k /\ n - 1 <= k
      BY <1>1, <1>3, <2>1
    <3>2. g[n] = Copied(n) /\ g[n - 1] = Copied(n - 1)
      BY <2>1, <3>1
    <3> QED
      BY <1>6, <3>1, <3>2, Zenon
  <2>2. CASE n = k + 1
    <3>1. n - 1 = k /\ ~ (n <= k) /\ n - 1 <= k
      BY <1>1, <1>3, <2>2
    <3>2. g[n] = Stopped /\ g[n - 1] = Copied(k)
      BY <3>1
    <3> QED
      BY <1>7, <3>2, Zenon
  <2>3. CASE n > k + 1
    <3>1. ~ (n <= k) /\ ~ (n - 1 <= k)
      BY <1>1, <1>3, <2>3
    <3>2. g[n] = Stopped /\ g[n - 1] = Stopped
      BY <3>1
    <3> QED
      BY <1>8, <3>2, Zenon
  <2> QED
    BY <1>1, <1>3, <2>1, <2>2, <2>3
<1> HIDE DEF Round, Start, Stopped, Copied
<1>10. Is(g)
  <2>1. g = [n \in 0 .. Num |-> g[n]]
    OBVIOUS
  <2> HIDE DEF g
  <2>2. \A n \in 0 .. Num : g[n] = IF n = 0 THEN Start ELSE Round(g[n - 1])
    BY <1>1, <1>5, <1>9
  <2> QED
    BY <2>1, <2>2, Zenon
<1> DEFINE W == Walk(ids[1])
<1>11. Is(W)
  <2> HIDE DEF g
  <2> USE DEF Round, Start
  <2> QED
    BY <1>10, Zenon DEF Walk
<1> HIDE DEF W, g
<1>12. W[0] = g[0] /\ \A n \in 1 .. Num : W[n] = Round(W[n - 1])
  BY <1>1, <1>5, <1>11
<1> DEFINE Differ == {n \in 0 .. Num : W[n] # g[n]}
<1>13. Differ = {}
  <2> SUFFICES ASSUME Differ # {} PROVE FALSE
    OBVIOUS
  <2>1. Differ \subseteq Nat
    BY <1>1
  <2>2. PICK n \in Differ : \A m \in Differ : n <= m
    BY <2>1, SmallestOf, Zenon
  <2>3. n \in 0 .. Num /\ W[n] # g[n]
    BY Zenon
  <2>4. n \in 1 .. Num /\ n - 1 \in 0 .. Num /\ ~ (n <= n - 1)
    BY <1>1, <1>12, <2>3
  <2>5. W[n - 1] = g[n - 1]
    BY <2>2, <2>4, Zenon
  <2> QED
    BY <1>9, <1>12, <2>3, <2>4, <2>5, Zenon
<1>14. Num \in 0 .. Num
  BY <1>1
<1>15. Copy(ids[1]) = g[Num]
  BY <1>13, <1>14, Zenon DEF Copy, W
<1>16. g[Num].len = Totals(c)[k] /\ g[Num].of = IF k = 0 THEN {} ELSE {p}
  <2>1. CASE Num <= k
    <3>1. k = Num
      BY <1>1, <1>3, <2>1
    <3> QED
      BY <1>14, <2>1, <3>1 DEF g, Copied
  <2>2. CASE ~ (Num <= k)
    BY <1>14, <2>2 DEF g, Stopped
  <2> QED
    BY <2>1, <2>2
<1> QED
  BY <1>15, <1>16 DEF CopiedBefore

(* A packet is copied up to the cut, and no byte of another one. *)
CutCopied(p, c, ids) ==
  IF c[1] < Cap THEN /\ Copy(ids[1]).len # 0
                     /\ Copy(ids[1]).len = Prefix(c)
                     /\ Copy(ids[1]).of = {p}
                ELSE Copy(ids[1]).len = 0

LEMMA CopyOfPacket ==
  ASSUME NEW c \in Chains, NEW p, NEW ids, InDescs(p, c, ids)
  PROVE  CutCopied(p, c, ids)
<1>1. PICK k : /\ CutAt(c, k)
               /\ Prefix(c) = Totals(c)[k]
               /\ c[1] < Cap <=> k > 0
               /\ k > 0 => Totals(c)[k] > 0
  BY CutExists, Zenon
<1>2. CopiedBefore(k, p, c, ids)
  <2>1. CutAt(c, k)
    BY <1>1, Zenon
  <2> QED
    BY <2>1, WalkStops, Zenon
<1>3. c \in Seq(Nat) /\ Len(c) \in Nat
  BY DescChainAssumption
<1>4. k \in Nat /\ Totals(c)[0] = 0
  BY <1>1, <1>3, TotalsAdd DEF CutAt
<1>5. CASE c[1] < Cap
  <2>1. k > 0 /\ k # 0 /\ Totals(c)[k] > 0
    BY <1>1, <1>4, <1>5
  <2>2. Totals(c)[k] # 0
    BY <2>1
  <2> QED
    BY <1>1, <1>2, <1>5, <2>1, <2>2 DEF CopiedBefore, CutCopied
<1>6. CASE ~ (c[1] < Cap)
  <2>1. k = 0
    BY <1>1, <1>4, <1>6
  <2> QED
    BY <1>2, <1>4, <1>6, <2>1 DEF CopiedBefore, CutCopied
<1> QED
  BY <1>5, <1>6 DEF CutCopied

-----------------------------------------------------------------------------
LEMMA Quotient ==
  ASSUME NEW n \in Int, n > 0, NEW a \in Int
  PROVE  a = n * (a \div n) + (a % n)
BY Z3T(20)

LEMMA Division ==
  ASSUME NEW n \in Nat, n > 0, NEW a \in Nat
  PROVE  a % n \in 0 .. n - 1 /\ a \div n \in Int
OBVIOUS

(* Packets less than Num apart have different slots. *)
LEMMA SlotsDiffer ==
  ASSUME NEW a \in Nat, NEW b \in Nat, a < b, b < a + Num
  PROVE  a % Num # b % Num
<1> SUFFICES ASSUME a % Num = b % Num PROVE FALSE
  OBVIOUS
<1>1. Num \in Nat /\ Num > 0
  BY DescChainAssumption
<1> DEFINE i == a \div Num
           j == b \div Num
           r == b % Num
           d == j - i
<1>2. i \in Int /\ j \in Int /\ r \in Int
  BY <1>1, Division
<1>3. \A x, y, z \in Int : (Num * y + z) - (Num * x + z) = Num * (y - x)
  BY <1>1
<1>4. d \in Int /\ b - a = Num * d
  <2>1. a = Num * i + r
    BY <1>1, Quotient
  <2>2. b = Num * j + r
    BY <1>1, Quotient
  <2> HIDE DEF i, j, r
  <2> QED
    BY <1>2, <1>3, <2>1, <2>2
<1> HIDE DEF d
<1>5. d <= 0 => Num * d <= 0
  BY <1>1, <1>4
<1>6. d >= 1 => Num * d >= Num
  BY <1>1, <1>4
<1> QED
  BY <1>1, <1>4, <1>5, <1>6

LEMMA SlotIsId ==
  ASSUME NEW a \in Nat
  PROVE  a % Num \in Ids
BY DescChainAssumption, Division DEF Ids

LEMMA Bounds ==
  ASSUME TypeOK
  PROVE  /\ Num \in Nat /\ Num > 0 /\ Cap \in Nat /\ Hdr \in Nat
         /\ MaxPackets \in Nat
         /\ seen \in Nat /\ usedIdx \in Nat /\ lastAvail \in Nat /\ availIdx \in Nat
         /\ seen <= usedIdx /\ usedIdx <= lastAvail /\ lastAvail <= availIdx
         /\ availIdx <= MaxPackets
         /\ Live \subseteq Packets
BY DescChainAssumption DEF TypeOK, Live, Packets

(* What is known of a packet that the driver waits for. *)
LEMMA LivePacket ==
  ASSUME TypeOK, SizesOK, DescsInPlace, NEW p \in Live
  PROVE  /\ p \in Packets /\ p \in 1 .. availIdx
         /\ sizes[p] \in Chains /\ Len(sizes[p]) \in 1 .. Num
         /\ InDescs(p, sizes[p], chain[p])
         /\ chain[p] \in [1 .. Len(sizes[p]) -> Ids]
         /\ chain[p][1] \in Ids
         /\ chain[p][1] \in Range(chain[p])
<1>1. p \in Packets /\ p \in 1 .. availIdx
  BY Bounds DEF Live, Packets
<1>2. sizes[p] \in Chains /\ Len(sizes[p]) \in 1 .. Num
  BY <1>1, DescChainAssumption DEF SizesOK
<1>3. InDescs(p, sizes[p], chain[p])
  BY DEF DescsInPlace
<1>4. chain[p] \in [1 .. Len(sizes[p]) -> Ids] /\ 1 \in 1 .. Len(sizes[p])
  BY <1>2, <1>3 DEF InDescs
<1> QED
  BY <1>1, <1>2, <1>3, <1>4 DEF Range

(* The ring has room for the packets the driver waits for: each has a
   descriptor of its own. *)
LEMMA Pigeons ==
  ASSUME NEW a \in Nat, NEW b \in Nat, NEW h \in [a + 1 .. b -> Ids],
         \A p, q \in a + 1 .. b : p # q => h[p] # h[q]
  PROVE  b <= a + Num
<1> SUFFICES ASSUME b > a + Num PROVE FALSE
  BY DescChainAssumption
<1>1. Num \in Nat
  BY DescChainAssumption
<1>2. IsFiniteSet(Ids) /\ Cardinality(Ids) = Num
  BY <1>1, FS_Interval DEF Ids
<1>3. IsFiniteSet(a + 1 .. b) /\ Cardinality(a + 1 .. b) = b - a
  BY <1>1, FS_Interval
<1>4. Cardinality(Ids) < Cardinality(a + 1 .. b)
  BY <1>1, <1>2, <1>3
<1> QED
  BY <1>2, <1>3, <1>4, FS_PigeonHole

LEMMA RoomInRing ==
  ASSUME TypeOK, SizesOK, DescsInPlace, ChainsApart
  PROVE  availIdx <= seen + Num
<1> DEFINE h == [p \in seen + 1 .. availIdx |-> chain[p][1]]
<1>1. \A p \in seen + 1 .. availIdx : h[p] \in Ids /\ h[p] \in Range(chain[p])
  BY LivePacket DEF Live
<1>2. h \in [seen + 1 .. availIdx -> Ids]
  BY <1>1
<1>3. ASSUME NEW p \in seen + 1 .. availIdx, NEW q \in seen + 1 .. availIdx, p # q
      PROVE  h[p] # h[q]
  <2>1. Range(chain[p]) \cap Range(chain[q]) = {}
    BY <1>3 DEF ChainsApart, Live
  <2> HIDE DEF h
  <2> QED
    BY <1>1, <2>1
<1> HIDE DEF h
<1> QED
  BY <1>2, <1>3, Bounds, Pigeons

-----------------------------------------------------------------------------
LEMMA PutStep ==
  ASSUME ChainInv, NEW c \in Chains, Put(c)
  PROVE  ChainInv'
<1> USE DEF ChainInv
<1> DEFINE At(ids, d) == CHOOSE k \in 1 .. Len(c) : ids[k] = d
<1> PICK p0 : p0 = availIdx + 1
  OBVIOUS
<1>1. PICK ids \in [1 .. Len(c) -> Ids \ InUse] :
        /\ IsInjective(ids)
        /\ desc' = [d \in Ids |->
                      IF d \notin Range(ids) THEN desc[d]
                      ELSE [len |-> c[At(ids, d)], of |-> p0,
                            next |-> IF At(ids, d) = Len(c) THEN NONE
                                     ELSE ids[At(ids, d) + 1]]]
        /\ availRing' = [availRing EXCEPT ![availIdx % Num] = ids[1]]
        /\ chain' = [chain EXCEPT ![p0] = ids]
        /\ sizes' = [sizes EXCEPT ![p0] = c]
  BY DEF Put
<1>2. /\ ~ broken /\ availIdx < MaxPackets /\ availIdx' = availIdx + 1
      /\ usedRing' = usedRing /\ usedIdx' = usedIdx /\ seen' = seen
      /\ broken' = broken /\ lastAvail' = lastAvail /\ delivered' = delivered
  BY DEF Put
<1>3. /\ c \in Seq(Nat) /\ Len(c) \in 1 .. Num
      /\ \A k \in 1 .. Len(c) : c[k] \in Nat
  BY DescChainAssumption
<1>4. p0 \in Packets /\ p0 \in 0 .. MaxPackets /\ p0 \notin 1 .. availIdx
  BY <1>2, Bounds DEF Packets
<1>5. \A k \in 1 .. Len(c) : ids[k] \in Ids /\ ids[k] \in Range(ids)
  BY DEF Range
<1>6. ASSUME NEW k \in 1 .. Len(c)
      PROVE  desc'[ids[k]] = [len |-> c[k], of |-> p0,
                              next |-> IF k = Len(c) THEN NONE ELSE ids[k + 1]]
  <2>1. At(ids, ids[k]) \in 1 .. Len(c) /\ ids[At(ids, ids[k])] = ids[k]
    OBVIOUS
  <2>2. At(ids, ids[k]) = k
    BY <1>1, <2>1 DEF IsInjective
  <2> HIDE DEF At
  <2> QED
    BY <1>1, <1>5, <2>2
<1>7. \A d \in Ids : d \notin Range(ids) => desc'[d] = desc[d]
  BY <1>1
<1>8. \A p \in Packets : Range(ids) \cap Range(chain[p]) = {}
  <2>1. \A d \in Range(ids) : d \notin InUse
    BY DEF Range
  <2> QED
    BY <2>1 DEF InUse
<1>9. /\ chain'[p0] = ids /\ sizes'[p0] = c
      /\ \A p \in Packets : p # p0 => chain'[p] = chain[p] /\ sizes'[p] = sizes[p]
      /\ ByPacket(chain)' /\ ByPacket(sizes)' /\ ByPacket(delivered)'
  <2>1. ByPacket(chain)' /\ ByPacket(sizes)'
    BY <1>1 DEF ByPacket, Packets
  <2> QED
    BY <1>1, <1>2, <1>4, <2>1 DEF ByPacket, Packets
<1>10. \A p \in 1 .. availIdx : p \in Packets /\ p # p0
  BY Bounds DEF Packets
<1> HIDE DEF At
<1>11. TypeOK'
  <2>1. desc' \in [Ids -> [len : Nat, next : Ids \cup {NONE}, of : 0 .. MaxPackets]]
    <3>1. ASSUME NEW d \in Ids
          PROVE  desc'[d] \in [len : Nat, next : Ids \cup {NONE}, of : 0 .. MaxPackets]
      <4>1. CASE d \in Range(ids)
        <5>1. PICK k \in 1 .. Len(c) : d = ids[k]
          BY <4>1 DEF Range
        <5> DEFINE n == IF k = Len(c) THEN NONE ELSE ids[k + 1]
        <5>2. n \in Ids \cup {NONE} /\ c[k] \in Nat
          <6>1. k # Len(c) => k + 1 \in 1 .. Len(c)
            BY <1>3
          <6> QED
            BY <1>3, <1>5, <6>1
        <5>3. desc'[d] = [len |-> c[k], of |-> p0, next |-> n]
          BY <1>6, <5>1
        <5> HIDE DEF n
        <5> QED
          BY <1>4, <5>2, <5>3
      <4>2. CASE d \notin Range(ids)
        BY <1>7, <4>2 DEF TypeOK
      <4> QED
        BY <4>1, <4>2
    <3>2. desc' = [d \in Ids |-> desc'[d]]
      BY <1>1
    <3> QED
      BY <3>1, <3>2
  <2>2. availRing' \in [Ids -> Ids]
    <3>1. ids[1] \in Ids /\ availRing \in [Ids -> Ids]
      BY <1>3, <1>5 DEF TypeOK
    <3> QED
      BY <1>1, <3>1
  <2>3. {seen, usedIdx, lastAvail, availIdx}' \subseteq 0 .. MaxPackets
    BY <1>2, <1>4 DEF TypeOK
  <2>4. \A p \in Packets : Range(chain'[p]) \subseteq Ids
    BY <1>9 DEF TypeOK, Range
  <2> QED
    BY <1>2, <2>1, <2>2, <2>3, <2>4, Bounds DEF TypeOK
<1>12. SizesOK' /\ NotYet'
  BY <1>2, <1>9, <1>10, Bounds DEF SizesOK, NotYet
<1>13. FirstBuffersFit' => FirstBuffersFit
  BY <1>2, <1>9, <1>10, Bounds DEF FirstBuffersFit
<1>14. Clean' <=> Clean
  BY <1>2 DEF Clean
<1>15. ASSUME Clean PROVE Orderly'
  <2> Orderly
    BY <1>15
  <2> USE DEF Orderly
  <2>1. Live' = Live \cup {p0} /\ p0 \notin Live /\ Live \subseteq 1 .. availIdx
    BY <1>2, Bounds DEF Live
  <2>2. LiveChains'
    <3>1. ids # <<>>
      BY <1>3
    <3> QED
      BY <1>2, <1>9, <2>1, <3>1 DEF LiveChains
  <2>3. ChainsApart'
    <3>1. ASSUME NEW p \in Live PROVE p \in Packets /\ p # p0 /\ chain'[p] = chain[p]
      BY <1>9, <1>10, <2>1
    <3>2. ASSUME NEW p \in Live', NEW q \in Live', p # q
          PROVE  Range(chain'[p]) \cap Range(chain'[q]) = {}
      <4>1. CASE p = p0
        BY <1>8, <1>9, <2>1, <3>1, <3>2, <4>1
      <4>2. CASE q = p0
        BY <1>8, <1>9, <2>1, <3>1, <3>2, <4>2
      <4>3. CASE p # p0 /\ q # p0
        BY <2>1, <3>1, <3>2, <4>3 DEF ChainsApart
      <4> QED
        BY <4>1, <4>2, <4>3
    <3> QED
      BY <3>2 DEF ChainsApart
  <2>4. DescsInPlace'
    <3>1. InDescs(p0, sizes[p0], chain[p0])'
      BY <1>5, <1>6, <1>9 DEF InDescs
    <3>2. ASSUME NEW p \in Live PROVE InDescs(p, sizes[p], chain[p])'
      <4>1. /\ InDescs(p, sizes[p], chain[p]) /\ chain[p] \in [1 .. Len(sizes[p]) -> Ids]
            /\ sizes'[p] = sizes[p] /\ chain'[p] = chain[p]
        BY <1>9, <1>10, <2>1, LivePacket
      <4>2. \A k \in 1 .. Len(sizes[p]) : chain[p][k] \in Ids /\ chain[p][k] \notin Range(ids)
        <5>1. Range(ids) \cap Range(chain[p]) = {}
          BY <1>8, <1>10, <2>1
        <5>2. \A k \in 1 .. Len(sizes[p]) : chain[p][k] \in Ids /\ chain[p][k] \in Range(chain[p])
          BY <4>1 DEF Range
        <5> QED
          BY <5>1, <5>2
      <4> QED
        BY <1>7, <4>1, <4>2 DEF InDescs
    <3> QED
      BY <2>1, <3>1, <3>2 DEF DescsInPlace
  <2>5. availIdx' <= seen + Num
    <3> DEFINE h == [p \in seen + 1 .. p0 |-> chain'[p][1]]
    <3>1. ASSUME NEW p \in seen + 1 .. p0 PROVE h[p] \in Ids /\ h[p] \in Range(chain'[p])
      <4>1. CASE p = p0
        BY <1>3, <1>5, <1>9, <4>1
      <4>2. CASE p # p0
        <5>1. p \in Live
          BY <4>2, Bounds DEF Live
        <5> QED
          BY <1>9, <1>10, <2>1, <5>1, LivePacket
      <4> QED
        BY <4>1, <4>2
    <3>2. h \in [seen + 1 .. p0 -> Ids]
      BY <3>1
    <3>3. ASSUME NEW p \in seen + 1 .. p0, NEW q \in seen + 1 .. p0, p # q
          PROVE  h[p] # h[q]
      <4>1. Range(chain'[p]) \cap Range(chain'[q]) = {}
        BY <1>2, <2>3, <3>3 DEF ChainsApart, Live
      <4> HIDE DEF h
      <4> QED
        BY <3>1, <4>1
    <3> HIDE DEF h
    <3>4. p0 \in Nat /\ seen \in Nat
      BY Bounds
    <3>5. p0 <= seen + Num
      BY <3>2, <3>3, <3>4, Pigeons
    <3> QED
      BY <1>2, <3>5
  <2>6. HeadsListed'
    <3>1. ASSUME NEW p \in lastAvail + 1 .. p0 PROVE availRing'[(p - 1) % Num] = chain'[p][1]
      <4>1. (p - 1) \in Nat /\ (p - 1) % Num \in Ids /\ availIdx % Num \in Ids
        <5>1. (p - 1) \in Nat /\ availIdx \in Nat
          BY Bounds
        <5> QED
          BY <5>1, SlotIsId
      <4>2. CASE p = p0
        <5>1. p - 1 = availIdx
          BY <4>2, Bounds
        <5> QED
          BY <1>1, <1>9, <4>1, <4>2, <5>1 DEF TypeOK
      <4>3. CASE p # p0
        <5>1. /\ p \in lastAvail + 1 .. availIdx /\ p \in 1 .. availIdx
              /\ p - 1 < availIdx /\ availIdx < (p - 1) + Num
          BY <1>2, <2>5, <4>3, Bounds
        <5>2. (p - 1) % Num # availIdx % Num
          BY <4>1, <5>1, Bounds, SlotsDiffer
        <5>3. availRing'[(p - 1) % Num] = availRing[(p - 1) % Num]
          BY <1>1, <4>1, <5>2 DEF TypeOK
        <5> QED
          BY <1>9, <1>10, <5>1, <5>3 DEF HeadsListed
      <4> QED
        BY <4>2, <4>3
    <3> QED
      BY <1>2, <3>1 DEF HeadsListed
  <2>7. HeadsUsed'
    <3>1. \A p \in seen + 1 .. lastAvail : p \in 1 .. availIdx
      BY Bounds
    <3> QED
      BY <1>2, <1>9, <1>10, <3>1 DEF HeadsUsed
  <2>8. Outcomes'
    <3>1. \A p \in 1 .. lastAvail : p \in 1 .. availIdx
      BY Bounds
    <3> QED
      BY <1>2, <1>9, <1>10, <3>1 DEF Outcomes, Outcome, Processed
  <2> QED
    BY <2>2, <2>3, <2>4, <2>6, <2>7, <2>8
<1> QED
  BY <1>9, <1>11, <1>12, <1>13, <1>14, <1>15

LEMMA ReclaimStep ==
  ASSUME ChainInv, Reclaim
  PROVE  ChainInv'
<1> USE DEF ChainInv
<1> PICK p0 : p0 = seen + 1
  OBVIOUS
<1> DEFINE mine == {p \in Packets : /\ chain[p] # <<>>
                                    /\ chain[p][1] = usedRing[seen % Num]}
<1>1. /\ seen # usedIdx /\ seen' = seen + 1
      /\ chain' = [p \in Packets |-> IF p \in mine THEN <<>> ELSE chain[p]]
      /\ broken' = (mine = {})
      /\ desc' = desc /\ availRing' = availRing /\ availIdx' = availIdx
      /\ usedRing' = usedRing /\ usedIdx' = usedIdx /\ sizes' = sizes
      /\ lastAvail' = lastAvail /\ delivered' = delivered
  BY DEF Reclaim
<1> HIDE DEF mine
<1>2. p0 \in 1 .. lastAvail /\ seen + 1 <= usedIdx
  BY <1>1, Bounds
<1>3. TypeOK'
  <2>1. \A p \in Packets : Range(chain'[p]) \subseteq Ids
    BY <1>1 DEF TypeOK, Range
  <2>2. {seen, usedIdx, lastAvail, availIdx}' \subseteq 0 .. MaxPackets
    BY <1>1, <1>2, Bounds DEF TypeOK
  <2>3. broken' \in BOOLEAN
    BY <1>1
  <2> QED
    BY <1>1, <1>2, <2>1, <2>2, <2>3 DEF TypeOK
<1>4. ByPacket(chain)' /\ ByPacket(sizes)' /\ ByPacket(delivered)' /\ SizesOK' /\ NotYet'
  BY <1>1 DEF ByPacket, SizesOK, NotYet, Packets
<1>5. FirstBuffersFit' => FirstBuffersFit
  BY <1>1 DEF FirstBuffersFit
<1>6. Clean' <=> Clean /\ delivered[p0] # Nothing
  <2>1. 1 .. seen + 1 = (1 .. seen) \cup {p0}
    BY Bounds
  <2> QED
    BY <1>1, <2>1 DEF Clean
<1>7. FirstBuffersFit' => Clean'
  <2> SUFFICES ASSUME FirstBuffersFit PROVE delivered[p0] # Nothing
    BY <1>5, <1>6
  <2>1. delivered[p0] = Outcome(p0)
    BY <1>2 DEF Orderly, Outcomes, Processed
  <2>2. p0 \in 1 .. availIdx
    BY <1>2, Bounds
  <2>3. delivered[p0].of = {p0}
    BY <2>1, <2>2 DEF Outcome, FirstBuffersFit
  <2> QED
    BY <2>3 DEF Nothing
<1>8. ASSUME Clean' PROVE Orderly'
  <2> Orderly
    BY <1>6, <1>8
  <2> USE DEF Orderly
  <2>1. /\ p0 \in Live /\ p0 \in Packets
        /\ Live = Live' \cup {p0} /\ p0 \notin Live'
    BY <1>1, <1>2, Bounds DEF Live, Packets
  <2>2. usedRing[seen % Num] = chain[p0][1]
    <3>1. p0 \in seen + 1 .. lastAvail /\ p0 - 1 = seen
      BY <1>2, Bounds
    <3> QED
      BY <1>6, <1>8, <3>1 DEF HeadsUsed
  <2>3. mine = {p0}
    <3>1. p0 \in mine
      BY <2>1, <2>2 DEF mine, LiveChains
    <3>2. ASSUME NEW p \in mine PROVE p = p0
      <4>1. p \in Live /\ chain[p][1] = chain[p0][1]
        BY <2>2 DEF mine, LiveChains
      <4>2. chain[p][1] \in Range(chain[p]) /\ chain[p0][1] \in Range(chain[p0])
        BY <2>1, <4>1, LivePacket
      <4> QED
        BY <2>1, <4>1, <4>2 DEF ChainsApart
    <3> QED
      BY <3>1, <3>2
  <2>4. chain'[p0] = <<>> /\ \A p \in Packets : p # p0 => chain'[p] = chain[p]
    BY <1>1, <2>1, <2>3
  <2>5. \A p \in Live' : p \in Live /\ p \in Packets /\ p # p0
    BY <2>1, Bounds
  <2>6. LiveChains'
    BY <1>1, <2>1, <2>3, <2>4 DEF LiveChains
  <2>7. ChainsApart'
    BY <2>4, <2>5 DEF ChainsApart
  <2>8. DescsInPlace'
    BY <1>1, <2>4, <2>5 DEF DescsInPlace, InDescs
  <2>9. HeadsListed'
    <3>1. \A p \in lastAvail + 1 .. availIdx : p \in Packets /\ p # p0
      BY <1>2, Bounds DEF Packets
    <3> QED
      BY <1>1, <2>4, <3>1 DEF HeadsListed
  <2>10. HeadsUsed'
    <3>1. \A p \in (seen + 1) + 1 .. lastAvail :
            p \in Packets /\ p # p0 /\ p \in seen + 1 .. lastAvail
      BY <1>2, Bounds DEF Packets
    <3> QED
      BY <1>1, <2>4, <3>1 DEF HeadsUsed
  <2>11. Outcomes'
    BY <1>1 DEF Outcomes, Outcome, Processed
  <2> QED
    BY <2>6, <2>7, <2>8, <2>9, <2>10, <2>11
<1> QED
  BY <1>3, <1>4, <1>7, <1>8

LEMMA ProcessStep ==
  ASSUME ChainInv, ProcessDesc
  PROVE  ChainInv'
<1> USE DEF ChainInv
<1> PICK p0 : p0 = lastAvail + 1
  OBVIOUS
<1> PICK slot : slot = lastAvail % Num
  OBVIOUS
<1> PICK head : head = availRing[slot]
  OBVIOUS
<1> PICK got : got = Copy(head)
  OBVIOUS
<1>1. /\ lastAvail # availIdx /\ lastAvail' = lastAvail + 1
      /\ desc' = desc /\ availRing' = availRing /\ availIdx' = availIdx
      /\ usedIdx' = usedIdx /\ chain' = chain /\ sizes' = sizes
      /\ seen' = seen /\ broken' = broken
      /\ IF got.len = 0
           THEN usedRing' = usedRing /\ delivered' = delivered
           ELSE /\ usedRing' = [usedRing EXCEPT ![slot] = head]
                /\ delivered' = [delivered EXCEPT ![p0] =
                                   [len |-> got.len - Hdr, of |-> got.of]]
  BY DEF ProcessDesc, UsedEntry, driver
<1>2. /\ p0 \in 1 .. availIdx /\ p0 \in Packets /\ p0 \in seen + 1 .. availIdx
      /\ slot \in Ids /\ head \in Ids
  <2>1. slot \in Ids
    BY Bounds, SlotIsId
  <2> QED
    BY <1>1, <2>1, Bounds DEF TypeOK, Packets
<1>3. /\ \A p \in Packets : p # p0 => delivered'[p] = delivered[p]
      /\ got.len # 0 => delivered'[p0] = [len |-> got.len - Hdr, of |-> got.of]
      /\ got.len = 0 => delivered'[p0] = delivered[p0]
      /\ ByPacket(delivered)'
  <2>1. CASE got.len = 0
    BY <1>1, <2>1 DEF ByPacket, Packets
  <2>2. CASE got.len # 0
    <3>1. delivered' = [delivered EXCEPT ![p0] = [len |-> got.len - Hdr, of |-> got.of]]
      BY <1>1, <2>2
    <3> QED
      BY <1>2, <2>2, <3>1 DEF ByPacket, Packets
  <2> QED
    BY <2>1, <2>2
<1>4. TypeOK'
  <2>1. usedRing' \in [Ids -> Ids]
    BY <1>1, <1>2 DEF TypeOK
  <2>2. {seen, usedIdx, lastAvail, availIdx}' \subseteq 0 .. MaxPackets
    BY <1>1, <1>2, Bounds DEF TypeOK
  <2>3. usedIdx' <= lastAvail' /\ lastAvail' <= availIdx'
    BY <1>1, Bounds
  <2> QED
    BY <1>1, <2>1, <2>2, <2>3 DEF TypeOK
<1>5. ByPacket(chain)' /\ ByPacket(sizes)' /\ SizesOK'
  BY <1>1 DEF ByPacket, SizesOK, Packets
<1>9. NotYet'
  <2>1. \A p \in (lastAvail + 1) + 1 .. MaxPackets :
          p \in lastAvail + 1 .. MaxPackets /\ p \in Packets /\ p # p0
    BY Bounds DEF Packets
  <2> QED
    BY <1>1, <1>3, <2>1 DEF NotYet
<1>10. delivered[p0] = Nothing
  BY <1>2, Bounds DEF NotYet
<1>6. FirstBuffersFit' <=> FirstBuffersFit
  BY <1>1 DEF FirstBuffersFit
<1>7. Clean' <=> Clean
  <2>1. \A p \in 1 .. seen : p \in Packets /\ p # p0
    BY Bounds DEF Packets
  <2> QED
    BY <1>1, <1>3, <2>1 DEF Clean
<1>8. ASSUME Clean PROVE Orderly'
  <2> Orderly
    BY <1>8
  <2> USE DEF Orderly
  <2>1. LiveChains' /\ ChainsApart' /\ DescsInPlace'
    BY <1>1 DEF LiveChains, ChainsApart, DescsInPlace, InDescs, Live, Packets
  <2>2. p0 \in Live
    BY <1>2 DEF Live
  <2>3. head = chain[p0][1]
    <3>1. p0 \in lastAvail + 1 .. availIdx /\ p0 - 1 = lastAvail
      BY <1>2, Bounds
    <3> QED
      BY <3>1 DEF HeadsListed
  <2>4. HeadsListed'
    <3>1. \A p \in (lastAvail + 1) + 1 .. availIdx : p \in lastAvail + 1 .. availIdx
      BY Bounds
    <3> QED
      BY <1>1, <3>1 DEF HeadsListed
  <2>5. HeadsUsed'
    <3>1. ASSUME NEW p \in seen + 1 .. p0, delivered'[p] # Nothing
          PROVE  usedRing'[(p - 1) % Num] = chain[p][1]
      <4>1. CASE p = p0
        <5>1. got.len # 0
          BY <1>3, <1>10, <3>1, <4>1
        <5>2. usedRing'[slot] = head
          BY <1>1, <1>2, <5>1 DEF TypeOK
        <5>3. p - 1 = lastAvail
          BY <4>1, Bounds
        <5> QED
          BY <2>3, <4>1, <5>2, <5>3
      <4>2. CASE p # p0
        <5>1. /\ p \in seen + 1 .. lastAvail /\ p \in Packets
              /\ p - 1 \in Nat /\ lastAvail \in Nat
              /\ p - 1 < lastAvail /\ lastAvail < (p - 1) + Num
          BY <1>2, <4>2, Bounds, RoomInRing DEF Packets
        <5>2. (p - 1) % Num \in Ids /\ (p - 1) % Num # slot
          BY <5>1, SlotsDiffer, SlotIsId
        <5>3. usedRing'[(p - 1) % Num] = usedRing[(p - 1) % Num]
          BY <1>1, <1>2, <5>2 DEF TypeOK
        <5> QED
          BY <1>3, <3>1, <4>2, <5>1, <5>3 DEF HeadsUsed
      <4> QED
        BY <4>1, <4>2
    <3> QED
      BY <1>1, <3>1 DEF HeadsUsed
  <2>6. Outcomes'
    <3>1. delivered'[p0] = Outcome(p0)
      <4>1. CutCopied(p0, sizes[p0], chain[p0])
        <5>1. sizes[p0] \in Chains /\ InDescs(p0, sizes[p0], chain[p0])
          BY <2>2, LivePacket
        <5> QED
          BY <5>1, CopyOfPacket, Zenon
      <4>2. CASE sizes[p0][1] < Cap
        <5>1. got.len # 0 /\ got.len = Prefix(sizes[p0]) /\ got.of = {p0}
          BY <2>3, <4>1, <4>2 DEF CutCopied
        <5> QED
          BY <1>3, <4>2, <5>1 DEF Outcome
      <4>3. CASE ~ (sizes[p0][1] < Cap)
        <5>1. got.len = 0
          BY <2>3, <4>1, <4>3 DEF CutCopied
        <5> QED
          BY <1>3, <1>10, <4>3, <5>1 DEF Outcome
      <4> QED
        BY <4>2, <4>3
    <3>2. ASSUME NEW p \in 1 .. p0, p # p0
          PROVE  p \in Processed /\ p \in Packets
      BY <3>2, Bounds DEF Packets, Processed
    <3>3. \A p \in 1 .. p0 : delivered'[p] = Outcome(p)
      BY <1>3, <3>1, <3>2 DEF Outcomes
    <3> QED
      BY <1>1, <3>3 DEF Outcomes, Outcome, Processed
  <2> QED
    BY <2>1, <2>4, <2>5, <2>6
<1> QED
  BY <1>3, <1>4, <1>5, <1>6, <1>7, <1>8, <1>9

LEMMA PublishStep ==
  ASSUME ChainInv, PublishUsed
  PROVE  ChainInv'
<1> USE DEF ChainInv
<1>1. /\ usedIdx' = lastAvail /\ desc' = desc /\ availRing' = availRing
      /\ availIdx' = availIdx /\ usedRing' = usedRing /\ chain' = chain
      /\ sizes' = sizes /\ seen' = seen /\ broken' = broken
      /\ lastAvail' = lastAvail /\ delivered' = delivered
  BY DEF PublishUsed, driver
<1>2. TypeOK'
  BY <1>1, Bounds DEF TypeOK
<1>3. /\ ByPacket(chain)' /\ ByPacket(sizes)' /\ ByPacket(delivered)'
      /\ SizesOK' /\ NotYet'
  BY <1>1 DEF ByPacket, SizesOK, NotYet, Packets
<1>4. (Clean' <=> Clean) /\ (FirstBuffersFit' <=> FirstBuffersFit)
  BY <1>1 DEF Clean, FirstBuffersFit
<1>5. Orderly => Orderly'
  BY <1>1 DEF Orderly, LiveChains, ChainsApart, DescsInPlace, InDescs, HeadsListed,
              HeadsUsed, Outcomes, Outcome, Live, Packets, Processed
<1> QED
  BY <1>2, <1>3, <1>4, <1>5

LEMMA StutterStep ==
  ASSUME ChainInv, UNCHANGED vars
  PROVE  ChainInv'
<1> USE DEF ChainInv
<1>1. /\ usedIdx' = usedIdx /\ desc' = desc /\ availRing' = availRing
      /\ availIdx' = availIdx /\ usedRing' = usedRing /\ chain' = chain
      /\ sizes' = sizes /\ seen' = seen /\ broken' = broken
      /\ lastAvail' = lastAvail /\ delivered' = delivered
  BY DEF vars, driver
<1>2. /\ TypeOK' /\ ByPacket(chain)' /\ ByPacket(sizes)' /\ ByPacket(delivered)'
      /\ SizesOK' /\ NotYet'
  BY <1>1 DEF TypeOK, ByPacket, SizesOK, NotYet, Packets
<1>3. (Clean' <=> Clean) /\ (FirstBuffersFit' <=> FirstBuffersFit)
  BY <1>1 DEF Clean, FirstBuffersFit
<1>4. Orderly => Orderly'
  BY <1>1 DEF Orderly, LiveChains, ChainsApart, DescsInPlace, InDescs, HeadsListed,
              HeadsUsed, Outcomes, Outcome, Live, Packets, Processed
<1> QED
  BY <1>2, <1>3, <1>4

LEMMA InitOrderly == Init => ChainInv
<1> SUFFICES ASSUME Init PROVE ChainInv
  OBVIOUS
<1> USE DEF Init
<1>1. Num \in Nat /\ Num > 0 /\ MaxPackets \in Nat
  BY DescChainAssumption
<1>2. TypeOK
  <2>1. desc \in [Ids -> [len : Nat, next : Ids \cup {NONE}, of : 0 .. MaxPackets]]
    BY <1>1
  <2>2. 0 \in Ids
    BY <1>1 DEF Ids
  <2>3. \A p \in Packets : Range(chain[p]) \subseteq Ids
    BY DEF Range
  <2>4. availRing \in [Ids -> Ids] /\ usedRing \in [Ids -> Ids]
    BY <2>2
  <2>5. {seen, usedIdx, lastAvail, availIdx} \subseteq 0 .. MaxPackets
    BY <1>1
  <2>6. seen <= usedIdx /\ usedIdx <= lastAvail /\ lastAvail <= availIdx
    BY <1>1
  <2>7. broken \in BOOLEAN
    OBVIOUS
  <2> HIDE DEF Init
  <2> QED
    BY <2>1, <2>3, <2>4, <2>5, <2>6, <2>7 DEF TypeOK
<1>3. ByPacket(chain) /\ ByPacket(sizes) /\ ByPacket(delivered)
  BY DEF ByPacket
<1>4. SizesOK /\ NotYet
  BY <1>1 DEF SizesOK, NotYet, Packets
<1>5. Clean
  BY DEF Clean
<1>6. Orderly
  <2>1. Live = {}
    BY DEF Live
  <2>2. LiveChains
    BY <2>1 DEF LiveChains
  <2> QED
    BY <2>1, <2>2 DEF Orderly, ChainsApart, DescsInPlace, HeadsListed, HeadsUsed,
                      Outcomes, Processed
<1> QED
  BY <1>2, <1>3, <1>4, <1>5, <1>6 DEF ChainInv

-----------------------------------------------------------------------------
(* Whatever is put, the driver's packets are in their descriptors and listed in
   order until it looks at a used entry that was not written; the used entries
   name them, and each was delivered up to its cut. *)
THEOREM ChainsInOrder == Spec => []ChainInv
<1>1. ChainInv /\ [Next]_vars => ChainInv'
  <2> SUFFICES ASSUME ChainInv, [Next]_vars PROVE ChainInv'
    OBVIOUS
  <2>1. CASE \E c \in Chains : Put(c)
    BY <2>1, PutStep
  <2>2. CASE Reclaim
    BY <2>2, ReclaimStep
  <2>3. CASE ProcessDesc
    BY <2>3, ProcessStep
  <2>4. CASE PublishUsed
    BY <2>4, PublishStep
  <2>5. CASE UNCHANGED vars
    BY <2>5, StutterStep
  <2> QED
    BY <2>1, <2>2, <2>3, <2>4, <2>5 DEF Next
<1> QED
  BY <1>1, InitOrderly, PTL DEF Spec

(* Every variable holds a value of its kind, and the indices stay in order. *)
THEOREM TypeCorrect == Spec => []TypeOK
<1>1. ChainInv => TypeOK
  BY DEF ChainInv
<1> QED
  BY <1>1, ChainsInOrder, PTL

(* avail_handler gets the longest prefix of a packet's buffers below
   ETH_PACKET_SIZE and no byte of another packet, for chains of any length. *)
THEOREM DeliversPrefix == Spec => []PrefixDelivered
<1>1. ChainInv => PrefixDelivered
  <2> SUFFICES ASSUME ChainInv, FirstBuffersFit, NEW p \in Processed
               PROVE  delivered[p].len = Prefix(sizes[p]) - Hdr /\ delivered[p].of = {p}
    BY DEF PrefixDelivered
  <2> USE DEF ChainInv
  <2>1. delivered[p] = Outcome(p)
    BY DEF Orderly, Outcomes
  <2>2. p \in 1 .. availIdx
    BY Bounds DEF Processed
  <2>3. sizes[p][1] < Cap
    BY <2>2 DEF FirstBuffersFit
  <2> QED
    BY <2>1, <2>3 DEF Outcome
<1> QED
  BY <1>1, ChainsInOrder, PTL

(* The used entries published name the packets taken, and the driver finds its
   own, for as long as every first buffer fits. *)
THEOREM UsedEntriesNamePackets == Spec => []UsedNamesPacket
<1>1. ChainInv => UsedNamesPacket
  <2> SUFFICES ASSUME ChainInv, FirstBuffersFit
               PROVE  /\ ~ broken
                      /\ \A p \in seen + 1 .. usedIdx :
                           /\ chain[p] # <<>>
                           /\ usedRing[(p - 1) % Num] = chain[p][1]
    BY DEF UsedNamesPacket
  <2> USE DEF ChainInv
  <2> Orderly
    OBVIOUS
  <2> USE DEF Orderly
  <2>1. ASSUME NEW p \in seen + 1 .. usedIdx
        PROVE  chain[p] # <<>> /\ usedRing[(p - 1) % Num] = chain[p][1]
    <3>1. /\ p \in seen + 1 .. lastAvail /\ p \in Processed /\ p \in 1 .. availIdx
          /\ p \in Live /\ p \in Packets
      BY Bounds DEF Processed, Live, Packets
    <3>2. delivered[p] = Outcome(p) /\ sizes[p][1] < Cap
      BY <3>1 DEF Outcomes, FirstBuffersFit
    <3>3. delivered[p].of = {p}
      BY <3>2 DEF Outcome
    <3>4. delivered[p] # Nothing
      BY <3>3 DEF Nothing
    <3> QED
      BY <3>1, <3>4 DEF HeadsUsed, LiveChains
  <2> QED
    BY <2>1 DEF LiveChains
<1> QED
  BY <1>1, ChainsInOrder, PTL

(* No packet gets bytes of another one before the driver has looked at a used
   entry that _process_desc did not write, whatever is put. *)
THEOREM MixedOnlyAfter == Spec => []MixedOnlyAfterWrongEntry
<1>1. ChainInv => MixedOnlyAfterWrongEntry
  <2> SUFFICES ASSUME ChainInv, NEW p \in Processed,
                      ~ \E q \in 1 .. seen : delivered[q] = Nothing
               PROVE  delivered[p].of \subseteq {p}
    BY DEF MixedOnlyAfterWrongEntry
  <2>1. Clean
    BY DEF Clean
  <2>2. delivered[p] = Outcome(p)
    BY <2>1 DEF ChainInv, Orderly, Outcomes
  <2> QED
    BY <2>2 DEF Outcome, Nothing
<1> QED
  BY <1>1, ChainsInOrder, PTL
===============================================================================
