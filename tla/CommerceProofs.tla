--------------------------- MODULE CommerceProofs ----------------------------
(***************************************************************************)
(* What Metering and Billing keep for any number of requests, months,      *)
(* provider events, sessions and handlers, and any plans.  Both use values  *)
(* defined by recursion (the sum of the counters, the subscription as the   *)
(* provider's events make it): Recursive, RecursiveAgree and LeastOf say    *)
(* of such values what an induction would.                                  *)
(***************************************************************************)
EXTENDS Commerce, SequenceTheorems, FiniteSetTheorems, WellFoundedInduction, TLAPS

(* A set of natural numbers that is not empty has a least element.          *)
LEMMA LeastOf ==
    ASSUME NEW T \in SUBSET Nat, T # {}
    PROVE  \E m \in T : \A n \in T : m <= n
<1> DEFINE R == OpToRel(<, Nat)
<1>1. IsWellFoundedOn(R, Nat)
  BY NatLessThanWellFounded
<1>2. \A x, y \in Nat : <<x, y>> \in R <=> x < y
  BY DEF OpToRel
<1> HIDE DEF R
<1>3. PICK m \in T : \A n \in T : ~ (<<n, m>> \in R)
  BY <1>1, WFMin
<1>4. \A n \in T : ~ (n < m)
  BY <1>2, <1>3, Zenon
<1> QED BY <1>3, <1>4

(* g repeats the steps F from the value a, on 0..N.                         *)
Iterates(N, a, F, g) == g = [n \in 0..N |-> IF n = 0 THEN a ELSE F[n][g[n - 1]]]

(* Steps that stay in a set can be repeated any number of times.            *)
LEMMA Recursive ==
    ASSUME NEW N \in Nat, NEW S, NEW a \in S, NEW F,
           \A n \in 1..N : \A s \in S : F[n][s] \in S
    PROVE  \E g : g \in [0..N -> S] /\ Iterates(N, a, F, g)
<1> DEFINE Upto(m) == {g \in [0..m -> S] : Iterates(m, a, F, g)}
           T == {m \in 0..N : Upto(m) = {}}
<1>1. Upto(0) # {}
  <2>1. [k \in 0..0 |-> a] \in Upto(0)
    BY DEF Iterates
  <2> QED BY <2>1
<1>2. ASSUME NEW m \in 1..N, Upto(m - 1) # {} PROVE Upto(m) # {}
  <2>1. PICK g : g \in Upto(m - 1)
    BY <1>2
  <2>2. g \in [0..(m - 1) -> S]
        /\ g = [n \in 0..(m - 1) |-> IF n = 0 THEN a ELSE F[n][g[n - 1]]]
    BY <2>1 DEF Iterates
  <2> DEFINE h == [k \in 0..m |-> IF k = m THEN F[m][g[m - 1]] ELSE g[k]]
  <2>3. g[m - 1] \in S /\ F[m][g[m - 1]] \in S
    BY <2>2
  <2>4. h \in [0..m -> S]
    BY <2>2, <2>3
  <2>5. \A n \in 0..m : h[n] = IF n = 0 THEN a ELSE F[n][h[n - 1]]
    <3>1. m # 0 /\ h[m] = F[m][g[m - 1]] /\ h[m - 1] = g[m - 1]
      OBVIOUS
    <3>2. ASSUME NEW n \in 0..(m - 1) PROVE h[n] = IF n = 0 THEN a ELSE F[n][h[n - 1]]
      <4>1. g[n] = IF n = 0 THEN a ELSE F[n][g[n - 1]]
        BY <2>2
      <4>2. h[n] = g[n] /\ (n # 0 => h[n - 1] = g[n - 1])
        OBVIOUS
      <4> QED BY <4>1, <4>2
    <3>3. \A n \in 0..m : n = m \/ n \in 0..(m - 1)
      OBVIOUS
    <3> QED BY <3>1, <3>2, <3>3
  <2>6. Iterates(m, a, F, h)
    BY <2>5 DEF Iterates
  <2>7. h \in Upto(m)
    BY <2>4, <2>6
  <2> QED BY <2>7
<1>3. T = {}
  <2> SUFFICES ASSUME T # {} PROVE FALSE
    OBVIOUS
  <2>1. T \in SUBSET Nat
    OBVIOUS
  <2> HIDE DEF T
  <2>2. PICK m \in T : \A n \in T : m <= n
    BY <2>1, LeastOf
  <2> USE DEF T
  <2>3. m \in 0..N /\ Upto(m) = {}
    BY <2>2
  <2> HIDE DEF Upto
  <2>4. m # 0
    BY <2>3, <1>1
  <2>5. m - 1 \in 0..N /\ m - 1 \notin T
    BY <2>2, <2>3, <2>4
  <2>6. m \in 1..N /\ Upto(m - 1) # {}
    BY <2>3, <2>4, <2>5
  <2> QED BY <2>3, <2>6, <1>2
<1>4. Upto(N) # {}
  <2> HIDE DEF Upto
  <2> QED BY <1>3
<1> QED BY <1>4

(* Two functions that agree at 0, and at each number when they agree at the *)
(* one before, agree.                                                       *)
InStep(N, g, h) == g[0] = h[0] /\ \A n \in 1..N : g[n - 1] = h[n - 1] => g[n] = h[n]
(* Otherwise they differ at a least number, which is neither 0 nor above a  *)
(* number at which they differ.                                             *)
LEMMA RecursiveAgree ==
    ASSUME NEW N \in Nat, NEW g, NEW h, InStep(N, g, h)
    PROVE  \A n \in 0..N : g[n] = h[n]
<1> DEFINE T == {n \in 0..N : g[n] # h[n]}
<1> SUFFICES ASSUME T # {} PROVE FALSE
  OBVIOUS
<1>1. T \in SUBSET Nat
  OBVIOUS
<1> HIDE DEF T
<1>2. PICK m \in T : \A n \in T : m <= n
  BY <1>1, LeastOf
<1> USE DEF T, InStep
<1>3. m \in 1..N /\ m - 1 \in 0..N /\ m - 1 \notin T
  BY <1>2
<1> QED BY <1>2, <1>3

-----------------------------------------------------------------------------
(* Sums over the months.                                                    *)
IsSum(f, g) == g = [p \in M!Month |-> f[p] + IF p = 0 THEN 0 ELSE g[p - 1]]

(* SumOver is the last of the partial sums, which exist.                    *)
LEMMA SumOf ==
    ASSUME NEW f \in [M!Month -> Nat]
    PROVE  \E g \in [M!Month -> Nat] :
             /\ M!SumOver(f) = g[LastMonth]
             /\ g[0] = f[0]
             /\ \A p \in 1..LastMonth : g[p] = f[p] + g[p - 1]
<1>1. LastMonth \in Nat
  BY CommerceAssumption DEF CommerceAssumption, M!MeteringAssumption
<1> DEFINE F == [p \in 1..LastMonth |-> [s \in Nat |-> f[p] + s]]
           c == CHOOSE g : IsSum(f, g)
<1>2. M!Month = 0..LastMonth /\ 0 \in M!Month /\ LastMonth \in M!Month
  BY <1>1 DEF M!Month
<1>3. f[0] \in Nat /\ \A p \in 1..LastMonth : \A s \in Nat : F[p][s] = f[p] + s /\ F[p][s] \in Nat
  BY <1>1, <1>2
<1> HIDE DEF F
<1>4. PICK g : g \in [0..LastMonth -> Nat] /\ Iterates(LastMonth, f[0], F, g)
  <2>1. \A p \in 1..LastMonth : \A s \in Nat : F[p][s] \in Nat
    BY <1>3
  <2>2. f[0] \in Nat
    BY <1>3
  <2> QED BY <1>1, <2>1, <2>2, Recursive
<1>5. g[0] = f[0] /\ \A p \in 1..LastMonth : g[p] = f[p] + g[p - 1]
  <2>1. g[0] = f[0]
    BY <1>1, <1>4 DEF Iterates
  <2>2. ASSUME NEW p \in 1..LastMonth PROVE g[p] = f[p] + g[p - 1]
    <3>1. p \in 0..LastMonth /\ p # 0 /\ p - 1 \in 0..LastMonth
      BY <1>1
    <3>2. g[p] = F[p][g[p - 1]]
      BY <1>4, <3>1 DEF Iterates
    <3>3. g[p - 1] \in Nat
      BY <1>4, <3>1
    <3> QED BY <1>3, <3>2, <3>3
  <2> QED BY <2>1, <2>2
<1>6. IsSum(f, g)
  <2>1. \A p \in 0..LastMonth : g[p] = f[p] + IF p = 0 THEN 0 ELSE g[p - 1]
    BY <1>1, <1>3, <1>5
  <2>2. g = [p \in 0..LastMonth |-> f[p] + IF p = 0 THEN 0 ELSE g[p - 1]]
    BY <2>1, <1>4
  <2> QED BY <1>2, <2>2, Zenon DEF IsSum
<1>7. IsSum(f, c)
  BY <1>6, Zenon
<1>8. M!SumOver(f) = c[LastMonth]
  BY DEF M!SumOver, IsSum
<1> HIDE DEF c
<1>9. c[0] = f[0] /\ \A p \in 1..LastMonth : c[p] = f[p] + c[p - 1]
  <2>1. c = [p \in 0..LastMonth |-> f[p] + IF p = 0 THEN 0 ELSE c[p - 1]]
    BY <1>2, <1>7, Zenon DEF IsSum
  <2> QED BY <1>1, <1>3, <2>1
<1>10. c[0] = g[0] /\ \A p \in 1..LastMonth : c[p - 1] = g[p - 1] => c[p] = g[p]
  BY <1>5, <1>9
<1>11. \A p \in 0..LastMonth : c[p] = g[p]
  <2>1. InStep(LastMonth, c, g)
    BY <1>10 DEF InStep
  <2> QED BY <1>1, <2>1, RecursiveAgree
<1>12. M!SumOver(f) = g[LastMonth] /\ g \in [M!Month -> Nat]
  BY <1>1, <1>2, <1>4, <1>8, <1>11
<1> QED BY <1>5, <1>12

(* A counter raised by one raises the sum by one.                           *)
LEMMA SumGrows ==
    ASSUME NEW f \in [M!Month -> Nat], NEW m \in M!Month
    PROVE  M!SumOver([f EXCEPT ![m] = @ + 1]) = M!SumOver(f) + 1
<1>0. LastMonth \in Nat
  BY CommerceAssumption DEF CommerceAssumption, M!MeteringAssumption
<1>1. M!Month = 0..LastMonth /\ m \in 0..LastMonth
  BY DEF M!Month
<1> DEFINE e == [f EXCEPT ![m] = @ + 1]
<1>2. e \in [M!Month -> Nat]
  OBVIOUS
<1>3. \A p \in 0..LastMonth : e[p] = f[p] + (IF p = m THEN 1 ELSE 0) /\ f[p] \in Nat
  BY <1>0, <1>1
<1> HIDE DEF e
<1>4. PICK g \in [M!Month -> Nat] :
        /\ M!SumOver(f) = g[LastMonth] /\ g[0] = f[0]
        /\ \A p \in 1..LastMonth : g[p] = f[p] + g[p - 1]
  BY SumOf
<1>5. PICK h \in [M!Month -> Nat] :
        /\ M!SumOver(e) = h[LastMonth] /\ h[0] = e[0]
        /\ \A p \in 1..LastMonth : h[p] = e[p] + h[p - 1]
  BY <1>2, SumOf
<1> DEFINE k == [p \in 0..LastMonth |-> g[p] + (IF p >= m THEN 1 ELSE 0)]
<1>6. k[0] = h[0]
  BY <1>0, <1>1, <1>3, <1>4, <1>5
<1>7. \A p \in 1..LastMonth : k[p - 1] = h[p - 1] => k[p] = h[p]
  <2> SUFFICES ASSUME NEW p \in 1..LastMonth, k[p - 1] = h[p - 1] PROVE k[p] = h[p]
    OBVIOUS
  <2>1. p \in 0..LastMonth /\ p - 1 \in 0..LastMonth
    BY <1>0, <1>1
  <2>2. g[p] \in Nat /\ g[p - 1] \in Nat /\ h[p - 1] \in Nat
    BY <2>1, <1>1
  <2>3. h[p] = e[p] + h[p - 1] /\ g[p] = f[p] + g[p - 1]
    BY <1>4, <1>5
  <2>4. /\ k[p] = g[p] + (IF p >= m THEN 1 ELSE 0)
        /\ k[p - 1] = g[p - 1] + (IF p - 1 >= m THEN 1 ELSE 0)
    BY <2>1
  <2>5. e[p] = f[p] + (IF p = m THEN 1 ELSE 0) /\ f[p] \in Nat /\ m \in Nat /\ p \in Nat
    BY <1>0, <1>1, <1>3, <2>1
  <2> HIDE DEF k
  <2> QED BY <2>2, <2>3, <2>4, <2>5
<1> HIDE DEF k
<1>8. \A p \in 0..LastMonth : k[p] = h[p]
  <2>1. InStep(LastMonth, k, h)
    BY <1>6, <1>7 DEF InStep
  <2> QED BY <1>0, <2>1, RecursiveAgree
<1>9. k[LastMonth] = g[LastMonth] + 1
  BY <1>0, <1>1 DEF k
<1> QED BY <1>0, <1>1, <1>4, <1>5, <1>8, <1>9 DEF e

(* No counter is above the sum.                                             *)
LEMMA SumBounds ==
    ASSUME NEW f \in [M!Month -> Nat], NEW m \in M!Month
    PROVE  f[m] <= M!SumOver(f)
<1>0. LastMonth \in Nat
  BY CommerceAssumption DEF CommerceAssumption, M!MeteringAssumption
<1>1. M!Month = 0..LastMonth /\ m \in 0..LastMonth
  BY DEF M!Month
<1>2. PICK g \in [M!Month -> Nat] :
        /\ M!SumOver(f) = g[LastMonth] /\ g[0] = f[0]
        /\ \A p \in 1..LastMonth : g[p] = f[p] + g[p - 1]
  BY SumOf
<1> DEFINE T == {p \in 0..LastMonth : m <= p /\ ~ (f[m] <= g[p])}
<1>3. T \in SUBSET Nat
  BY <1>0
<1>4. T = {}
  <2> SUFFICES ASSUME T # {} PROVE FALSE
    OBVIOUS
  <2> HIDE DEF T
  <2>1. PICK p \in T : \A n \in T : p <= n
    BY <1>3, LeastOf
  <2>2. p \in 0..LastMonth /\ m <= p /\ ~ (f[m] <= g[p]) /\ p - 1 \notin T
    BY <2>1 DEF T
  <2>3. f[m] \in Nat /\ f[p] \in Nat /\ g[p] \in Nat /\ f[0] \in Nat
    BY <1>0, <1>1, <2>2
  <2>4. p # 0
    BY <1>0, <1>1, <1>2, <2>2, <2>3
  <2>5. p - 1 \in 0..LastMonth /\ g[p] = f[p] + g[p - 1]
    BY <1>0, <1>2, <2>2, <2>4
  <2>6. g[p - 1] \in Nat
    BY <1>1, <2>5
  <2>7. p # m
    BY <2>2, <2>3, <2>5, <2>6
  <2>8. m <= p - 1
    BY <1>0, <1>1, <2>2, <2>7
  <2>9. f[m] <= g[p - 1]
    BY <2>2, <2>5, <2>8 DEF T
  <2> QED BY <2>2, <2>3, <2>5, <2>6, <2>9
<1>5. f[m] <= g[LastMonth]
  BY <1>0, <1>1, <1>4
<1> QED BY <1>2, <1>5

(* Counters that are all 0 add up to 0.                                     *)
LEMMA SumOfNone == M!SumOver([p \in M!Month |-> 0]) = 0
<1>0. LastMonth \in Nat
  BY CommerceAssumption DEF CommerceAssumption, M!MeteringAssumption
<1>1. M!Month = 0..LastMonth
  BY DEF M!Month
<1> DEFINE f == [p \in M!Month |-> 0]
           t == [p \in 0..LastMonth |-> 0]
<1>2. f \in [M!Month -> Nat] /\ \A p \in 0..LastMonth : f[p] = 0 /\ t[p] = 0
  BY <1>0, <1>1
<1>3. \A p \in 1..LastMonth : t[p - 1] = 0
  BY <1>0, <1>1
<1> HIDE DEF f, t
<1>4. PICK g \in [M!Month -> Nat] :
        /\ M!SumOver(f) = g[LastMonth] /\ g[0] = f[0]
        /\ \A p \in 1..LastMonth : g[p] = f[p] + g[p - 1]
  BY <1>2, SumOf
<1>5. g[0] = t[0]
  BY <1>0, <1>2, <1>4
<1>6. \A p \in 1..LastMonth : g[p - 1] = t[p - 1] => g[p] = t[p]
  BY <1>0, <1>2, <1>3, <1>4
<1>7. \A p \in 0..LastMonth : g[p] = t[p]
  <2>1. InStep(LastMonth, g, t)
    BY <1>5, <1>6 DEF InStep
  <2> QED BY <1>0, <2>1, RecursiveAgree
<1> QED BY <1>0, <1>1, <1>2, <1>4, <1>7 DEF f

-----------------------------------------------------------------------------
(* Metering.  The requests whose record counts for a month.                 *)
Counted(p) == {r \in Request : req[r].period = p /\ req[r].step \in {"recordApi", "done"}}

(* While no check was blind to usage under way, at most one request is      *)
(* between its check and its record, a month's counter is the number of its *)
(* requests that were recorded, and it stays at or below the quota, with    *)
(* room for the one under way.                                              *)
Serial ==
    ~slack =>
      /\ \A r, s \in M!InFlight : r = s
      /\ \A p \in M!Month : counter[p] = Cardinality(Counted(p))
      /\ \A q \in Quota \ {0} : plansSeen = {q} =>
           /\ \A p \in M!Month : counter[p] <= q
           /\ \A r \in M!InFlight : counter[req[r].period] < q

MeteringInv ==
    /\ M!TypeOK /\ M!ChargedOnce /\ M!WarnedOnce
    /\ M!RefusedAtQuota /\ Serial
    /\ \A r \in Request : req[r].lost => req[r].step \in {"recordApi", "done"}

(* The modules' finite sets and cardinalities are the usual ones.           *)
LEMMA SameCardinality ==
    /\ \A S : M!Cardinality(S) = Cardinality(S) /\ B!Cardinality(S) = Cardinality(S)
    /\ \A S : M!IsFiniteSet(S) <=> IsFiniteSet(S)
<1>1. \A S : M!Cardinality(S) = Cardinality(S)
  BY DEF M!Cardinality, Cardinality
<1>2. \A S : B!Cardinality(S) = Cardinality(S)
  BY DEF B!Cardinality, Cardinality
<1>3. \A S : M!IsFiniteSet(S) <=> IsFiniteSet(S)
  BY DEF M!IsFiniteSet, IsFiniteSet
<1> QED BY <1>1, <1>2, <1>3

(* What the assumption of Metering says of the constants.                   *)
LEMMA ConstantsAreTyped ==
    /\ IsFiniteSet(Request) /\ Cardinality(Request) \in Nat
    /\ Quota \subseteq Nat /\ SoftWarnPct \in 1..100
    /\ LastMonth \in Nat /\ MaxPlanChanges \in Nat
    /\ M!Month = 0..LastMonth /\ 0 \in M!Month
<1>1. /\ M!IsFiniteSet(Request) /\ Quota \subseteq Nat /\ SoftWarnPct \in 1..100
      /\ LastMonth \in Nat /\ MaxPlanChanges \in Nat
  BY CommerceAssumption DEF CommerceAssumption, M!MeteringAssumption
<1>2. IsFiniteSet(Request)
  BY <1>1, SameCardinality, Zenon
<1>3. Cardinality(Request) \in Nat
  BY <1>2, FS_CardinalityType
<1> QED BY <1>1, <1>2, <1>3 DEF M!Month

(* A quota above zero has a threshold above zero, and usage that has        *)
(* reached it stays there.                                                  *)
LEMMA Thresholds ==
    ASSUME NEW q \in Quota
    PROVE  /\ ~ M!Reached(q, 0)
           /\ \A v \in Nat : M!Reached(q, v) => M!Reached(q, v + 1)
<1>1. q \in Nat /\ SoftWarnPct \in Nat /\ SoftWarnPct >= 1
  BY ConstantsAreTyped
<1>2. PICK t \in Nat : t = q * SoftWarnPct
  BY <1>1
<1>3. q # 0 => t >= 1
  BY <1>1, <1>2
<1> QED BY <1>2, <1>3 DEF M!Reached

(* The first state charges, warns and refuses nobody.                       *)
LEMMA MeteringInit == M!Init => MeteringInv
<1> SUFFICES ASSUME M!Init PROVE MeteringInv
  OBVIOUS
<1> USE ConstantsAreTyped
<1>1. M!TypeOK
  <2>1. M!Cardinality(Request) \in Nat
    BY SameCardinality
  <2>2. counter \in [M!Month -> 0..M!Cardinality(Request)] /\ warnings \in [M!Month -> [Quota -> Nat]]
    BY <2>1 DEF M!Init
  <2>3. req \in [Request -> [step : M!Step, period : M!Month, lost : BOOLEAN]]
    BY DEF M!Init, M!Step
  <2>4. month \in M!Month /\ current \in M!Month /\ planChanges \in 0..MaxPlanChanges
    BY DEF M!Init
  <2>5. plan \in plansSeen /\ plansSeen \subseteq Quota /\ slack \in BOOLEAN
    BY Zenon DEF M!Init
  <2> QED BY <2>2, <2>3, <2>4, <2>5 DEF M!TypeOK
<1>2. M!ChargedOnce
  <2>1. M!Recorded = {}
    BY DEF M!Recorded, M!Init
  <2>2. M!SumOver(counter) = 0
    BY SumOfNone DEF M!Init
  <2> QED BY <2>1, <2>2, FS_EmptySet, SameCardinality DEF M!ChargedOnce
<1>3. M!WarnedOnce
  BY Thresholds DEF M!WarnedOnce, M!Init
<1>4. M!RefusedAtQuota
  BY DEF M!RefusedAtQuota, M!Init
<1>5. Serial
  <2>1. M!InFlight = {}
    BY DEF M!InFlight, M!Init
  <2>2. \A p \in M!Month : Counted(p) = {}
    BY DEF Counted, M!Init
  <2>3. \A p \in M!Month : counter[p] = Cardinality(Counted(p))
    BY <2>2, FS_EmptySet DEF M!Init
  <2>4. \A p \in M!Month : counter[p] = 0
    BY DEF M!Init
  <2>5. \A q \in Quota \ {0} : 0 <= q
    OBVIOUS
  <2> QED BY <2>1, <2>3, <2>4, <2>5 DEF Serial
<1>6. \A r \in Request : ~ req[r].lost
  BY DEF M!Init
<1> QED BY <1>1, <1>2, <1>3, <1>4, <1>5, <1>6 DEF MeteringInv

(* Nor does a step that leaves Metering's variables alone.                  *)
LEMMA MeteringStutter ==
    MeteringInv /\ UNCHANGED meteringVars => MeteringInv'
BY DEF MeteringInv, meteringVars, M!TypeOK, M!ChargedOnce, M!WarnedOnce, M!RefusedAtQuota,
       M!Recorded, M!InFlight, Serial, Counted

-----------------------------------------------------------------------------
(* Counting one more in a table of tables.                                  *)
LEMMA CountsOneMore ==
    ASSUME NEW S, NEW T, NEW f \in [S -> [T -> Nat]], NEW a \in S, NEW b \in T
    PROVE  [f EXCEPT ![a][b] = @ + 1] \in [S -> [T -> Nat]]
<1> DEFINE g == [f[a] EXCEPT ![b] = @ + 1]
<1>1. g \in [T -> Nat]
  OBVIOUS
<1>2. [f EXCEPT ![a][b] = @ + 1] = [f EXCEPT ![a] = g]
  OBVIOUS
<1> HIDE DEF g
<1>3. [f EXCEPT ![a] = g] \in [S -> [T -> Nat]]
  BY <1>1
<1> QED BY <1>2, <1>3

(* What every step of Metering leaves standing.  What a request was asked   *)
(* in stays; counters and the plans seen only grow.                         *)
LEMMA MeteringTypes ==
    ASSUME MeteringInv, M!Next PROVE M!TypeOK'
<1> USE ConstantsAreTyped DEF MeteringInv, M!TypeOK
<1>1. ASSUME NEW r \in Request, M!Arrive(r) PROVE M!TypeOK'
  <2>1. PICK step \in {"check", "roll"} : req' = [req EXCEPT ![r].step = step, ![r].period = month]
    BY <1>1 DEF M!Arrive
  <2> DEFINE new == [req[r] EXCEPT !.step = step, !.period = month]
  <2>2. req' \in [Request -> [step : M!Step, period : M!Month, lost : BOOLEAN]]
    <3>1. step \in M!Step
      BY DEF M!Step
    <3>2. new \in [step : M!Step, period : M!Month, lost : BOOLEAN]
      <4>1. req[r] \in [step : M!Step, period : M!Month, lost : BOOLEAN] /\ month \in M!Month
        OBVIOUS
      <4> HIDE ConstantsAreTyped DEF MeteringInv, M!TypeOK
      <4> QED BY <3>1, <4>1
    <3>3. req' = [req EXCEPT ![r] = new]
      BY <2>1
    <3> HIDE DEF new
    <3> QED BY <3>2, <3>3
  <2>3. UNCHANGED <<month, plan, current, counter, warnings, planChanges, plansSeen, slack>>
    BY <1>1 DEF M!Arrive
  <2> QED BY <2>2, <2>3
<1>2. ASSUME NEW r \in Request, NEW step \in M!Step, M!Goes(r, step)
      PROVE  req' \in [Request -> [step : M!Step, period : M!Month, lost : BOOLEAN]]
  BY <1>2 DEF M!Goes
<1>3. ASSUME NEW r \in Request, M!RollForward(r) PROVE M!TypeOK'
  <2>1. req' \in [Request -> [step : M!Step, period : M!Month, lost : BOOLEAN]]
    BY <1>2, <1>3 DEF M!RollForward, M!Step
  <2>2. current' \in M!Month
    BY <1>3 DEF M!RollForward, M!EnsureSubscription
  <2> QED BY <1>3, <2>1, <2>2 DEF M!RollForward
<1>4. ASSUME NEW r \in Request, M!CheckQuota(r) PROVE M!TypeOK'
  <2>1. req' \in [Request -> [step : M!Step, period : M!Month, lost : BOOLEAN]]
    BY <1>2, <1>4 DEF M!CheckQuota, M!Step
  <2>2. current' \in M!Month
    BY <1>4 DEF M!CheckQuota, M!EnsureSubscription
  <2>3. slack' \in BOOLEAN
    BY <1>4 DEF M!CheckQuota
  <2> QED BY <1>4, <2>1, <2>2, <2>3 DEF M!CheckQuota
<1>5. ASSUME NEW r \in Request, M!Respond(r) PROVE M!TypeOK'
  <2>1. req' \in [Request -> [step : M!Step, period : M!Month, lost : BOOLEAN]]
    BY <1>2, <1>5 DEF M!Respond, M!Step
  <2> QED BY <1>5, <2>1 DEF M!Respond
<1>6. ASSUME NEW r \in Request, M!RecordUsage(r) PROVE M!TypeOK'
  <2>1. req' \in [Request -> [step : M!Step, period : M!Month, lost : BOOLEAN]]
    BY <1>2, <1>6 DEF M!RecordUsage, M!Step
  <2>2. counter[month] < Cardinality(Request)
    <3>1. M!Recorded \subseteq Request \ {r}
      BY <1>6 DEF M!Recorded, M!RecordUsage
    <3>2. Cardinality(Request \ {r}) = Cardinality(Request) - 1 /\ IsFiniteSet(Request \ {r})
      BY FS_RemoveElement
    <3>3. Cardinality(M!Recorded) <= Cardinality(Request) - 1
      BY <3>1, <3>2, FS_Subset
    <3>4. counter \in [M!Month -> Nat]
      BY SameCardinality
    <3>5. counter[month] <= M!SumOver(counter)
      BY <3>4, SumBounds
    <3>6. M!SumOver(counter) = Cardinality(M!Recorded)
      BY SameCardinality DEF M!ChargedOnce
    <3>7. counter[month] \in Nat
      BY <3>4
    <3>8. IsFiniteSet(M!Recorded)
      BY <3>1, <3>2, FS_Subset
    <3>9. Cardinality(M!Recorded) \in Nat
      BY <3>8, FS_CardinalityType
    <3> QED BY <3>3, <3>5, <3>6, <3>7, <3>9
  <2>3. counter' \in [M!Month -> 0..M!Cardinality(Request)]
    <3>1. M!Cardinality(Request) \in Nat /\ counter[month] < M!Cardinality(Request)
      BY <2>2, SameCardinality
    <3>2. counter[month] \in Nat /\ counter[month] + 1 \in 0..M!Cardinality(Request)
      BY <3>1
    <3> QED BY <1>6, <3>2 DEF M!RecordUsage
  <2>4. warnings' \in [M!Month -> [Quota -> Nat]]
    <3>1. plan \in Quota /\ month \in M!Month
      OBVIOUS
    <3>2. [warnings EXCEPT ![month][plan] = @ + 1] \in [M!Month -> [Quota -> Nat]]
      BY <3>1, CountsOneMore
    <3>3. \/ warnings' = [warnings EXCEPT ![month][plan] = @ + 1]
          \/ warnings' = warnings
      BY <1>6 DEF M!RecordUsage
    <3> QED BY <3>2, <3>3
  <2>5. slack' \in BOOLEAN
    BY <1>6 DEF M!RecordUsage
  <2>6. UNCHANGED <<month, plan, current, planChanges, plansSeen>>
    BY <1>6 DEF M!RecordUsage
  <2> QED BY <2>1, <2>3, <2>4, <2>5, <2>6
<1>7. ASSUME NEW r \in Request, M!RecordLost(r) PROVE M!TypeOK'
  <2>1. req' \in [Request -> [step : M!Step, period : M!Month, lost : BOOLEAN]]
    <3> DEFINE new == [req[r] EXCEPT !.step = "recordApi", !.lost = TRUE]
    <3>1. "recordApi" \in M!Step
      BY DEF M!Step
    <3>2. new \in [step : M!Step, period : M!Month, lost : BOOLEAN]
      BY <3>1
    <3>3. req' = [req EXCEPT ![r] = new]
      BY <1>7 DEF M!RecordLost
    <3> HIDE DEF new
    <3> QED BY <3>2, <3>3
  <2> QED BY <1>7, <2>1 DEF M!RecordLost
<1>8. ASSUME NEW r \in Request, M!RecordApiRequest(r) PROVE M!TypeOK'
  <2>1. req' \in [Request -> [step : M!Step, period : M!Month, lost : BOOLEAN]]
    BY <1>2, <1>8 DEF M!RecordApiRequest, M!Step
  <2> QED BY <1>8, <2>1 DEF M!RecordApiRequest
<1>9. ASSUME NEW q \in Quota, M!SetPlan(q) PROVE M!TypeOK'
  <2>1. planChanges' \in 0..MaxPlanChanges
    BY <1>9 DEF M!SetPlan
  <2>2. plan' \in plansSeen' /\ plansSeen' \subseteq Quota
    BY <1>9 DEF M!SetPlan
  <2> QED BY <1>9, <2>1, <2>2 DEF M!SetPlan
<1>10. ASSUME M!MonthTurns PROVE M!TypeOK'
  <2>1. month' \in M!Month
    BY <1>10 DEF M!MonthTurns
  <2> QED BY <1>10, <2>1 DEF M!MonthTurns
<1> QED BY <1>1, <1>3, <1>4, <1>5, <1>6, <1>7, <1>8, <1>9, <1>10 DEF M!Next

(* Counters and the plans seen only grow, a request keeps its period from   *)
(* its arrival on, and only the guard refuses one.                          *)
LEMMA MeteringGrows ==
    ASSUME MeteringInv, M!Next
    PROVE  /\ plansSeen \subseteq plansSeen'
           /\ \A p \in M!Month : counter[p] \in Nat /\ counter[p] <= counter'[p]
           /\ \A r \in Request :
                /\ req[r].step # "new" => req'[r].period = req[r].period
                /\ req'[r].step = "refused" =>
                     req[r].step = "refused" \/ (M!CheckQuota(r) /\ req[r].step = "check")
                /\ req'[r].lost => req'[r].step \in {"recordApi", "done"}
<1> USE ConstantsAreTyped DEF MeteringInv, M!TypeOK, M!Goes
<1>1. \A p \in M!Month : counter[p] \in Nat
  BY SameCardinality
<1> HIDE ConstantsAreTyped
<1>2. \A r \in Request : req[r].lost => req[r].step \in {"recordApi", "done"}
  OBVIOUS
<1>3. ASSUME (\E q \in Quota : M!SetPlan(q)) \/ M!MonthTurns
      PROVE  plansSeen \subseteq plansSeen' /\ counter' = counter /\ req' = req
  BY <1>3 DEF M!SetPlan, M!MonthTurns
<1>4. ASSUME NEW u \in Request, M!RecordUsage(u)
      PROVE  /\ plansSeen' = plansSeen
             /\ \A p \in M!Month : counter[p] <= counter'[p]
             /\ \A r \in Request :
                  /\ req'[r].period = req[r].period
                  /\ req'[r].step = "refused" => req[r].step = "refused"
                  /\ req'[r].lost => req'[r].step \in {"recordApi", "done"}
  BY <1>1, <1>4 DEF M!RecordUsage
<1>5. ASSUME NEW u \in Request,
             M!Arrive(u) \/ M!RollForward(u) \/ M!Respond(u) \/ M!RecordLost(u) \/ M!RecordApiRequest(u)
      PROVE  /\ plansSeen' = plansSeen /\ counter' = counter
             /\ \A r \in Request :
                  /\ req[r].step # "new" => req'[r].period = req[r].period
                  /\ req'[r].step = "refused" => req[r].step = "refused"
                  /\ req'[r].lost => req'[r].step \in {"recordApi", "done"}
  <2>1. CASE M!Arrive(u)
    BY <2>1 DEF M!Arrive
  <2>2. CASE M!RollForward(u)
    BY <2>2 DEF M!RollForward
  <2>3. CASE M!Respond(u)
    BY <2>3 DEF M!Respond
  <2>4. CASE M!RecordLost(u)
    BY <2>4 DEF M!RecordLost
  <2>5. CASE M!RecordApiRequest(u)
    BY <2>5 DEF M!RecordApiRequest
  <2> QED BY <1>5, <2>1, <2>2, <2>3, <2>4, <2>5
<1>6. ASSUME NEW u \in Request, M!CheckQuota(u)
      PROVE  /\ plansSeen' = plansSeen /\ counter' = counter
             /\ \A r \in Request :
                  /\ req'[r].period = req[r].period
                  /\ req'[r].step = "refused" => req[r].step = "refused" \/ r = u
                  /\ req'[r].lost => req'[r].step \in {"recordApi", "done"}
  BY <1>6 DEF M!CheckQuota
<1>7. \A p \in M!Month : counter[p] <= counter[p]
  BY <1>1
<1>8. \A u \in Request : M!CheckQuota(u) => req[u].step = "check"
  BY DEF M!CheckQuota
<1> HIDE DEF MeteringInv, M!TypeOK, M!Goes
<1>9. CASE (\E q \in Quota : M!SetPlan(q)) \/ M!MonthTurns
  BY <1>1, <1>2, <1>3, <1>7, <1>9, Zenon
<1>10. CASE \E u \in Request : M!CheckQuota(u)
  BY <1>1, <1>6, <1>7, <1>8, <1>10, Zenon
<1>11. CASE \E u \in Request : M!RecordUsage(u)
  BY <1>1, <1>4, <1>11, Zenon
<1>12. CASE \E u \in Request : M!Arrive(u) \/ M!RollForward(u) \/ M!Respond(u)
                               \/ M!RecordLost(u) \/ M!RecordApiRequest(u)
  BY <1>1, <1>5, <1>7, <1>12, Zenon
<1> QED BY <1>9, <1>10, <1>11, <1>12, Zenon DEF M!Next

(* A request that was recorded is counted in the period it was asked in.    *)
LEMMA MeteringCharges ==
    ASSUME MeteringInv, M!Next PROVE M!ChargedOnce'
<1> USE DEF MeteringInv
<1>1. /\ counter \in [M!Month -> Nat] /\ month \in M!Month
      /\ req \in [Request -> [step : M!Step, period : M!Month, lost : BOOLEAN]]
  BY ConstantsAreTyped, SameCardinality DEF M!TypeOK
<1>2. M!SumOver(counter) = Cardinality(M!Recorded)
  BY SameCardinality DEF M!ChargedOnce
<1>3. IsFiniteSet(M!Recorded) /\ Cardinality(M!Recorded) \in Nat
  <2>1. M!Recorded \subseteq Request
    BY DEF M!Recorded
  <2>2. IsFiniteSet(M!Recorded)
    BY <2>1, ConstantsAreTyped, FS_Subset
  <2> QED BY <2>2, FS_CardinalityType
<1>4. ASSUME NEW u \in Request, M!RecordUsage(u) PROVE M!ChargedOnce'
  <2>1. u \notin M!Recorded /\ M!Recorded' = M!Recorded \cup {u}
    BY <1>1, <1>4 DEF M!RecordUsage, M!Goes, M!Recorded
  <2>2. Cardinality(M!Recorded') = Cardinality(M!Recorded) + 1
    BY <1>3, <2>1, FS_AddElement
  <2>3. counter' = [counter EXCEPT ![month] = @ + 1]
    BY <1>4 DEF M!RecordUsage
  <2>4. M!SumOver(counter') = M!SumOver(counter) + 1
    BY <1>1, <2>3, SumGrows
  <2>5. M!SumOver(counter') = M!Cardinality(M!Recorded')
    BY <1>2, <2>2, <2>4, SameCardinality
  <2> QED BY <2>5 DEF M!ChargedOnce
<1>5. ASSUME counter' = counter, M!Recorded' = M!Recorded PROVE M!ChargedOnce'
  BY <1>5 DEF M!ChargedOnce
<1>6. ASSUME NEW u \in Request,
             M!Arrive(u) \/ M!RollForward(u) \/ M!CheckQuota(u) \/ M!Respond(u)
             \/ M!RecordLost(u) \/ M!RecordApiRequest(u)
      PROVE  counter' = counter /\ M!Recorded' = M!Recorded
  <2> USE <1>1 DEF M!Recorded, M!Goes
  <2>1. CASE M!Arrive(u)
    BY <2>1 DEF M!Arrive
  <2>2. CASE M!RollForward(u)
    BY <2>2 DEF M!RollForward
  <2>3. CASE M!Respond(u)
    BY <2>3 DEF M!Respond
  <2>4. CASE M!RecordLost(u)
    BY <2>4 DEF M!RecordLost
  <2>5. CASE M!RecordApiRequest(u)
    BY <2>5 DEF M!RecordApiRequest
  <2>6. CASE M!CheckQuota(u)
    BY <2>6 DEF M!CheckQuota
  <2> QED BY <1>6, <2>1, <2>2, <2>3, <2>4, <2>5, <2>6
<1>7. ASSUME (\E q \in Quota : M!SetPlan(q)) \/ M!MonthTurns
      PROVE  counter' = counter /\ M!Recorded' = M!Recorded
  BY <1>7 DEF M!SetPlan, M!MonthTurns, M!Recorded
<1> QED BY <1>4, <1>5, <1>6, <1>7 DEF M!Next

(* A warning is due only when the counter passes the mark, which it does    *)
(* once.                                                                    *)
LEMMA MeteringWarns ==
    ASSUME MeteringInv, M!Next PROVE M!WarnedOnce'
<1> USE DEF MeteringInv
<1>1. /\ counter \in [M!Month -> Nat] /\ month \in M!Month
      /\ warnings \in [M!Month -> [Quota -> Nat]]
      /\ plan \in plansSeen /\ plan \in Quota
  BY ConstantsAreTyped, SameCardinality DEF M!TypeOK
<1>2. \A p \in M!Month : \A q \in Quota :
        /\ warnings[p][q] <= 1
        /\ warnings[p][q] = 1 => M!Reached(q, counter[p])
        /\ plansSeen = {q} /\ M!Reached(q, counter[p]) => warnings[p][q] = 1
  BY DEF M!WarnedOnce
<1> HIDE DEF MeteringInv
<1>3. ASSUME NEW u \in Request, M!RecordUsage(u) PROVE M!WarnedOnce'
  <2> SUFFICES ASSUME NEW p \in M!Month, NEW q \in Quota
               PROVE  /\ warnings'[p][q] <= 1
                      /\ warnings'[p][q] = 1 => M!Reached(q, counter'[p])
                      /\ plansSeen' = {q} /\ M!Reached(q, counter'[p]) => warnings'[p][q] = 1
    BY DEF M!WarnedOnce
  <2>1. /\ plansSeen' = plansSeen
        /\ counter'[p] = IF p = month THEN counter[p] + 1 ELSE counter[p]
        /\ counter'[month] = counter[month] + 1
    BY <1>1, <1>3 DEF M!RecordUsage
  <2>2. M!Crossed(plan, counter'[month]) <=>
          M!Reached(plan, counter[month] + 1) /\ ~ M!Reached(plan, counter[month])
    <3>1. counter'[month] - 1 = counter[month]
      BY <1>1, <2>1
    <3>2. M!Crossed(plan, counter'[month]) <=>
            M!Reached(plan, counter'[month]) /\ ~ M!Reached(plan, counter'[month] - 1)
      BY DEF M!Crossed
    <3> QED BY <2>1, <3>1, <3>2
  <2>3. CASE p = month /\ q = plan /\ M!Crossed(plan, counter'[month])
    <3>1. warnings'[p][q] = warnings[p][q] + 1
      BY <1>1, <1>3, <2>3 DEF M!RecordUsage
    <3>2. warnings[p][q] \in Nat /\ warnings[p][q] <= 1 /\ warnings[p][q] # 1
      BY <1>1, <1>2, <2>2, <2>3
    <3> QED BY <2>1, <2>2, <2>3, <3>1, <3>2
  <2>4. CASE ~ (p = month /\ q = plan /\ M!Crossed(plan, counter'[month]))
    <3>1. warnings'[p][q] = warnings[p][q]
      BY <1>1, <1>3, <2>4 DEF M!RecordUsage
    <3>2. M!Reached(q, counter[p]) => M!Reached(q, counter'[p])
      BY <1>1, <2>1, Thresholds
    <3>3. plansSeen = {q} /\ M!Reached(q, counter'[p]) => M!Reached(q, counter[p])
      BY <1>1, <2>1, <2>2, <2>4
    <3> QED BY <1>2, <2>1, <3>1, <3>2, <3>3
  <2> QED BY <2>3, <2>4
<1>4. ASSUME NEW r \in Quota, M!SetPlan(r) PROVE M!WarnedOnce'
  <2>1. \A q \in Quota : plansSeen' # {q}
    <3>1. plan \in plansSeen' /\ r \in plansSeen' /\ r # plan
      BY <1>1, <1>4, Zenon DEF M!SetPlan
    <3> QED BY <3>1
  <2>2. warnings' = warnings /\ counter' = counter
    BY <1>4 DEF M!SetPlan
  <2> QED BY <1>2, <2>1, <2>2 DEF M!WarnedOnce
<1>5. ASSUME UNCHANGED <<counter, warnings, plansSeen>> PROVE M!WarnedOnce'
  BY <1>2, <1>5 DEF M!WarnedOnce
<1>6. CASE \/ M!MonthTurns
           \/ \E u \in Request : \/ M!Arrive(u) \/ M!RollForward(u) \/ M!CheckQuota(u)
                                 \/ M!Respond(u) \/ M!RecordLost(u) \/ M!RecordApiRequest(u)
  BY <1>5, <1>6 DEF M!MonthTurns, M!Arrive, M!RollForward, M!CheckQuota, M!Respond,
                    M!RecordLost, M!RecordApiRequest
<1> QED BY <1>3, <1>4, <1>6, Zenon DEF M!Next

(* A request is refused on a counter that does not fall again.              *)
LEMMA MeteringRefuses ==
    ASSUME MeteringInv, M!Next PROVE M!RefusedAtQuota'
<1>1. /\ \A r \in Request : req[r].step = "refused" =>
           \E q \in plansSeen : q # 0 /\ counter[req[r].period] >= q
      /\ plansSeen \subseteq Quota /\ plan \in plansSeen
      /\ \A r \in Request : req[r].period \in M!Month
      /\ Quota \subseteq Nat
  BY ConstantsAreTyped DEF MeteringInv, M!RefusedAtQuota, M!TypeOK
<1>2. /\ plansSeen \subseteq plansSeen'
      /\ \A p \in M!Month : counter[p] \in Nat /\ counter'[p] \in Nat /\ counter[p] <= counter'[p]
  BY MeteringGrows, MeteringTypes, SameCardinality, ConstantsAreTyped DEF M!TypeOK
<1> SUFFICES ASSUME NEW r \in Request, req'[r].step = "refused"
             PROVE  \E q \in plansSeen' : q # 0 /\ counter'[req'[r].period] >= q
  BY DEF M!RefusedAtQuota
<1>3. CASE req[r].step = "refused"
  <2>1. req'[r].period = req[r].period
    BY <1>3, MeteringGrows
  <2>2. PICK q \in plansSeen : q # 0 /\ counter[req[r].period] >= q
    BY <1>1, <1>3
  <2>3. q \in plansSeen' /\ q \in Nat /\ counter'[req[r].period] >= q
    <3>1. /\ q \in Nat /\ q \in plansSeen'
          /\ counter[req[r].period] \in Nat /\ counter'[req[r].period] \in Nat
          /\ counter[req[r].period] <= counter'[req[r].period]
      BY <1>1, <1>2, <2>2, Zenon
    <3> QED BY <2>2, <3>1
  <2> QED BY <2>1, <2>2, <2>3
<1>4. CASE M!CheckQuota(r) /\ req[r].step = "check"
  <2>1. req'[r].period = req[r].period
    BY <1>4, MeteringGrows
  <2>2. ~ M!Allowed(counter[req[r].period], plan) /\ counter' = counter /\ plansSeen' = plansSeen
    <3>1. req \in [Request -> [step : M!Step, period : M!Month, lost : BOOLEAN]]
      BY DEF MeteringInv, M!TypeOK
    <3> QED BY <1>4, <3>1 DEF M!CheckQuota, M!Goes
  <2>3. plan # 0 /\ counter[req[r].period] >= plan
    <3>1. plan \in Nat /\ counter[req[r].period] \in Nat
      BY <1>1, <1>2, Zenon
    <3> QED BY <2>2, <3>1 DEF M!Allowed
  <2> QED BY <1>1, <2>1, <2>2, <2>3
<1> QED BY <1>3, <1>4, MeteringGrows

(* The account stays serial when nothing was recorded or admitted.          *)
LEMMA SerialKept ==
    ASSUME MeteringInv, UNCHANGED <<counter, plansSeen, slack>>,
           M!InFlight' \subseteq M!InFlight,
           \A p \in M!Month : Counted(p)' = Counted(p),
           \A r \in M!InFlight : req'[r].period = req[r].period
    PROVE  Serial'
<1> SUFFICES ASSUME ~slack'
             PROVE  /\ \A r, s \in M!InFlight' : r = s
                    /\ \A p \in M!Month : counter'[p] = Cardinality(Counted(p)')
                    /\ \A q \in Quota \ {0} : plansSeen' = {q} =>
                         /\ \A p \in M!Month : counter'[p] <= q
                         /\ \A r \in M!InFlight' : counter'[req'[r].period] < q
  BY DEF Serial
<1>1. ~ slack
  OBVIOUS
<1>2. /\ \A r, s \in M!InFlight : r = s
      /\ \A p \in M!Month : counter[p] = Cardinality(Counted(p))
      /\ \A q \in Quota \ {0} : plansSeen = {q} =>
           /\ \A p \in M!Month : counter[p] <= q
           /\ \A r \in M!InFlight : counter[req[r].period] < q
  BY <1>1 DEF MeteringInv, Serial
<1>3. \A r \in M!InFlight' : r \in M!InFlight /\ req'[r].period = req[r].period
  OBVIOUS
<1> QED BY <1>2, <1>3

(* The account of Serial is kept: a request that is let through without     *)
(* slack is the only one under way in its period.                           *)
LEMMA MeteringIsSerial ==
    ASSUME MeteringInv, M!Next PROVE Serial'
<1>1. /\ req \in [Request -> [step : M!Step, period : M!Month, lost : BOOLEAN]]
      /\ counter \in [M!Month -> Nat] /\ month \in M!Month
      /\ plan \in plansSeen /\ plansSeen \subseteq Quota /\ Quota \subseteq Nat
  BY ConstantsAreTyped, SameCardinality DEF MeteringInv, M!TypeOK
<1>2. ~ slack =>
        /\ \A r, s \in M!InFlight : r = s
        /\ \A p \in M!Month : counter[p] = Cardinality(Counted(p))
        /\ \A q \in Quota \ {0} : plansSeen = {q} =>
             /\ \A p \in M!Month : counter[p] <= q
             /\ \A r \in M!InFlight : counter[req[r].period] < q
  BY DEF MeteringInv, Serial
<1>3. ASSUME NEW u \in Request,
             M!Arrive(u) \/ M!RollForward(u) \/ M!Respond(u) \/ M!RecordApiRequest(u)
      PROVE  Serial'
  <2> USE <1>1 DEF M!InFlight, Counted, M!Goes
  <2>1. CASE M!Arrive(u)
    <3>1. UNCHANGED <<counter, plansSeen, slack>>
      BY <2>1 DEF M!Arrive
    <3>2. /\ M!InFlight' \subseteq M!InFlight
          /\ \A p \in M!Month : Counted(p)' = Counted(p)
          /\ \A r \in M!InFlight : req'[r].period = req[r].period
      BY <2>1 DEF M!Arrive
    <3> QED BY <3>1, <3>2, SerialKept
  <2>2. CASE M!RollForward(u)
    <3>1. UNCHANGED <<counter, plansSeen, slack>>
      BY <2>2 DEF M!RollForward
    <3>2. /\ M!InFlight' \subseteq M!InFlight
          /\ \A p \in M!Month : Counted(p)' = Counted(p)
          /\ \A r \in M!InFlight : req'[r].period = req[r].period
      BY <2>2 DEF M!RollForward
    <3> QED BY <3>1, <3>2, SerialKept
  <2>3. CASE M!Respond(u)
    <3>1. UNCHANGED <<counter, plansSeen, slack>>
      BY <2>3 DEF M!Respond
    <3>2. /\ M!InFlight' \subseteq M!InFlight
          /\ \A p \in M!Month : Counted(p)' = Counted(p)
          /\ \A r \in M!InFlight : req'[r].period = req[r].period
      BY <2>3 DEF M!Respond
    <3> QED BY <3>1, <3>2, SerialKept
  <2>4. CASE M!RecordApiRequest(u)
    <3>1. UNCHANGED <<counter, plansSeen, slack>>
      BY <2>4 DEF M!RecordApiRequest
    <3>2. /\ M!InFlight' \subseteq M!InFlight
          /\ \A p \in M!Month : Counted(p)' = Counted(p)
          /\ \A r \in M!InFlight : req'[r].period = req[r].period
      BY <2>4 DEF M!RecordApiRequest
    <3> QED BY <3>1, <3>2, SerialKept
  <2> QED BY <1>3, <2>1, <2>2, <2>3, <2>4
<1>4. ASSUME NEW u \in Request, M!CheckQuota(u) PROVE Serial'
  <2> SUFFICES ASSUME ~slack' PROVE Serial'
    BY DEF Serial
  <2>1. /\ ~ slack /\ M!InFlight = {} /\ UNCHANGED <<counter, plansSeen, plan>>
        /\ req' = [req EXCEPT ![u].step = IF M!Allowed(counter[req[u].period], plan)
                                          THEN "handle" ELSE "refused"]
        /\ req[u].step = "check"
    BY <1>4 DEF M!CheckQuota, M!Goes
  <2>2. \A p \in M!Month : Counted(p)' = Counted(p)
    BY <1>1, <2>1 DEF Counted
  <2>3. \A r \in M!InFlight' :
          /\ r = u /\ req'[r].period = req[u].period
          /\ M!Allowed(counter[req[u].period], plan)
    BY <1>1, <2>1 DEF M!InFlight
  <2>4. \A q \in Quota \ {0} : plansSeen = {q} => plan = q /\ q # 0
    BY <1>1
  <2>5. \A q \in Quota \ {0} : plansSeen = {q} =>
          \A r \in M!InFlight' : counter[req'[r].period] < q
    BY <2>3, <2>4 DEF M!Allowed
  <2> QED BY <1>2, <2>1, <2>2, <2>3, <2>5 DEF Serial
<1>5. ASSUME NEW u \in Request, M!RecordUsage(u) PROVE Serial'
  <2> SUFFICES ASSUME ~slack' PROVE Serial'
    BY DEF Serial
  <2>1. /\ ~ slack /\ req[u].period = month /\ plansSeen' = plansSeen
        /\ counter' = [counter EXCEPT ![month] = @ + 1]
        /\ req' = [req EXCEPT ![u].step = "recordApi"]
        /\ req[u].step = "record"
    BY <1>5 DEF M!RecordUsage, M!Goes
  <2>2. u \in M!InFlight /\ \A r \in M!InFlight : r = u
    BY <1>2, <2>1 DEF M!InFlight
  <2>3. M!InFlight' = {}
    BY <1>1, <2>1, <2>2 DEF M!InFlight
  <2>4. ASSUME NEW p \in M!Month, p # month
        PROVE  counter'[p] = counter[p] /\ Counted(p)' = Counted(p)
    BY <1>1, <2>1, <2>4 DEF Counted
  <2>5. counter'[month] = counter[month] + 1
    BY <1>1, <2>1
  <2> DEFINE of(p) == {r \in Request : req'[r].period = p /\ req'[r].step \in {"recordApi", "done"}}
  <2>6. u \notin Counted(month) /\ of(month) = Counted(month) \cup {u}
    BY <1>1, <2>1 DEF Counted
  <2>7. Cardinality(of(month)) = Cardinality(Counted(month)) + 1
    <3>1. Counted(month) \subseteq Request
      BY DEF Counted
    <3>2. IsFiniteSet(Counted(month))
      BY <3>1, ConstantsAreTyped, FS_Subset
    <3> QED BY <2>6, <3>2, FS_AddElement
  <2>8. ASSUME NEW p \in M!Month PROVE counter'[p] = Cardinality(Counted(p)')
    <3>1. Counted(p)' = of(p)
      BY DEF Counted
    <3>2. CASE p = month
      BY <1>1, <1>2, <2>1, <2>5, <2>7, <3>1, <3>2
    <3>3. CASE p # month
      BY <1>2, <2>1, <2>4, <3>3
    <3> QED BY <3>2, <3>3
  <2>9. ASSUME NEW q \in Quota \ {0}, plansSeen' = {q}, NEW p \in M!Month
        PROVE  counter'[p] <= q
    <3>1. counter[p] <= q /\ counter[month] < q /\ q \in Nat /\ counter[month] \in Nat
      BY <1>1, <1>2, <2>1, <2>2, <2>9
    <3> QED BY <2>4, <2>5, <3>1
  <2> QED BY <2>3, <2>8, <2>9 DEF Serial
<1>6. ASSUME NEW u \in Request, M!RecordLost(u) PROVE Serial'
  BY <1>6 DEF M!RecordLost, Serial
<1>7. ASSUME NEW q \in Quota, M!SetPlan(q) PROVE Serial'
  <2>1. /\ plan \in plansSeen' /\ q \in plansSeen' /\ q # plan
        /\ UNCHANGED <<counter, req, slack>>
    BY <1>1, <1>7, Zenon DEF M!SetPlan
  <2>2. \A r \in Quota \ {0} : plansSeen' # {r}
    BY <2>1
  <2>3. M!InFlight' = M!InFlight /\ \A p \in M!Month : Counted(p)' = Counted(p)
    BY <2>1 DEF M!InFlight, Counted
  <2> QED BY <1>2, <2>1, <2>2, <2>3 DEF Serial
<1>8. ASSUME M!MonthTurns PROVE Serial'
  <2>1. UNCHANGED <<counter, plansSeen, req, slack>>
    BY <1>8 DEF M!MonthTurns
  <2>2. /\ M!InFlight' = M!InFlight /\ \A p \in M!Month : Counted(p)' = Counted(p)
        /\ \A r \in M!InFlight : req'[r].period = req[r].period
    BY <2>1 DEF M!InFlight, Counted
  <2> QED BY <2>1, <2>2, SerialKept
<1> QED BY <1>3, <1>4, <1>5, <1>6, <1>7, <1>8, Zenon DEF M!Next

(* Every step of Metering keeps its invariant.                              *)
LEMMA MeteringStep ==
    ASSUME MeteringInv, M!Next PROVE MeteringInv'
<1>1. \A r \in Request : req'[r].lost => req'[r].step \in {"recordApi", "done"}
  BY MeteringGrows
<1> QED BY <1>1, MeteringTypes, MeteringCharges, MeteringWarns, MeteringRefuses,
           MeteringIsSerial DEF MeteringInv

(* The account of Serial bounds what the quota is about.                    *)
LEMMA SerialKeepsQuota == MeteringInv => M!QuotaIsHard
<1> SUFFICES ASSUME MeteringInv, NEW q \in Quota \ {0}, plansSeen = {q}, ~slack,
                    NEW p \in M!Month
             PROVE  Cardinality(M!Answered(p)) <= q
  BY SameCardinality DEF M!QuotaIsHard
<1>1. /\ \A r, s \in M!InFlight : r = s
      /\ counter[p] = Cardinality(Counted(p)) /\ counter[p] <= q
      /\ \A r \in M!InFlight : counter[req[r].period] < q
  BY DEF MeteringInv, Serial
<1>2. q \in Nat /\ counter[p] \in Nat /\ IsFiniteSet(Counted(p))
  <2>1. Counted(p) \subseteq Request
    BY DEF Counted
  <2>2. IsFiniteSet(Counted(p))
    BY <2>1, ConstantsAreTyped, FS_Subset
  <2>3. counter \in [M!Month -> Nat]
    BY ConstantsAreTyped, SameCardinality DEF MeteringInv, M!TypeOK
  <2> QED BY <2>2, <2>3, ConstantsAreTyped
<1>3. CASE \E r \in Request : req[r].step = "record" /\ req[r].period = p
  <2>1. PICK r \in Request : req[r].step = "record" /\ req[r].period = p
    BY <1>3
  <2>2. r \in M!InFlight
    BY <2>1 DEF M!InFlight
  <2>3. M!Answered(p) = Counted(p) \cup {r}
    BY <1>1, <2>1, <2>2 DEF M!Answered, Counted, M!InFlight
  <2>4. r \notin Counted(p)
    BY <2>1 DEF Counted
  <2>5. Cardinality(M!Answered(p)) = Cardinality(Counted(p)) + 1
    BY <1>2, <2>3, <2>4, FS_AddElement
  <2>6. counter[p] < q
    BY <1>1, <2>1, <2>2
  <2> QED BY <1>1, <1>2, <2>5, <2>6
<1>4. CASE ~ \E r \in Request : req[r].step = "record" /\ req[r].period = p
  <2>1. M!Answered(p) = Counted(p)
    BY <1>4 DEF M!Answered, Counted
  <2> QED BY <1>1, <2>1
<1> QED BY <1>3, <1>4

-----------------------------------------------------------------------------
(* Billing.  What one event makes of the provider's own record of the       *)
(* subscription, and the record after every event.                          *)
Subscription == [plan : B!Plan, status : B!SubStatus]
Fresh == [plan |-> "free", status |-> "active"]
ProviderStep(was, e) ==
    LET gone == \/ e.type = "subscription.canceled"
                \/ e.type = "subscription.updated" /\ e.status = "canceled"
    IN  [status |-> IF gone THEN "canceled"
                    ELSE IF e.type = "payment.failed" THEN "past_due"
                    ELSE IF e.type = "checkout.completed" THEN "active"
                    ELSE IF e.type = "unknown" THEN was.status
                    ELSE e.status,
         plan |-> IF gone THEN "free"
                  ELSE IF e.mapped THEN "growth" ELSE was.plan]
IsAfter(es, g) ==
    g = [n \in 0..Len(es) |-> IF n = 0 THEN Fresh ELSE ProviderStep(g[n - 1], es[n])]
After(es) == CHOOSE g : IsAfter(es, g)

(* An event takes a subscription to a subscription.                         *)
LEMMA ProviderSteps ==
    ASSUME NEW was \in Subscription, NEW e \in B!Event
    PROVE  ProviderStep(was, e) \in Subscription
BY DEF Subscription, ProviderStep, B!Event, B!EventType, B!Plan, B!SubStatus

(* The provider's subscription after each event is a step from the one      *)
(* before.                                                                  *)
LEMMA AfterIs ==
    ASSUME NEW es \in Seq(B!Event)
    PROVE  /\ After(es)[0] = Fresh
           /\ \A n \in 1..Len(es) : After(es)[n] = ProviderStep(After(es)[n - 1], es[n])
           /\ \A n \in 0..Len(es) : After(es)[n] \in Subscription
<1>1. Len(es) \in Nat /\ \A n \in 1..Len(es) : es[n] \in B!Event
  BY LenProperties, ElementOfSeq
<1> DEFINE F == [n \in 1..Len(es) |-> [r \in Subscription |-> ProviderStep(r, es[n])]]
           c == After(es)
<1>2. /\ Fresh \in Subscription
      /\ \A n \in 1..Len(es) : \A r \in Subscription :
           F[n][r] = ProviderStep(r, es[n]) /\ F[n][r] \in Subscription
  <2>1. Fresh \in Subscription
    BY DEF Fresh, Subscription, B!Plan, B!SubStatus
  <2> QED BY <1>1, <2>1, ProviderSteps
<1> HIDE DEF F
<1>3. PICK g : g \in [0..Len(es) -> Subscription] /\ Iterates(Len(es), Fresh, F, g)
  <2>1. Len(es) \in Nat
    BY <1>1
  <2>2. Fresh \in Subscription
    BY <1>2
  <2>3. \A n \in 1..Len(es) : \A r \in Subscription : F[n][r] \in Subscription
    BY <1>2
  <2> QED BY <2>1, <2>2, <2>3, Recursive
<1>4. \A n \in 0..Len(es) : g[n] = IF n = 0 THEN Fresh ELSE ProviderStep(g[n - 1], es[n])
  <2> SUFFICES ASSUME NEW n \in 0..Len(es)
               PROVE  g[n] = IF n = 0 THEN Fresh ELSE ProviderStep(g[n - 1], es[n])
    OBVIOUS
  <2>1. g[n] = IF n = 0 THEN Fresh ELSE F[n][g[n - 1]]
    BY <1>3 DEF Iterates
  <2>2. n # 0 => n \in 1..Len(es) /\ g[n - 1] \in Subscription
    BY <1>1, <1>3
  <2> QED BY <1>2, <2>1, <2>2
<1>5. IsAfter(es, g)
  <2>1. g = [n \in 0..Len(es) |-> IF n = 0 THEN Fresh ELSE ProviderStep(g[n - 1], es[n])]
    BY <1>3, <1>4
  <2> QED BY <2>1, Zenon DEF IsAfter
<1>6. IsAfter(es, c)
  BY <1>5, Zenon DEF After
<1> HIDE DEF c
<1>7. c[0] = Fresh /\ \A n \in 1..Len(es) : c[n] = ProviderStep(c[n - 1], es[n])
  BY <1>1, <1>6 DEF IsAfter
<1>8. g[0] = c[0] /\ \A n \in 1..Len(es) : g[n - 1] = c[n - 1] => g[n] = c[n]
  BY <1>1, <1>4, <1>7
<1>9. \A n \in 0..Len(es) : g[n] = c[n]
  <2>1. InStep(Len(es), g, c)
    BY <1>8 DEF InStep
  <2>2. Len(es) \in Nat
    BY <1>1
  <2> QED BY <2>1, <2>2, RecursiveAgree
<1>10. \A n \in 0..Len(es) : c[n] \in Subscription
  BY <1>3, <1>9
<1> QED BY <1>7, <1>10 DEF c

(* A further event leaves the record after the earlier ones.                *)
LEMMA AfterMore ==
    ASSUME NEW es \in Seq(B!Event), NEW e \in B!Event, NEW n \in 0..Len(es)
    PROVE  After(Append(es, e))[n] = After(es)[n]
<1> DEFINE more == Append(es, e)
           g == After(more)
           h == After(es)
<1>1. /\ more \in Seq(B!Event) /\ Len(es) \in Nat /\ Len(more) = Len(es) + 1
      /\ \A k \in 1..Len(es) : more[k] = es[k]
  BY AppendProperties, LenProperties
<1>2. Len(es) \in Nat
  BY <1>1
<1> HIDE DEF more
<1>3. g[0] = Fresh /\ \A k \in 1..Len(more) : g[k] = ProviderStep(g[k - 1], more[k])
  BY <1>1, AfterIs
<1>4. h[0] = Fresh /\ \A k \in 1..Len(es) : h[k] = ProviderStep(h[k - 1], es[k])
  BY AfterIs
<1> HIDE DEF g, h
<1>5. InStep(Len(es), g, h)
  <2>1. \A k \in 1..Len(es) : k \in 1..Len(more)
    BY <1>1
  <2> QED BY <1>1, <1>3, <1>4, <2>1 DEF InStep
<1>6. \A k \in 0..Len(es) : g[k] = h[k]
  BY <1>2, <1>5, RecursiveAgree
<1> QED BY <1>6 DEF g, h, more

(* What Billing calls the provider's subscription is the last of these.     *)
LEMMA ProviderSubIs == B!ProviderSub = After(events)[Len(events)]
BY DEF B!ProviderSub, After, IsAfter, ProviderStep, Fresh

(* An event whose price is not in the map, as the provider sends them, has  *)
(* the same outcome in the workspace as at the provider.                    *)
Plain(e) ==
    e.type \in {"subscription.canceled", "payment.failed", "unknown"} => ~ e.mapped
(* Such an event has the outcome here that it has there, whatever its type. *)
LEMMA OutcomeIsStep ==
    ASSUME NEW was \in Subscription, NEW e \in B!Event, Plain(e)
    PROVE  B!Outcome(was, e) = ProviderStep(was, e)
<1> USE DEF Subscription, ProviderStep, B!Event, B!EventType, B!Plan, B!SubStatus,
            B!Outcome, B!Patched, B!PlanOutcome, B!StatusOutcome, B!None, Plain
<1>1. CASE e.type = "checkout.completed"
  BY <1>1
<1>2. CASE e.type = "subscription.updated"
  BY <1>2
<1>3. CASE e.type \in {"subscription.canceled", "payment.failed", "unknown"}
  BY <1>3
<1> QED BY <1>1, <1>2, <1>3

(* While events were applied in order, the workspace is where the provider  *)
(* was after as many events.                                                *)
BillingInv ==
    /\ B!TypeOK /\ B!AppliedOnce
    /\ Len(events) <= MaxEvents
    /\ \A i \in DOMAIN events : Plain(events[i])
    /\ \A h \in Handler : handler[h].step # "idle" => handler[h].event \in DOMAIN events
    /\ applied \in Seq(DOMAIN events)
    /\ B!InOrder /\ ~ overruled => sub = After(events)[Len(applied)]

(* At first nothing has happened and nothing is applied.                    *)
LEMMA BillingInit == B!Init => BillingInv
<1> SUFFICES ASSUME B!Init PROVE BillingInv
  OBVIOUS
<1> USE DEF B!Init
<1>1. MaxEvents \in Nat /\ MaxEdits \in Nat
  BY CommerceAssumption DEF CommerceAssumption
<1>2. /\ events \in Seq(B!Event) /\ Len(events) = 0 /\ DOMAIN events = {}
      /\ Len(applied) = 0 /\ DOMAIN applied = {}
  OBVIOUS
<1>3. B!TypeOK
  BY <1>1, <1>2 DEF B!TypeOK, B!Plan, B!SubStatus, B!Waiting
<1>4. B!AppliedOnce
  BY <1>2, FS_EmptySet, SameCardinality DEF B!AppliedOnce
<1>5. sub = After(events)[Len(applied)]
  BY <1>2, AfterIs DEF Fresh
<1>6. \A h \in Handler : handler[h].step = "idle"
  BY DEF B!Waiting
<1>7. applied \in Seq(DOMAIN events)
  OBVIOUS
<1> QED BY <1>1, <1>2, <1>3, <1>4, <1>5, <1>6, <1>7 DEF BillingInv

(* A step that leaves Billing's variables alone keeps its invariant.        *)
LEMMA BillingStutter ==
    BillingInv /\ UNCHANGED billingVars => BillingInv'
BY DEF BillingInv, billingVars, B!TypeOK, B!AppliedOnce, B!InOrder

(* What a request to start, commit, abort or expire a checkout, and an edit *)
(* of the configuration, leave alone.                                       *)
LEMMA OthersKeep ==
    ASSUME BillingInv, UNCHANGED <<events, sub, ledger, applied, handler>>, B!TypeOK',
           overruled' = overruled
    PROVE  BillingInv'
BY DEF BillingInv, B!AppliedOnce, B!InOrder

(* There are n numbers from 1 to n.                                         *)
LEMMA CountUpTo ==
    ASSUME NEW n \in Nat PROVE IsFiniteSet(1..n) /\ Cardinality(1..n) = n
<1>1. IsFiniteSet(1..n) /\ Cardinality(1..n) = IF 1 > n THEN 0 ELSE n - 1 + 1
  BY FS_Interval
<1> QED BY <1>1

(* No more events were applied than happened.                               *)
LEMMA AppliedAreFewer ==
    ASSUME BillingInv
    PROVE  /\ IsFiniteSet(ledger) /\ Len(applied) = Cardinality(ledger)
           /\ Len(events) \in Nat /\ DOMAIN events = 1..Len(events)
           /\ Len(applied) \in Nat /\ DOMAIN applied = 1..Len(applied)
           /\ Len(applied) <= Len(events)
           /\ ledger = DOMAIN events => Len(applied) = Len(events)
<1>1. /\ events \in Seq(B!Event) /\ ledger \subseteq DOMAIN events
      /\ Len(applied) = Cardinality(ledger) /\ applied \in Seq(DOMAIN events)
  BY SameCardinality DEF BillingInv, B!TypeOK, B!AppliedOnce
<1>2. /\ Len(events) \in Nat /\ DOMAIN events = 1..Len(events)
      /\ Len(applied) \in Nat /\ DOMAIN applied = 1..Len(applied)
  BY <1>1, LenProperties
<1>3. IsFiniteSet(1..Len(events)) /\ Cardinality(1..Len(events)) = Len(events)
  BY <1>2, CountUpTo
<1>4. IsFiniteSet(ledger) /\ Cardinality(ledger) <= Cardinality(1..Len(events))
  BY <1>1, <1>2, <1>3, FS_Subset
<1> QED BY <1>1, <1>2, <1>3, <1>4

(* A new event at the provider changes nothing of the ones before it.       *)
LEMMA EventHappens ==
    ASSUME BillingInv, B!ProviderEvent PROVE BillingInv'
<1>1. MaxEvents \in Nat /\ MaxEdits \in Nat
  BY CommerceAssumption DEF CommerceAssumption
<1>2. PICK e \in B!Event : events' = Append(events, e) /\ Plain(e)
  <2>1. ASSUME NEW s \in Session, NEW m \in BOOLEAN,
               events' = Append(events, [type |-> "checkout.completed", session |-> s,
                                         mapped |-> m, status |-> "active"])
        PROVE  \E e \in B!Event : events' = Append(events, e) /\ Plain(e)
    <3> DEFINE e == [type |-> "checkout.completed", session |-> s,
                    mapped |-> m, status |-> "active"]
    <3>1. e \in B!Event /\ Plain(e)
      BY DEF B!Event, B!EventType, B!SubStatus, Plain
    <3> QED BY <2>1, <3>1
  <2>2. ASSUME NEW t \in B!EventType, NEW m \in BOOLEAN, NEW st \in B!SubStatus,
               t # "subscription.updated" => ~m,
               events' = Append(events, [type |-> t, session |-> B!None,
                                         mapped |-> m, status |-> st])
        PROVE  \E e \in B!Event : events' = Append(events, e) /\ Plain(e)
    <3> DEFINE e == [type |-> t, session |-> B!None, mapped |-> m, status |-> st]
    <3>1. e \in B!Event /\ Plain(e)
      BY <2>2 DEF B!Event, Plain
    <3> QED BY <2>2, <3>1
  <2>3. \/ \E s \in Session, m \in BOOLEAN :
            events' = Append(events, [type |-> "checkout.completed", session |-> s,
                                      mapped |-> m, status |-> "active"])
        \/ \E t \in B!EventType, m \in BOOLEAN, st \in B!SubStatus :
            /\ t # "subscription.updated" => ~m
            /\ events' = Append(events, [type |-> t, session |-> B!None,
                                         mapped |-> m, status |-> st])
    BY Zenon DEF B!ProviderEvent
  <2> QED BY <2>1, <2>2, <2>3, Zenon
<1>3. /\ Len(events) < MaxEvents
      /\ UNCHANGED <<sub, enabled, ledger, checkout, handler, edits, applied, overruled>>
  BY DEF B!ProviderEvent
<1>4. events \in Seq(B!Event)
  BY DEF BillingInv, B!TypeOK
<1>5. /\ events' \in Seq(B!Event) /\ Len(events') = Len(events) + 1
      /\ Len(events) \in Nat /\ DOMAIN events = 1..Len(events)
      /\ DOMAIN events' = 1..(Len(events) + 1)
      /\ events'[Len(events) + 1] = e
      /\ \A k \in 1..Len(events) : events'[k] = events[k]
  BY <1>2, <1>4, AppendProperties, LenProperties
<1>6. B!TypeOK'
  BY <1>3, <1>5 DEF BillingInv, B!TypeOK
<1>7. \A i \in DOMAIN events' : Plain(events'[i])
  BY <1>2, <1>5 DEF BillingInv
<1>8. applied \in Seq(DOMAIN events')
  BY <1>5 DEF BillingInv
<1>9. Len(applied) \in 0..Len(events)
  BY AppliedAreFewer
<1>10. After(events')[Len(applied)] = After(events)[Len(applied)]
  BY <1>2, <1>4, <1>9, AfterMore
<1>11. Len(events') <= MaxEvents
  BY <1>1, <1>3, <1>5
<1>12. B!AppliedOnce'
  BY <1>3 DEF BillingInv, B!AppliedOnce
<1>13. \A h \in Handler : handler'[h].step # "idle" => handler'[h].event \in DOMAIN events'
  BY <1>3, <1>5 DEF BillingInv
<1>14. B!InOrder' /\ ~ overruled' => sub' = After(events')[Len(applied')]
  BY <1>3, <1>10 DEF BillingInv, B!InOrder
<1> QED BY <1>3, <1>6, <1>7, <1>8, <1>11, <1>12, <1>13, <1>14 DEF BillingInv

(* An event is applied once; if all before it were, in their order, it      *)
(* takes the subscription to the provider's next.                           *)
LEMMA EventApplies ==
    ASSUME BillingInv, NEW h \in Handler, B!Apply(h) PROVE BillingInv'
<1> DEFINE i == handler[h].event
           e == events[i]
<1>1. /\ i \in DOMAIN events /\ i \notin ledger
      /\ sub' = B!Outcome(sub, e)
      /\ checkout' = [s \in Session |-> IF s \in B!CompletedBy(e) THEN "completed" ELSE checkout[s]]
      /\ ledger' = ledger \cup {i} /\ applied' = Append(applied, i)
      /\ handler' = [handler EXCEPT ![h] = B!Waiting]
      /\ UNCHANGED <<events, enabled, paid, edits, overruled>>
  BY DEF B!Apply, BillingInv
<1> HIDE DEF i
<1>2. /\ events \in Seq(B!Event) /\ e \in B!Event /\ Plain(e)
      /\ sub \in Subscription /\ applied \in Seq(DOMAIN events)
  BY <1>1, ElementOfSeq DEF BillingInv, B!TypeOK, Subscription
<1>3. sub' = ProviderStep(sub, e) /\ sub' \in Subscription
  BY <1>1, <1>2, OutcomeIsStep, ProviderSteps
<1> HIDE DEF e
<1>4. /\ Len(applied) \in Nat /\ DOMAIN applied = 1..Len(applied)
      /\ Len(applied') = Len(applied) + 1
      /\ DOMAIN applied' = 1..(Len(applied) + 1)
      /\ applied' \in Seq(DOMAIN events)
      /\ applied'[Len(applied) + 1] = i
      /\ \A n \in 1..Len(applied) : applied'[n] = applied[n]
  BY <1>1, <1>2, AppendProperties, LenProperties
<1>5. B!TypeOK'
  <2>1. handler' \in [Handler -> [step : {"idle", "verified", "unseen"}, event : 0..MaxEvents]]
    <3>1. MaxEvents \in Nat
      BY CommerceAssumption DEF CommerceAssumption
    <3> QED BY <1>1, <3>1 DEF BillingInv, B!TypeOK, B!Waiting
  <2>2. checkout' \in [Session -> {"absent", "uncommitted", "aborted", "pending",
                                   "completed", "expired"}]
    BY <1>1 DEF BillingInv, B!TypeOK
  <2>3. ledger' \subseteq DOMAIN events'
    BY <1>1 DEF BillingInv, B!TypeOK
  <2> QED BY <1>1, <1>3, <2>1, <2>2, <2>3 DEF BillingInv, B!TypeOK, Subscription
<1>6. B!AppliedOnce'
  <2>1. Cardinality(ledger') = Cardinality(ledger) + 1
    BY <1>1, AppliedAreFewer, FS_AddElement
  <2>2. Len(applied') = B!Cardinality(ledger')
    BY <1>4, <2>1, AppliedAreFewer, SameCardinality
  <2>3. ASSUME NEW j \in ledger' PROVE \E n \in DOMAIN applied' : applied'[n] = j
    <3>1. CASE j = i
      BY <1>4, <3>1
    <3>2. CASE j \in ledger
      <4>1. PICK n \in DOMAIN applied : applied[n] = j
        BY <3>2 DEF BillingInv, B!AppliedOnce
      <4> QED BY <1>4, <4>1
    <3> QED BY <1>1, <3>1, <3>2
  <2> QED BY <2>2, <2>3 DEF B!AppliedOnce
<1>7. ASSUME B!InOrder', ~ overruled' PROVE sub' = After(events')[Len(applied')]
  <2>1. \A n \in 1..(Len(applied) + 1) : applied'[n] = n
    BY <1>4, <1>7 DEF B!InOrder
  <2>2. i = Len(applied) + 1
    BY <1>4, <2>1
  <2>3. B!InOrder
    BY <1>4, <2>1 DEF B!InOrder
  <2>4. sub = After(events)[Len(applied)]
    BY <1>1, <1>7, <2>3 DEF BillingInv
  <2>5. i \in 1..Len(events) /\ i - 1 = Len(applied)
    <3>1. i \in 1..Len(events)
      BY <1>1, AppliedAreFewer, Zenon
    <3>2. i - 1 = Len(applied)
      BY <1>4, <2>2
    <3> QED BY <3>1, <3>2
  <2>6. After(events)[i] = ProviderStep(After(events)[i - 1], events[i])
    BY <1>2, <2>5, AfterIs
  <2> QED BY <1>1, <1>3, <1>4, <2>2, <2>4, <2>5, <2>6 DEF e
<1>8. \A g \in Handler : handler'[g].step # "idle" => handler'[g].event \in DOMAIN events'
  BY <1>1 DEF BillingInv, B!TypeOK, B!Waiting
<1> QED BY <1>1, <1>4, <1>5, <1>6, <1>7, <1>8 DEF BillingInv

(* Every step of Billing keeps its invariant.                               *)
LEMMA BillingStep ==
    ASSUME BillingInv, B!Next PROVE BillingInv'
<1>1. MaxEvents \in Nat /\ MaxEdits \in Nat
  BY CommerceAssumption DEF CommerceAssumption
<1>2. ASSUME NEW s \in Session,
             \/ B!StartCheckout(s) \/ B!CommitCheckout(s) \/ B!AbortCheckout(s)
             \/ B!ExpireStaleCheckouts(s)
      PROVE  BillingInv'
  <2>1. /\ UNCHANGED <<events, sub, enabled, ledger, handler, edits, applied, overruled>>
        /\ \E st \in {"uncommitted", "pending", "aborted", "expired"} :
             checkout' = [checkout EXCEPT ![s] = st]
    BY <1>2 DEF B!StartCheckout, B!CommitCheckout, B!AbortCheckout, B!ExpireStaleCheckouts
  <2>2. B!TypeOK'
    BY <2>1 DEF BillingInv, B!TypeOK
  <2> QED BY <2>1, <2>2, OthersKeep
<1>3. ASSUME NEW h \in Handler, NEW i \in DOMAIN events, B!ReadConfig(h, i) PROVE BillingInv'
  <2>1. /\ handler' = [handler EXCEPT ![h] = [step |-> "verified", event |-> i]]
        /\ UNCHANGED <<events, sub, enabled, ledger, checkout, edits, applied, overruled>>
    BY <1>3 DEF B!ReadConfig
  <2>2. i \in 0..MaxEvents
    BY <1>1, AppliedAreFewer DEF BillingInv
  <2> QED BY <2>1, <2>2 DEF BillingInv, B!TypeOK, B!AppliedOnce, B!InOrder
<1>4. ASSUME NEW h \in Handler, B!CheckSeen(h) PROVE BillingInv'
  <2>1. UNCHANGED <<events, sub, enabled, ledger, checkout, edits, applied, overruled>>
    BY <1>4 DEF B!CheckSeen
  <2>2. /\ handler' \in [Handler -> [step : {"idle", "verified", "unseen"}, event : 0..MaxEvents]]
        /\ \A g \in Handler : handler'[g].step # "idle" => handler'[g].event \in DOMAIN events
    BY <1>1, <1>4 DEF B!CheckSeen, BillingInv, B!TypeOK, B!Waiting
  <2> QED BY <2>1, <2>2 DEF BillingInv, B!TypeOK, B!AppliedOnce, B!InOrder
<1>5. ASSUME NEW h \in Handler, B!HandlerFails(h) PROVE BillingInv'
  <2>1. UNCHANGED <<events, sub, enabled, ledger, checkout, edits, applied, overruled>>
    BY <1>5 DEF B!HandlerFails
  <2>2. /\ handler' \in [Handler -> [step : {"idle", "verified", "unseen"}, event : 0..MaxEvents]]
        /\ \A g \in Handler : handler'[g].step # "idle" => handler'[g].event \in DOMAIN events
    BY <1>1, <1>5 DEF B!HandlerFails, BillingInv, B!TypeOK, B!Waiting
  <2> QED BY <2>1, <2>2 DEF BillingInv, B!TypeOK, B!AppliedOnce, B!InOrder
<1>6. CASE B!EditConfig
  <2>1. /\ UNCHANGED <<events, sub, ledger, checkout, handler, applied, overruled>>
        /\ enabled' \in {"on", "off", "none"} /\ edits' = edits + 1 /\ edits < MaxEdits
    BY <1>6 DEF B!EditConfig
  <2>2. B!TypeOK'
    BY <1>1, <2>1 DEF BillingInv, B!TypeOK
  <2> QED BY <2>1, <2>2, OthersKeep
<1>7. ASSUME NEW p \in B!Plan, B!SetPlan(p) PROVE BillingInv'
  <2>1. /\ UNCHANGED <<events, enabled, ledger, checkout, handler, applied>>
        /\ sub' = [sub EXCEPT !.plan = p] /\ overruled' = TRUE
        /\ edits' = edits + 1 /\ edits < MaxEdits
    BY <1>7 DEF B!SetPlan
  <2>2. sub' \in [plan : B!Plan, status : B!SubStatus] /\ edits' \in 0..MaxEdits
    BY <1>1, <2>1 DEF BillingInv, B!TypeOK
  <2> QED BY <2>1, <2>2 DEF BillingInv, B!TypeOK, B!AppliedOnce, B!InOrder
<1> QED BY <1>2, <1>3, <1>4, <1>5, <1>6, <1>7, EventHappens, EventApplies DEF B!Next

(* In order and settled, every event has been applied.                      *)
LEMMA InOrderFollows == BillingInv => B!FollowsInOrder
<1> SUFFICES ASSUME BillingInv, B!InOrder, B!Settled PROVE sub = B!ProviderSub
  BY DEF B!FollowsInOrder
<1>1. ledger = DOMAIN events /\ ~ overruled
  BY DEF B!Settled
<1>2. sub = After(events)[Len(applied)]
  BY <1>1 DEF BillingInv
<1> QED BY <1>1, <1>2, AppliedAreFewer, ProviderSubIs

(* No action of Billing touches a checkout that is over.                    *)
LEMMA CheckoutsStay ==
    ASSUME BillingInv, B!Next, NEW s \in Session,
           checkout[s] \in {"completed", "expired", "aborted"}
    PROVE  checkout'[s] = checkout[s]
<1>1. checkout \in [Session -> {"absent", "uncommitted", "aborted", "pending",
                                "completed", "expired"}]
  BY DEF BillingInv, B!TypeOK
<1>2. ASSUME NEW t \in Session,
             \/ B!StartCheckout(t) \/ B!CommitCheckout(t) \/ B!AbortCheckout(t)
             \/ B!ExpireStaleCheckouts(t)
      PROVE  checkout'[s] = checkout[s]
  BY <1>1, <1>2 DEF B!StartCheckout, B!CommitCheckout, B!AbortCheckout, B!ExpireStaleCheckouts
<1>3. ASSUME NEW h \in Handler, B!Apply(h) PROVE checkout'[s] = checkout[s]
  <2>1. \A e : s \notin B!CompletedBy(e)
    BY <1>1 DEF B!CompletedBy
  <2> QED BY <1>3, <2>1 DEF B!Apply
<1>4. CASE \/ B!ProviderEvent \/ B!EditConfig
           \/ \E p \in B!Plan : B!SetPlan(p)
           \/ \E h \in Handler : \/ \E i \in DOMAIN events : B!ReadConfig(h, i)
                                 \/ B!CheckSeen(h) \/ B!HandlerFails(h)
  BY <1>4 DEF B!ProviderEvent, B!EditConfig, B!SetPlan, B!ReadConfig, B!CheckSeen, B!HandlerFails
<1> QED BY <1>2, <1>3, <1>4, Zenon DEF B!Next

-----------------------------------------------------------------------------
(* Both components keep their invariants, whichever a behaviour exercises.  *)
CommerceInv == MeteringInv /\ BillingInv

(* Each step is one of Metering or one of Billing, and leaves the other     *)
(* alone.                                                                   *)
LEMMA CommerceKeeps == Spec => []CommerceInv
<1>1. Init => CommerceInv
  BY MeteringInit, BillingInit DEF Init, CommerceInv
<1>2. CommerceInv /\ [Next]_<<focus, meteringVars, billingVars>> => CommerceInv'
  <2> SUFFICES ASSUME CommerceInv, [Next]_<<focus, meteringVars, billingVars>>
               PROVE  CommerceInv'
    OBVIOUS
  <2>1. \/ M!Next /\ UNCHANGED billingVars
        \/ B!Next /\ UNCHANGED meteringVars
        \/ UNCHANGED meteringVars /\ UNCHANGED billingVars
    BY Zenon DEF Next
  <2>2. M!Next => MeteringInv'
    BY MeteringStep DEF CommerceInv
  <2>3. B!Next => BillingInv'
    BY BillingStep DEF CommerceInv
  <2>4. /\ UNCHANGED meteringVars => MeteringInv'
        /\ UNCHANGED billingVars => BillingInv'
    BY MeteringStutter, BillingStutter DEF CommerceInv
  <2> QED BY <2>1, <2>2, <2>3, <2>4 DEF CommerceInv
<1> QED BY <1>1, <1>2, PTL DEF Spec

(* Every answered request is charged once in the counters of all months,    *)
(* a threshold is warned of once for a plan in a month, and every provider  *)
(* event takes effect once, exactly when the ledger has it, for any number  *)
(* of requests, months, handlers and events.                                *)
THEOREM ChargesAndAppliesOnce == Spec => []Consistent
<1>1. CommerceInv => Consistent
  BY DEF CommerceInv, MeteringInv, BillingInv, Consistent, M!Consistent, B!Consistent
<1> QED BY <1>1, CommerceKeeps, PTL

(* A request is refused only at a quota, and no more are answered than the  *)
(* plan allows while no check is blind to usage under way.                  *)
THEOREM QuotaAlwaysKept == Spec => []QuotaIsKept
<1>1. CommerceInv => QuotaIsKept
  BY SerialKeepsQuota DEF CommerceInv, MeteringInv, QuotaIsKept, M!QuotaIsKept
<1> QED BY <1>1, CommerceKeeps, PTL

(* When events come to be applied in the order in which they happened, the  *)
(* workspace's subscription is the provider's, for any number of events,    *)
(* duplicates and failing handlers.                                         *)
THEOREM FollowsTheProvider == Spec => []FollowsInOrder
<1>1. CommerceInv => FollowsInOrder
  BY InOrderFollows DEF CommerceInv, FollowsInOrder
<1> QED BY <1>1, CommerceKeeps, PTL

(* A checkout that completed, expired or aborted stays as it is.            *)
THEOREM CheckoutsAreFinal == Spec => CheckoutIsFinal
<1>1. CommerceInv /\ [Next]_<<focus, meteringVars, billingVars>> =>
        [\A s \in Session : checkout[s] \in {"completed", "expired", "aborted"}
                              => checkout'[s] = checkout[s]]_billingVars
  <2> SUFFICES ASSUME CommerceInv, [Next]_<<focus, meteringVars, billingVars>>,
                      ~ UNCHANGED billingVars
               PROVE  \A s \in Session : checkout[s] \in {"completed", "expired", "aborted"}
                                           => checkout'[s] = checkout[s]
    OBVIOUS
  <2>1. B!Next
    BY Zenon DEF Next
  <2> QED BY <2>1, CheckoutsStay DEF CommerceInv
<1>2. CommerceInv /\ [Next]_<<focus, meteringVars, billingVars>> =>
        [\A s \in Session : checkout[s] \in {"completed", "expired", "aborted"}
                              => checkout'[s] = checkout[s]]_B!vars
  BY <1>1 DEF billingVars, B!vars
<1> QED BY <1>2, CommerceKeeps, PTL DEF Spec, CheckoutIsFinal, B!CheckoutIsFinal
==============================================================================
