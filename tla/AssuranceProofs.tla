--------------------------- MODULE AssuranceProofs ---------------------------
(***************************************************************************)
(* What QualityScan, AuditWorkspace and Compliance keep for any number of  *)
(* datapoints, scanners, clients and periods: scores, issues and findings  *)
(* (QualityRight, WorkspaceRight), mappings and disclosures                *)
(* (MappingsRight), the chains of filings (ChainInv), and the rows and the *)
(* evidence that trust scores are of (TrustRight).                         *)
(***************************************************************************)
EXTENDS Assurance, FiniteSetTheorems, SequenceTheorems, WellFoundedInduction, TLAPS

(* A set of natural numbers that is not empty has a least element, and a    *)
(* finite one a greatest.                                                   *)
LEMMA LeastOf ==
    ASSUME NEW T \in SUBSET Nat, T # {}
    PROVE  \E m \in T : \A n \in T : m <= n
<1> DEFINE R == OpToRel(<, Nat)
<1>1. IsWellFoundedOn(R, Nat)
  BY NatLessThanWellFounded
<1>2. \A x, y \in Nat : <<x, y>> \in R <=> x < y
  BY DEF OpToRel
<1> HIDE DEF R
<1>3. PICK m \in T : \A n \in T : ~ (<<n, m>> \in R)
  BY <1>1, WFMin
<1>4. \A n \in T : ~ (n < m)
  BY <1>2, <1>3, Zenon
<1> QED BY <1>3, <1>4

(* A finite set has an element where a function to the naturals is          *)
(* greatest.                                                                *)
LEMMA GreatestOf ==
    ASSUME NEW S, S # {}, IsFiniteSet(S), NEW f \in [S -> Nat]
    PROVE  \E m \in S : \A n \in S : f[n] <= f[m]
<1> DEFINE Above(m) == {n \in S : f[n] > f[m]}
           Counts == {Cardinality(Above(m)) : m \in S}
<1>1. \A m \in S : IsFiniteSet(Above(m)) /\ Cardinality(Above(m)) \in Nat
  BY FS_Subset, FS_CardinalityType
<1>2. PICK m \in S : \A n \in S : Cardinality(Above(m)) <= Cardinality(Above(n))
  <2>1. Counts \in SUBSET Nat /\ Counts # {}
    BY <1>1
  <2> HIDE DEF Counts
  <2>2. PICK k \in Counts : \A l \in Counts : k <= l
    BY <2>1, LeastOf
  <2>3. PICK m \in S : k = Cardinality(Above(m))
    BY <2>2 DEF Counts
  <2>4. \A n \in S : Cardinality(Above(n)) \in Counts
    BY DEF Counts
  <2> HIDE DEF Above
  <2> QED BY <2>2, <2>3, <2>4
<1>3. ASSUME NEW n \in S, f[n] > f[m] PROVE FALSE
  <2>0. f[n] \in Nat /\ f[m] \in Nat
    OBVIOUS
  <2>1. Above(n) \subseteq Above(m) /\ n \in Above(m) /\ n \notin Above(n)
    BY <1>3, <2>0
  <2> HIDE DEF Above
  <2>2. Cardinality(Above(n)) <= Cardinality(Above(m))
        /\ (Cardinality(Above(m)) = Cardinality(Above(n)) => Above(m) = Above(n))
    BY <1>1, <2>1, FS_Subset
  <2> QED BY <1>1, <1>2, <2>1, <2>2
<1> QED BY <1>3

-----------------------------------------------------------------------------
(* Trust scores.                                                            *)
Digests == {"good", "poor"}
ScoreRow == [n : Nat, digest : Digests, prev : Nat]
Linked(row, S) == row.prev = 0 \/ \E old \in S : old.n = row.prev /\ old.n < row.n
Pending(S, old) == S = {} \/ \E row \in ScoreRow : S = {row} /\ Linked(row, old)
CurrentOf(S) == {row \in S : \A next \in S : next.prev # row.n}
(* The transactions that run have read the scores; the row that one will    *)
(* write supersedes the current one, if no two of them score the datapoint. *)
ScoresRight ==
    /\ inputs \in [Datapoint -> Digests]
    /\ DOMAIN score = Datapoint /\ DOMAIN scan = Scanner
    /\ IsFiniteSet(Q!Active)
    /\ \A d \in Datapoint :
         /\ score[d] \subseteq ScoreRow /\ IsFiniteSet(score[d])
         /\ \A row \in score[d] : Linked(row, score[d])
    /\ \A s \in Q!Active :
         /\ {"op", "scores"} \subseteq DOMAIN scan[s] /\ DOMAIN scan[s].scores = Datapoint
         /\ \A d \in Datapoint : Pending(scan[s].scores[d], score[d])
    /\ \A d \in Datapoint \ forked :
         /\ \A x, y \in CurrentOf(score[d]) : x = y
         /\ \A s, t \in Q!Active : scan[s].scores[d] # {} /\ scan[t].scores[d] # {} => s = t
         /\ \A s \in Q!Active : \A row \in scan[s].scores[d], x \in CurrentOf(score[d]) : row.prev = x.n

(* The latest of several rows exists.                                       *)
LEMMA LatestExists ==
    ASSUME NEW S \in SUBSET ScoreRow, IsFiniteSet(S), S # {}
    PROVE  Q!Latest(S) \in S
<1> DEFINE f == [row \in S |-> row.n]
<1>1. f \in [S -> Nat]
  BY DEF ScoreRow
<1>2. PICK m \in S : \A o \in S : f[o] <= f[m]
  <2> HIDE DEF f
  <2> QED BY <1>1, GreatestOf
<1>3. \A o \in S : o.n <= m.n
  BY <1>2
<1> QED BY <1>3 DEF Q!Latest

(* A new score has a number that no row of its datapoint has had.           *)
LEMMA NextScoreIsNew ==
    ASSUME ScoresRight, NEW d \in Datapoint
    PROVE  Q!NextScore(d) \in Nat /\ \A row \in score[d] : row.n < Q!NextScore(d)
<1> DEFINE Ever == Q!RowsEver(d)
           N == {0} \cup {row.n : row \in Ever}
           Sets == {scan[s].scores[d] : s \in Q!Active}
<1>1. score[d] \subseteq Ever
  BY DEF Q!RowsEver
<1>2. Ever \subseteq ScoreRow
  <2>1. \A s \in Q!Active : scan[s].scores[d] \subseteq ScoreRow
    BY DEF ScoresRight, Pending
  <2> QED BY <2>1 DEF Q!RowsEver, ScoresRight
<1>3. IsFiniteSet(Ever)
  <2>1. IsFiniteSet(Sets)
    <3> DEFINE g == [s \in Q!Active |-> scan[s].scores[d]]
    <3>1. g \in Surjection(Q!Active, Sets)
      BY DEF Surjection
    <3> HIDE DEF g, Sets
    <3> QED BY <3>1, FS_Surjection DEF ScoresRight
  <2>2. \A T \in Sets : IsFiniteSet(T)
    <3>1. \A s \in Q!Active : scan[s].scores[d] = {} \/ \E row \in ScoreRow : scan[s].scores[d] = {row}
      BY DEF ScoresRight, Pending
    <3>2. ASSUME NEW s \in Q!Active PROVE IsFiniteSet(scan[s].scores[d])
      <4> DEFINE T == scan[s].scores[d]
      <4>1. T = {} \/ \E row : T = {row}
        BY <3>1
      <4> HIDE DEF T
      <4>2. IsFiniteSet(T)
        BY <4>1, FS_EmptySet, FS_Singleton
      <4> QED BY <4>2 DEF T
    <3> QED BY <3>2
  <2>3. IsFiniteSet(UNION Sets) /\ IsFiniteSet(score[d])
    <3> HIDE DEF Sets
    <3> QED BY <2>1, <2>2, FS_UNION DEF ScoresRight
  <2>4. Ever = score[d] \cup UNION Sets
    BY DEF Q!RowsEver
  <2> HIDE DEF Ever, Sets
  <2> QED BY <2>3, <2>4, FS_Union
<1>4. IsFiniteSet(N) /\ N \subseteq Nat
  <2> DEFINE M == {row.n : row \in Ever}
             g == [row \in Ever |-> row.n]
  <2>1. g \in Surjection(Ever, M)
    BY DEF Surjection
  <2>2. IsFiniteSet(M)
    <3> HIDE DEF g, M, Ever
    <3> QED BY <1>3, <2>1, FS_Surjection
  <2>3. M \subseteq Nat
    <3> HIDE DEF Ever
    <3> QED BY <1>2 DEF ScoreRow
  <2>4. N = M \cup {0}
    OBVIOUS
  <2> HIDE DEF M, N
  <2> QED BY <2>2, <2>3, <2>4, FS_AddElement
<1>5. \E m \in N : \A n \in N : n <= m
  <2> DEFINE f == [n \in N |-> n]
  <2>1. f \in [N -> Nat] /\ N # {}
    BY <1>4
  <2>2. \E m \in N : \A n \in N : f[n] <= f[m]
    <3> HIDE DEF f, N
    <3> QED BY <1>4, <2>1, GreatestOf
  <2> QED BY <2>2
<1>6. Q!Max(N) \in N /\ \A n \in N : n <= Q!Max(N)
  <2> HIDE DEF N
  <2>1. \E m \in N : \A n \in N : m >= n
    BY <1>4, <1>5
  <2> QED BY <1>4, <2>1 DEF Q!Max
<1>7. Q!NextScore(d) = 1 + Q!Max(N)
  BY DEF Q!NextScore
<1>8. \A row \in score[d] : row.n \in N
  BY <1>1
<1>9. \A row \in score[d] : row.n \in Nat /\ row.n <= Q!Max(N)
  <2> HIDE DEF N
  <2> QED BY <1>4, <1>6, <1>8
<1>10. Q!Max(N) \in Nat
  <2> HIDE DEF N
  <2> QED BY <1>4, <1>6
<1> HIDE DEF N
<1> QED BY <1>7, <1>9, <1>10

(* What scoring a datapoint will write.                                     *)
LEMMA PersistIsPending ==
    ASSUME ScoresRight, NEW d \in Datapoint
    PROVE  /\ Pending(Q!PersistTrustScore(d), score[d])
           /\ (\A x, y \in CurrentOf(score[d]) : x = y) =>
                \A row \in Q!PersistTrustScore(d), x \in CurrentOf(score[d]) : row.prev = x.n
<1> DEFINE c == Q!Current(d)
           row == [n |-> Q!NextScore(d), digest |-> Q!Digest(d),
                   prev |-> IF c = {} THEN 0 ELSE Q!Latest(c).n]
<1>1. c = CurrentOf(score[d]) /\ c \subseteq score[d]
  BY DEF Q!Current, CurrentOf
<1>2. Q!PersistTrustScore(d) = {} \/ Q!PersistTrustScore(d) = {row}
  BY DEF Q!PersistTrustScore
<1>3. c # {} => Q!Latest(c) \in c
  <2>1. c \in SUBSET ScoreRow /\ IsFiniteSet(c)
    BY <1>1, FS_Subset DEF ScoresRight
  <2> HIDE DEF c
  <2> QED BY <2>1, LatestExists
<1>4. c # {} => Q!Latest(c) \in ScoreRow /\ Q!Latest(c).n < Q!NextScore(d)
  <2> HIDE DEF c
  <2> QED BY <1>1, <1>3, NextScoreIsNew DEF ScoresRight
<1>5. row \in ScoreRow
  <2>1. Q!NextScore(d) \in Nat /\ Q!Digest(d) \in Digests
    BY NextScoreIsNew DEF Q!Digest, ScoresRight
  <2> HIDE DEF c
  <2> QED BY <1>4, <2>1 DEF ScoreRow
<1>6. Linked(row, score[d])
  <2> HIDE DEF c
  <2> QED BY <1>1, <1>3, <1>4 DEF Linked
<1>7. (\A x, y \in c : x = y) => \A x \in c : row.prev = x.n
  <2> HIDE DEF c
  <2> QED BY <1>3
<1> HIDE DEF c, row
<1> QED BY <1>1, <1>2, <1>5, <1>6, <1>7 DEF Pending

(* Steps that score nothing: a transaction goes on or ends.                 *)
LEMMA ScoresStay ==
    ASSUME ScoresRight, UNCHANGED <<score, forked>>, inputs' \in [Datapoint -> Digests],
           DOMAIN scan' = Scanner,
           \A s \in Scanner : \/ scan'[s] = scan[s]
                              \/ scan'[s] = Q!Idle
                              \/ /\ scan[s] # Q!Idle
                                 /\ {"op", "scores"} \subseteq DOMAIN scan'[s]
                                 /\ scan'[s].scores = scan[s].scores
    PROVE  ScoresRight'
<1>1. Q!Active' \subseteq Q!Active
  BY DEF Q!Active
<1>2. IsFiniteSet(Q!Active')
  BY <1>1, FS_Subset DEF ScoresRight
<1>3. \A s \in Q!Active' : /\ scan'[s].scores = scan[s].scores
                           /\ {"op", "scores"} \subseteq DOMAIN scan'[s]
  BY DEF Q!Active, ScoresRight
<1>4. \A d \in Datapoint : CurrentOf(score'[d]) = CurrentOf(score[d])
  OBVIOUS
<1> QED BY <1>1, <1>2, <1>3, <1>4 DEF ScoresRight, Linked

(* A transaction begins, and scores some datapoints.                        *)
LEMMA ScoresStart ==
    ASSUME ScoresRight, UNCHANGED <<inputs, score>>, NEW s \in Scanner, scan[s] = Q!Idle,
           NEW j, {"op", "scores"} \subseteq DOMAIN j, NEW ds \in SUBSET Datapoint,
           j.scores = Q!Scores(ds), scan' = [scan EXCEPT ![s] = j],
           forked' = forked \cup Q!AtATime(ds)
    PROVE  ScoresRight'
<1>1. DOMAIN scan' = Scanner /\ scan'[s] = j /\ \A t \in Scanner \ {s} : scan'[t] = scan[t]
  BY DEF ScoresRight
<1>2. Q!Active' \subseteq Q!Active \cup {s} /\ s \notin Q!Active
  BY <1>1 DEF Q!Active
<1>3. IsFiniteSet(Q!Active')
  BY <1>2, FS_AddElement, FS_Subset DEF ScoresRight
<1>4. DOMAIN j.scores = Datapoint
      /\ \A d \in Datapoint : j.scores[d] = IF d \in ds THEN Q!PersistTrustScore(d) ELSE {}
  BY DEF Q!Scores
<1>5. \A d \in Datapoint : Pending(j.scores[d], score[d])
  BY <1>4, PersistIsPending DEF Pending
<1>6. \A t \in Q!Active' : t = s \/ (t \in Q!Active /\ t # s /\ scan'[t] = scan[t])
  BY <1>1, <1>2 DEF Q!Active
<1>7. ASSUME NEW d \in Datapoint \ forked'
      PROVE  /\ \A x, y \in CurrentOf(score[d]) : x = y
             /\ \A t, u \in Q!Active' : scan'[t].scores[d] # {} /\ scan'[u].scores[d] # {} => t = u
             /\ \A t \in Q!Active' : \A row \in scan'[t].scores[d], x \in CurrentOf(score[d]) :
                  row.prev = x.n
  <2>1. d \notin forked /\ d \notin Q!AtATime(ds)
    BY <1>7
  <2>2. d \in ds => \A t \in Q!Active : scan[t].scores[d] = {}
    BY <2>1 DEF Q!AtATime
  <2>3. \A x, y \in CurrentOf(score[d]) : x = y
    BY <2>1 DEF ScoresRight
  <2>4. j.scores[d] # {} => d \in ds
    BY <1>4
  <2>5. \A t, u \in Q!Active' : scan'[t].scores[d] # {} /\ scan'[u].scores[d] # {} => t = u
    BY <1>1, <1>6, <2>1, <2>2, <2>4 DEF ScoresRight
  <2>6. \A row \in j.scores[d], x \in CurrentOf(score[d]) : row.prev = x.n
    BY <1>4, <2>3, PersistIsPending
  <2>7. \A t \in Q!Active' : \A row \in scan'[t].scores[d], x \in CurrentOf(score[d]) : row.prev = x.n
    BY <1>1, <1>6, <2>1, <2>6 DEF ScoresRight
  <2> QED BY <2>3, <2>5, <2>7
<1>8. \A t \in Q!Active' : /\ {"op", "scores"} \subseteq DOMAIN scan'[t] /\ DOMAIN scan'[t].scores = Datapoint
                           /\ \A d \in Datapoint : Pending(scan'[t].scores[d], score[d])
  BY <1>1, <1>4, <1>5, <1>6 DEF ScoresRight
<1>9. \A d \in Datapoint : /\ score'[d] \subseteq ScoreRow /\ IsFiniteSet(score'[d])
                           /\ \A row \in score'[d] : Linked(row, score'[d])
  BY DEF ScoresRight
<1>10. UNCHANGED <<inputs, score>>
  OBVIOUS
<1> QED BY <1>1, <1>3, <1>7, <1>8, <1>9, <1>10 DEF ScoresRight

(* What a transaction has scored is added when it commits.                  *)
LEMMA ScoresCommit ==
    ASSUME ScoresRight, UNCHANGED <<inputs, forked>>, NEW s \in Q!Active,
           score' = [d \in Datapoint |-> score[d] \cup scan[s].scores[d]],
           DOMAIN scan' = Scanner, scan'[s] = Q!Idle,
           \A t \in Scanner \ {s} :
              \/ scan'[t] = Q!Idle
              \/ /\ scan[t] # Q!Idle
                 /\ {"op", "scores"} \subseteq DOMAIN scan'[t]
                 /\ scan'[t].scores = scan[t].scores
    PROVE  ScoresRight'
<1>1. Q!Active' \subseteq Q!Active \ {s}
  BY DEF Q!Active
<1>2. IsFiniteSet(Q!Active')
  BY <1>1, FS_Subset DEF ScoresRight
<1>3. \A t \in Q!Active' : /\ scan'[t].scores = scan[t].scores
                           /\ {"op", "scores"} \subseteq DOMAIN scan'[t]
  BY DEF Q!Active
<1>4. ASSUME NEW d \in Datapoint
      PROVE  /\ score'[d] = score[d] \cup scan[s].scores[d]
             /\ score'[d] \subseteq ScoreRow /\ IsFiniteSet(score'[d])
             /\ \A row \in score'[d] : Linked(row, score'[d])
  <2>1. score'[d] = score[d] \cup scan[s].scores[d]
    OBVIOUS
  <2>2. scan[s].scores[d] = {}
        \/ \E row \in ScoreRow : scan[s].scores[d] = {row} /\ Linked(row, score[d])
    BY DEF ScoresRight, Pending
  <2>3. /\ score[d] \subseteq ScoreRow /\ IsFiniteSet(score[d])
        /\ \A row \in score[d] : Linked(row, score[d])
    BY DEF ScoresRight
  <2>4. IsFiniteSet(score'[d])
    BY <2>1, <2>2, <2>3, FS_AddElement
  <2> QED BY <2>1, <2>2, <2>3, <2>4 DEF Linked
<1>5. \A t \in Q!Active' : /\ DOMAIN scan'[t].scores = Datapoint
                           /\ \A d \in Datapoint : Pending(scan'[t].scores[d], score'[d])
  BY <1>1, <1>3, <1>4 DEF ScoresRight, Pending, Linked
<1>6. ASSUME NEW d \in Datapoint \ forked'
      PROVE  /\ \A x, y \in CurrentOf(score'[d]) : x = y
             /\ \A t, u \in Q!Active' : scan'[t].scores[d] # {} /\ scan'[u].scores[d] # {} => t = u
             /\ \A t \in Q!Active' : \A row \in scan'[t].scores[d], x \in CurrentOf(score'[d]) :
                  row.prev = x.n
  <2>1. d \in Datapoint \ forked /\ score'[d] = score[d] \cup scan[s].scores[d]
    BY <1>4, <1>6
  <2>2. CASE scan[s].scores[d] = {}
    <3>1. score'[d] = score[d]
      BY <2>1, <2>2
    <3>2. CurrentOf(score'[d]) = CurrentOf(score[d])
      BY <3>1
    <3>3. \A x, y \in CurrentOf(score'[d]) : x = y
      BY <2>1, <3>2 DEF ScoresRight
    <3>4. \A t, u \in Q!Active' : scan'[t].scores[d] # {} /\ scan'[u].scores[d] # {} => t = u
      BY <1>1, <1>3, <2>1 DEF ScoresRight
    <3>5. \A t \in Q!Active' : \A row \in scan'[t].scores[d], x \in CurrentOf(score'[d]) :
            row.prev = x.n
      BY <1>1, <1>3, <2>1, <3>2 DEF ScoresRight
    <3> QED BY <3>3, <3>4, <3>5
  <2>3. CASE scan[s].scores[d] # {}
    <3>1. PICK row \in ScoreRow : scan[s].scores[d] = {row}
      BY <2>1, <2>3 DEF ScoresRight, Pending
    <3>2. \A x \in CurrentOf(score[d]) : row.prev = x.n
      BY <2>1, <3>1 DEF ScoresRight
    <3>3. \A x \in CurrentOf(score'[d]) : x = row
      BY <2>1, <3>1, <3>2 DEF CurrentOf
    <3>4. \A t \in Q!Active' : scan'[t].scores[d] = {}
      BY <1>1, <1>3, <2>1, <2>3 DEF ScoresRight
    <3> QED BY <3>3, <3>4
  <2> QED BY <2>2, <2>3
<1> QED BY <1>2, <1>3, <1>4, <1>5, <1>6 DEF ScoresRight

(* One current score at most.                                               *)
LEMMA OneCurrent == ScoresRight => Q!OneCurrentScore
<1>0. \A S : Q!Cardinality(S) = Cardinality(S)
  BY DEF Q!Cardinality, Cardinality
<1> SUFFICES ASSUME ScoresRight, NEW d \in Datapoint \ forked
             PROVE  Cardinality(Q!Current(d)) <= 1
  BY <1>0 DEF Q!OneCurrentScore
<1> DEFINE c == Q!Current(d)
<1>1. c = CurrentOf(score[d])
  BY DEF Q!Current, CurrentOf
<1>2. \A x, y \in c : x = y
  BY <1>1 DEF ScoresRight
<1> HIDE DEF c
<1>3. CASE c = {}
  BY <1>3, FS_EmptySet DEF c
<1>4. CASE c # {}
  <2>1. PICK x : c = {x}
    BY <1>2, <1>4
  <2>2. Cardinality(c) = 1
    BY <2>1, FS_Singleton
  <2> QED BY <2>2 DEF c
<1> QED BY <1>3, <1>4

-----------------------------------------------------------------------------
(* Issues and anomalies.                                                    *)
IssueRow == [status : {"none", "open", "acknowledged", "resolved", "dismissed"},
             note : {"none", "auto", "person"}]
(* What a scan has read and written of issues nobody else has changed since *)
(* it began is true of them still, whatever happens to the others.          *)
ScanShape(r) ==
    /\ {"op", "period", "scores", "found", "missed", "rows", "since", "anomalies"} \subseteq DOMAIN r
    /\ r.op \in {"look", "upsert", "resolve", "done"}
    /\ r.op # "done" => {"todo", "looked"} \subseteq DOMAIN r
    /\ r.found \subseteq Q!Scope(r.period) /\ r.missed \subseteq Q!Scope(r.period)
    /\ r.found \cap r.missed = {}
    /\ DOMAIN r.rows \subseteq Q!Scope(r.period) /\ \A d \in DOMAIN r.rows : r.rows[d] \in IssueRow
ScanLooks(r, i) ==
    /\ r.op \in {"look", "upsert"} => r.todo \subseteq r.found /\ r.found \subseteq r.todo \cup DOMAIN r.rows
    /\ r.op = "upsert" => /\ r.todo # {} /\ r.looked \in IssueRow
                          /\ Q!Min(r.todo) \notin r.since => r.looked = i[Q!Min(r.todo)]
ScanResolves(r, i) ==
    /\ r.op = "resolve" => /\ r.todo \subseteq Q!Scope(r.period) \ r.found
                           /\ \A d \in r.todo \ r.since : Q!IsOpen(i[d])
    /\ r.op \in {"resolve", "done"} =>
         /\ r.found \subseteq DOMAIN r.rows
         /\ \A d \in r.missed \ r.since :
              \/ ~Q!IsOpen(i[d])
              \/ d \in DOMAIN r.rows
              \/ r.op = "resolve" /\ d \in r.todo
ScanWrites(r, i) ==
    \A d \in DOMAIN r.rows \ r.since :
       IF d \in r.found THEN r.rows[d] = Q!Refreshed(i[d], i[d])
       ELSE r.rows[d] = Q!AutoResolution /\ Q!IsOpen(i[d])
ScanSound(r, i) == ScanShape(r) /\ ScanLooks(r, i) /\ ScanResolves(r, i) /\ ScanWrites(r, i)
IssuesRight ==
    /\ issue \in [Datapoint -> IssueRow]
    /\ anomaly \in [Datapoint -> {"none", "open", "explained", "dismissed"}]
    /\ DOMAIN scan = Scanner
    /\ \A s \in Q!Active : ScanSound(scan[s], issue)
    /\ triage # Q!Idle => /\ {"issue", "read"} \subseteq DOMAIN triage
                          /\ triage.issue \in Datapoint /\ triage.read \in IssueRow

(* The first of what is to do is to do.                                     *)
LEMMA FirstToDo ==
    ASSUME NEW T \in SUBSET Datapoint, T # {}
    PROVE  Q!Min(T) \in T
<1>1. T \in SUBSET Nat
  BY AssuranceAssumption DEF Q!QualityScanAssumption
<1>2. \E m \in T : \A n \in T : m <= n
  BY <1>1, LeastOf
<1> QED BY <1>2 DEF Q!Min

(* What a scan looks at are datapoints.                                     *)
LEMMA ScopeIsPart == \A p : Q!Scope(p) \subseteq Datapoint
  BY DEF Q!Scope

(* Others change the issues ds, which the transaction is told.              *)
LEMMA SoundSince ==
    ASSUME NEW r, NEW i, ScanSound(r, i), NEW ds, NEW j, \A d \in Datapoint \ ds : j[d] = i[d],
           NEW q, q = [r EXCEPT !.since = @ \cup ds]
    PROVE  ScanSound(q, j)
<1>1. DOMAIN q = DOMAIN r /\ "since" \in DOMAIN r
  BY DEF ScanSound, ScanShape
<1>2. q.since = r.since \cup ds /\ \A f \in DOMAIN r \ {"since"} : q[f] = r[f]
  BY <1>1
<1>3. ScanShape(q)
  BY <1>1, <1>2 DEF ScanSound, ScanShape
<1>4. /\ q.op = r.op /\ q.found = r.found /\ q.missed = r.missed /\ q.rows = r.rows
      /\ q.period = r.period
      /\ r.op # "done" => q.todo = r.todo /\ q.looked = r.looked
  BY <1>1, <1>2 DEF ScanSound, ScanShape
<1>5. /\ DOMAIN r.rows \subseteq Datapoint /\ r.found \subseteq Datapoint /\ r.missed \subseteq Datapoint
      /\ Q!Scope(r.period) \subseteq Datapoint
  BY ScopeIsPart DEF ScanSound, ScanShape
<1>6. ScanLooks(q, j)
  <2>1. r.op = "upsert" => Q!Min(r.todo) \in Datapoint
    <3> SUFFICES ASSUME r.op = "upsert" PROVE Q!Min(r.todo) \in Datapoint
      OBVIOUS
    <3>1. r.todo \in SUBSET Datapoint /\ r.todo # {}
      BY <1>5 DEF ScanSound, ScanLooks
    <3> QED BY <3>1, FirstToDo
  <2> QED BY <1>2, <1>4, <2>1 DEF ScanSound, ScanLooks
<1>7. ScanResolves(q, j)
  BY <1>2, <1>4, <1>5 DEF ScanSound, ScanResolves
<1>8. ScanWrites(q, j)
  BY <1>2, <1>4, <1>5 DEF ScanSound, ScanWrites
<1> QED BY <1>3, <1>6, <1>7, <1>8 DEF ScanSound

(* One transaction moves and no issue changes.                              *)
LEMMA ScanMoves ==
    ASSUME IssuesRight, UNCHANGED <<issue, anomaly, triage>>, NEW s \in Scanner, NEW j,
           scan' = [scan EXCEPT ![s] = j], j = Q!Idle \/ ScanSound(j, issue)
    PROVE  IssuesRight'
<1>1. DOMAIN scan' = Scanner /\ scan'[s] = j /\ \A t \in Scanner \ {s} : scan'[t] = scan[t]
  BY DEF IssuesRight
<1>2. \A t \in Q!Active' : ScanSound(scan'[t], issue)
  BY <1>1 DEF IssuesRight, Q!Active
<1>3. issue' = issue
  OBVIOUS
<1>4. \A t \in Q!Active' : ScanSound(scan'[t], issue')
  BY <1>2, <1>3
<1> QED BY <1>1, <1>3, <1>4 DEF IssuesRight

(* Issues change, and the transactions that run are told which.             *)
LEMMA IssuesChange ==
    ASSUME IssuesRight, issue' \in [Datapoint -> IssueRow], NEW ds, NEW ended,
           \A d \in Datapoint \ ds : issue'[d] = issue[d], scan' = Q!Tells(ended, ds)
    PROVE  DOMAIN scan' = Scanner /\ \A s \in Q!Active' : ScanSound(scan'[s], issue')
<1>1. DOMAIN scan' = Scanner
      /\ \A t \in Q!Active' : scan'[t] = [scan[t] EXCEPT !.since = @ \cup ds] /\ t \in Q!Active
  BY DEF Q!Tells, Q!Active
<1>2. \A t \in Q!Active' : ScanSound(scan[t], issue)
  BY <1>1 DEF IssuesRight
<1>3. ASSUME NEW t \in Q!Active' PROVE ScanSound(scan'[t], issue')
  <2> DEFINE q == scan'[t]  r == scan[t]  i == issue  j == issue'
  <2>1. q = [r EXCEPT !.since = @ \cup ds] /\ ScanSound(r, i)
    BY <1>1, <1>2
  <2>2. \A d \in Datapoint \ ds : j[d] = i[d]
    OBVIOUS
  <2> HIDE DEF q, r, i, j
  <2>3. ScanSound(q, j)
    BY <2>1, <2>2, SoundSince
  <2> QED BY <2>3 DEF q, j
<1> QED BY <1>1, <1>3

(* The steps of a scan.                                                     *)
LEMMA ScanBegins ==
    ASSUME IssuesRight, NEW s \in Scanner, NEW p, Q!RunQualityScan(s, p)
    PROVE  IssuesRight'
<1> DEFINE j == [op |-> "look", period |-> p, scores |-> Q!Scores(Q!Scope(p)),
                 found |-> Q!Detected(Q!Scope(p)), todo |-> Q!Detected(Q!Scope(p)),
                 pool |-> {d \in Datapoint : Q!Outlies(d)}, looked |-> Q!NoIssue, rows |-> <<>>,
                 since |-> {}, anomalies |-> {}, missed |-> Q!Scope(p) \ Q!Detected(Q!Scope(p))]
<1>1. scan' = [scan EXCEPT ![s] = j] /\ UNCHANGED <<issue, anomaly, triage>>
  BY DEF Q!RunQualityScan
<1>2. /\ j.op = "look" /\ j.period = p /\ j.found = Q!Detected(Q!Scope(p)) /\ j.todo = j.found
      /\ j.missed = Q!Scope(p) \ j.found /\ j.rows = <<>>
      /\ DOMAIN j = {"op", "period", "scores", "found", "todo", "pool", "looked", "rows", "since",
                     "anomalies", "missed"}
  OBVIOUS
<1>3. Q!Detected(Q!Scope(p)) \subseteq Q!Scope(p) /\ DOMAIN (<<>>) = {}
  BY DEF Q!Detected
<1> HIDE DEF j
<1>4. ScanSound(j, issue)
  BY <1>2, <1>3 DEF ScanSound, ScanShape, ScanLooks, ScanResolves, ScanWrites
<1> QED BY <1>1, <1>4, ScanMoves

(* A scoring or a resolution that begins outside a scan writes no issue but *)
(* the one it resolves, which is open.                                      *)
LEMMA ScorerBegins ==
    ASSUME IssuesRight, NEW s \in Scanner, NEW d, Q!ScoreDatapointTrust(s, d)
    PROVE  IssuesRight'
<1> DEFINE j == [op |-> "done", period |-> None, found |-> {}, missed |-> {},
                 scores |-> Q!Scores({d}), rows |-> <<>>, since |-> {}, anomalies |-> {}]
<1>1. scan' = [scan EXCEPT ![s] = j] /\ UNCHANGED <<issue, anomaly, triage>>
  BY DEF Q!ScoreDatapointTrust
<1>2. /\ j.op = "done" /\ j.found = {} /\ j.missed = {} /\ j.rows = <<>>
      /\ DOMAIN j = {"op", "period", "scores", "found", "rows", "since", "anomalies", "missed"}
  OBVIOUS
<1>3. DOMAIN (<<>>) = {}
  OBVIOUS
<1> HIDE DEF j
<1>4. ScanSound(j, issue)
  BY <1>2, <1>3 DEF ScanSound, ScanShape, ScanLooks, ScanResolves, ScanWrites
<1> QED BY <1>1, <1>4, ScanMoves

(* A scan that is under way is an active one, and sound.                    *)
LEMMA UnderWay ==
    ASSUME IssuesRight, NEW s \in Scanner, scan[s].op \in {"look", "upsert", "resolve", "done"}
    PROVE  s \in Q!Active /\ ScanSound(scan[s], issue)
<1>1. scan[s] # Q!Idle
  BY DEF Q!Idle
<1> QED BY <1>1 DEF IssuesRight, Q!Active

(* A scan looks up the next issue: what it has read is the row, until it is *)
(* told of a change.                                                        *)
LEMMA ScanLooksUp ==
    ASSUME IssuesRight, NEW s \in Scanner, Q!LookUpIssue(s)
    PROVE  IssuesRight'
<1> DEFINE r == scan[s]
           j == [r EXCEPT !.op = "upsert", !.looked = issue[Q!Min(r.todo)]]
<1>1. scan' = [scan EXCEPT ![s] = j] /\ UNCHANGED <<issue, anomaly, triage>>
      /\ r.op = "look" /\ r.todo # {}
  BY DEF Q!LookUpIssue
<1>2. ScanSound(r, issue)
  BY <1>1, UnderWay
<1>3. Q!Min(r.todo) \in Datapoint
  <2>1. r.todo \in SUBSET Datapoint
    BY <1>1, <1>2, ScopeIsPart DEF ScanSound, ScanShape, ScanLooks
  <2> QED BY <1>1, <2>1, FirstToDo
<1> HIDE DEF r
<1>4. DOMAIN j = DOMAIN r /\ j.op = "upsert" /\ j.looked = issue[Q!Min(r.todo)]
      /\ \A f \in DOMAIN r \ {"op", "looked"} : j[f] = r[f]
  BY <1>1, <1>2 DEF ScanSound, ScanShape
<1>5. /\ j.found = r.found /\ j.missed = r.missed /\ j.rows = r.rows /\ j.period = r.period
      /\ j.todo = r.todo /\ j.since = r.since
  BY <1>1, <1>2, <1>4 DEF ScanSound, ScanShape
<1>6. issue[Q!Min(r.todo)] \in IssueRow
  BY <1>3 DEF IssuesRight
<1> HIDE DEF j
<1>7. ScanShape(j)
  BY <1>1, <1>2, <1>4, <1>5 DEF ScanSound, ScanShape
<1>8. ScanLooks(j, issue)
  BY <1>1, <1>2, <1>4, <1>5, <1>6 DEF ScanSound, ScanLooks
<1>9. ScanResolves(j, issue) /\ ScanWrites(j, issue)
  BY <1>1, <1>2, <1>4, <1>5 DEF ScanSound, ScanResolves, ScanWrites
<1>10. ScanSound(j, issue)
  BY <1>7, <1>8, <1>9 DEF ScanSound
<1> QED BY <1>1, <1>10, ScanMoves DEF r, j

(* What a scan writes is as what it read of an issue, or a new issue.       *)
LEMMA RefreshedIsIssue ==
    ASSUME NEW looked \in IssueRow, NEW row \in IssueRow
    PROVE  Q!Refreshed(looked, row) \in IssueRow
  BY DEF Q!Refreshed, IssueRow

(* It writes the issue it looked up, refreshed or new.                      *)
LEMMA ScanUpserts ==
    ASSUME IssuesRight, NEW s \in Scanner, Q!UpsertIssue(s)
    PROVE  IssuesRight'
<1> DEFINE r == scan[s]
           d == Q!Min(r.todo)
           row == Q!Refreshed(r.looked, issue[d])
           j == [r EXCEPT !.op = "look", !.todo = @ \ {d}, !.looked = Q!NoIssue,
                          !.rows = Q!Writes(@, d, row)]
<1>1. scan' = [scan EXCEPT ![s] = j] /\ UNCHANGED <<issue, anomaly, triage>>
      /\ r.op = "upsert"
  BY DEF Q!UpsertIssue
<1>2. ScanSound(r, issue)
  BY <1>1, UnderWay
<1>3. d \in r.todo /\ d \in r.found /\ d \in Q!Scope(r.period) /\ d \in Datapoint
  <2>1. r.todo \in SUBSET Datapoint /\ r.todo # {} /\ r.todo \subseteq r.found
    BY <1>1, <1>2, ScopeIsPart DEF ScanSound, ScanShape, ScanLooks
  <2>2. d \in r.todo
    BY <2>1, FirstToDo
  <2> QED BY <1>2, <2>1, <2>2 DEF ScanSound, ScanShape
<1>4. r.looked \in IssueRow /\ (d \notin r.since => r.looked = issue[d]) /\ issue[d] \in IssueRow
  BY <1>1, <1>2, <1>3 DEF ScanSound, ScanLooks, IssuesRight
<1>5. row \in IssueRow /\ (d \notin r.since => row = Q!Refreshed(issue[d], issue[d]))
  BY <1>4, RefreshedIsIssue
<1> HIDE DEF r, row
<1> HIDE DEF d
<1>6. DOMAIN j = DOMAIN r /\ j.op = "look" /\ j.todo = r.todo \ {d} /\ j.rows = Q!Writes(r.rows, d, row)
      /\ \A f \in DOMAIN r \ {"op", "todo", "looked", "rows"} : j[f] = r[f]
  BY <1>1, <1>2 DEF ScanSound, ScanShape
<1>7. /\ j.found = r.found /\ j.missed = r.missed /\ j.period = r.period /\ j.since = r.since
  BY <1>1, <1>2, <1>6 DEF ScanSound, ScanShape
<1>8. /\ DOMAIN j.rows = DOMAIN r.rows \cup {d} /\ j.rows[d] = row
      /\ \A e \in DOMAIN r.rows \ {d} : j.rows[e] = r.rows[e]
  BY <1>6 DEF Q!Writes
<1> HIDE DEF j
<1>9. ScanShape(j)
  BY <1>1, <1>2, <1>3, <1>5, <1>6, <1>7, <1>8 DEF ScanSound, ScanShape
<1>10. ScanLooks(j, issue)
  BY <1>1, <1>2, <1>3, <1>6, <1>7, <1>8 DEF ScanSound, ScanLooks
<1>11. ScanResolves(j, issue)
  BY <1>6 DEF ScanResolves
<1>12. ScanWrites(j, issue)
  BY <1>2, <1>3, <1>5, <1>7, <1>8 DEF ScanSound, ScanWrites
<1>13. ScanSound(j, issue)
  BY <1>9, <1>10, <1>11, <1>12 DEF ScanSound
<1> QED BY <1>1, <1>13, ScanMoves DEF j, r, d, row

(* It lists the open issues it did not find, to be resolved.                *)
LEMMA ScanListsStale ==
    ASSUME IssuesRight, NEW s \in Scanner, Q!ListStaleIssues(s)
    PROVE  IssuesRight'
<1> DEFINE r == scan[s]
           j == [r EXCEPT !.op = "resolve", !.todo = Q!Stale(r)]
<1>1. scan' = [scan EXCEPT ![s] = j] /\ UNCHANGED <<issue, anomaly, triage>>
      /\ r.op = "look" /\ r.todo = {}
  BY DEF Q!ListStaleIssues
<1>2. ScanSound(r, issue)
  BY <1>1, UnderWay
<1>3. \A d : d \in Q!Stale(r) <=> d \in Q!Scope(r.period) \ r.found /\ Q!IsOpen(issue[d])
  BY DEF Q!Stale
<1> HIDE DEF r
<1>4. DOMAIN j = DOMAIN r /\ j.op = "resolve" /\ j.todo = Q!Stale(r)
      /\ \A f \in DOMAIN r \ {"op", "todo"} : j[f] = r[f]
  BY <1>1, <1>2 DEF ScanSound, ScanShape
<1>5. /\ j.found = r.found /\ j.missed = r.missed /\ j.rows = r.rows /\ j.period = r.period
      /\ j.since = r.since
  BY <1>1, <1>2, <1>4 DEF ScanSound, ScanShape
<1> HIDE DEF j
<1>6. ScanShape(j) /\ ScanLooks(j, issue) /\ ScanWrites(j, issue)
  BY <1>1, <1>2, <1>4, <1>5 DEF ScanSound, ScanShape, ScanLooks, ScanWrites
<1>7. ScanResolves(j, issue)
  BY <1>1, <1>2, <1>3, <1>4, <1>5 DEF ScanSound, ScanShape, ScanLooks, ScanResolves
<1>8. ScanSound(j, issue)
  BY <1>6, <1>7 DEF ScanSound
<1> QED BY <1>1, <1>8, ScanMoves DEF j, r

(* It resolves one of them, which is open still unless it was told.         *)
LEMMA ScanAutoResolves ==
    ASSUME IssuesRight, NEW s \in Scanner, NEW d, Q!AutoResolve(s, d)
    PROVE  IssuesRight'
<1> DEFINE r == scan[s]
           j == [r EXCEPT !.todo = @ \ {d}, !.rows = Q!Writes(@, d, Q!AutoResolution)]
<1>1. scan' = [scan EXCEPT ![s] = j] /\ UNCHANGED <<issue, anomaly, triage>>
      /\ r.op = "resolve" /\ d \in r.todo
  BY DEF Q!AutoResolve
<1>2. ScanSound(r, issue)
  BY <1>1, UnderWay
<1>3. Q!AutoResolution \in IssueRow
  BY DEF Q!AutoResolution, IssueRow
<1>4. d \in Q!Scope(r.period) /\ d \notin r.found /\ (d \notin r.since => Q!IsOpen(issue[d]))
  BY <1>1, <1>2 DEF ScanSound, ScanResolves
<1> HIDE DEF r
<1>6. DOMAIN j = DOMAIN r /\ j.op = "resolve" /\ j.todo = r.todo \ {d}
      /\ j.rows = Q!Writes(r.rows, d, Q!AutoResolution)
      /\ \A f \in DOMAIN r \ {"todo", "rows"} : j[f] = r[f]
  BY <1>1, <1>2 DEF ScanSound, ScanShape
<1>7. /\ j.found = r.found /\ j.missed = r.missed /\ j.period = r.period /\ j.since = r.since
  BY <1>1, <1>2, <1>6 DEF ScanSound, ScanShape
<1>8. /\ DOMAIN j.rows = DOMAIN r.rows \cup {d} /\ j.rows[d] = Q!AutoResolution
      /\ \A e \in DOMAIN r.rows \ {d} : j.rows[e] = r.rows[e]
  BY <1>6 DEF Q!Writes
<1> HIDE DEF j
<1>9. ScanShape(j) /\ ScanLooks(j, issue)
  BY <1>1, <1>2, <1>3, <1>4, <1>6, <1>7, <1>8 DEF ScanSound, ScanShape, ScanLooks
<1>10. ScanResolves(j, issue)
  BY <1>1, <1>2, <1>4, <1>6, <1>7, <1>8 DEF ScanSound, ScanResolves
<1>11. ScanWrites(j, issue)
  BY <1>2, <1>4, <1>7, <1>8 DEF ScanSound, ScanWrites
<1>12. ScanSound(j, issue)
  BY <1>9, <1>10, <1>11 DEF ScanSound
<1> QED BY <1>1, <1>12, ScanMoves DEF j, r

(* It flags the outliers: no issue changes.                                 *)
LEMMA ScanFindsAnomalies ==
    ASSUME IssuesRight, NEW s \in Scanner, Q!ScanAnomalies(s)
    PROVE  IssuesRight'
<1> DEFINE r == scan[s]
           seen == {d \in r.pool : Q!InScope(d, r.period) /\ anomaly[d] = "none"}
           j == [r EXCEPT !.op = "done", !.anomalies = seen]
<1>1. scan' = [scan EXCEPT ![s] = j] /\ UNCHANGED <<issue, anomaly, triage>>
      /\ r.op = "resolve" /\ r.todo = {}
  BY DEF Q!ScanAnomalies
<1>2. ScanSound(r, issue)
  BY <1>1, UnderWay
<1> HIDE DEF r, seen
<1>4. DOMAIN j = DOMAIN r /\ j.op = "done" /\ \A f \in DOMAIN r \ {"op", "anomalies"} : j[f] = r[f]
  BY <1>1, <1>2 DEF ScanSound, ScanShape
<1>5. /\ j.found = r.found /\ j.missed = r.missed /\ j.rows = r.rows /\ j.period = r.period
      /\ j.since = r.since
  BY <1>1, <1>2, <1>4 DEF ScanSound, ScanShape
<1> HIDE DEF j
<1>6. ScanShape(j) /\ ScanLooks(j, issue) /\ ScanWrites(j, issue) /\ ScanResolves(j, issue)
  BY <1>1, <1>2, <1>4, <1>5 DEF ScanSound, ScanShape, ScanLooks, ScanWrites, ScanResolves
<1>7. ScanSound(j, issue)
  BY <1>6 DEF ScanSound
<1> QED BY <1>1, <1>7, ScanMoves DEF j, r, seen

(* A scan commits, a person triages, or data changes.                       *)
LEMMA ScanCommits ==
    ASSUME IssuesRight, NEW s \in Scanner, Q!Commit(s)
    PROVE  IssuesRight'
<1> DEFINE r == scan[s]
<1>1. /\ r.op = "done" /\ issue' = Q!IssuesAfter(r) /\ scan' = Q!Tells(s, DOMAIN r.rows)
      /\ anomaly' = [d \in Datapoint |-> IF d \in r.anomalies THEN "open" ELSE anomaly[d]]
      /\ UNCHANGED triage
  BY DEF Q!Commit
<1>2. ScanShape(r)
  BY <1>1, UnderWay DEF ScanSound
<1>3. issue' \in [Datapoint -> IssueRow]
      /\ \A d \in Datapoint \ DOMAIN r.rows : issue'[d] = issue[d]
  BY <1>1, <1>2 DEF Q!IssuesAfter, ScanShape, IssuesRight
<1>4. anomaly' \in [Datapoint -> {"none", "open", "explained", "dismissed"}]
  BY <1>1 DEF IssuesRight
<1> HIDE DEF r
<1>5. DOMAIN scan' = Scanner /\ \A t \in Q!Active' : ScanSound(scan'[t], issue')
  BY <1>1, <1>3, IssuesChange
<1> QED BY <1>1, <1>3, <1>4, <1>5 DEF IssuesRight

(* A person triages an issue: the scans under way are told of it.           *)
LEMMA IssueUpdated ==
    ASSUME IssuesRight, NEW status \in {"acknowledged", "resolved", "dismissed"},
           NEW note \in {"none", "person"}, Q!UpdateIssueStatus(status, note)
    PROVE  IssuesRight'
<1> DEFINE d == triage.issue
           kept == IF status \in {"resolved", "dismissed"} THEN triage.read.note ELSE "none"
           row == [status |-> status, note |-> IF note = "none" THEN kept ELSE note]
<1>1. /\ issue' = [issue EXCEPT ![d] = row] /\ triage' = Q!Idle /\ scan' = Q!Tells(None, {d})
      /\ UNCHANGED anomaly /\ triage # Q!Idle
  BY DEF Q!UpdateIssueStatus
<1>2. triage.read.note \in {"none", "auto", "person"} /\ d \in Datapoint
  BY <1>1 DEF IssuesRight, IssueRow
<1>3. row \in IssueRow
  BY <1>2 DEF IssueRow
<1> HIDE DEF d, row
<1>4. issue' \in [Datapoint -> IssueRow] /\ \A e \in Datapoint \ {d} : issue'[e] = issue[e]
  BY <1>1, <1>2, <1>3 DEF IssuesRight
<1>5. DOMAIN scan' = Scanner /\ \A t \in Q!Active' : ScanSound(scan'[t], issue')
  BY <1>1, <1>4, IssuesChange
<1> QED BY <1>1, <1>4, <1>5 DEF IssuesRight

(* Steps that leave issues and scans as they are.                           *)
LEMMA IssuesStay ==
    ASSUME IssuesRight, UNCHANGED <<issue, scan>>,
           anomaly' \in [Datapoint -> {"none", "open", "explained", "dismissed"}],
           triage' = triage \/ /\ {"issue", "read"} \subseteq DOMAIN triage'
                               /\ triage'.issue \in Datapoint /\ triage'.read \in IssueRow
    PROVE  IssuesRight'
<1>1. Q!Active' = Q!Active
  BY DEF Q!Active
<1>2. \A s \in Q!Active' : ScanSound(scan'[s], issue')
  BY <1>1 DEF IssuesRight
<1> QED BY <1>2 DEF IssuesRight

-----------------------------------------------------------------------------
(* The invariant of the scans.                                              *)
QualityRight == ScoresRight /\ IssuesRight

(* The rows are of their types, and a score links to an earlier one of its  *)
(* datapoint.                                                               *)
LEMMA QualityTypes == QualityRight => Q!TypeOK
<1> SUFFICES ASSUME QualityRight, NEW d \in Datapoint
             PROVE  /\ issue[d].status \in {"none", "open", "acknowledged", "resolved", "dismissed"}
                    /\ issue[d].note \in {"none", "auto", "person"}
                    /\ anomaly[d] \in {"none", "open", "explained", "dismissed"}
                    /\ \A row \in score[d] :
                         row.prev = 0 \/ \E old \in score[d] : old.n = row.prev /\ old.n < row.n
  BY DEF Q!TypeOK
<1>1. issue[d] \in IssueRow /\ anomaly[d] \in {"none", "open", "explained", "dismissed"}
  BY DEF QualityRight, IssuesRight
<1>2. \A row \in score[d] : Linked(row, score[d])
  BY DEF QualityRight, ScoresRight
<1> QED BY <1>1, <1>2 DEF IssueRow, Linked

(* At first nothing is under way, and what earlier scans left is in order.  *)
LEMMA QualityStarts == Q!Init => QualityRight
<1> SUFFICES ASSUME Q!Init PROVE QualityRight
  OBVIOUS
<1>1. PICK past \in SUBSET {d \in Datapoint : inputs[d] = "good"} :
         /\ score = [d \in Datapoint |->
                       IF d \in past THEN {[n |-> 1, digest |-> "poor", prev |-> 0],
                                           [n |-> 2, digest |-> "good", prev |-> 1]} ELSE {}]
         /\ issue = [d \in Datapoint |-> IF d \in past THEN Q!AutoResolution ELSE Q!NoIssue]
         /\ anomaly = [d \in Datapoint |-> IF d \in past THEN "open" ELSE "none"]
  BY DEF Q!Init
<1>2. Q!Active = {} /\ DOMAIN scan = Scanner
  BY DEF Q!Init, Q!Active
<1>3. inputs \in [Datapoint -> Digests]
  BY DEF Q!Init, Digests
<1>4. Q!AutoResolution \in IssueRow /\ Q!NoIssue \in IssueRow
  BY DEF Q!AutoResolution, Q!NoIssue, IssueRow
<1>5. IssuesRight
  BY <1>1, <1>2, <1>4 DEF IssuesRight, Q!Init
<1> DEFINE a == [n |-> 1, digest |-> "poor", prev |-> 0]
           b == [n |-> 2, digest |-> "good", prev |-> 1]
<1>6. a \in ScoreRow /\ b \in ScoreRow
  BY DEF ScoreRow, Digests
<1>7. IsFiniteSet({a, b}) /\ IsFiniteSet({})
  <2> HIDE DEF a, b
  <2>1. IsFiniteSet({a} \cup {b})
    BY FS_Singleton, FS_Union
  <2>2. {a, b} = {a} \cup {b}
    OBVIOUS
  <2> QED BY <2>1, <2>2, FS_EmptySet
<1>8. a.n = 1 /\ b.n = 2 /\ a.prev = 0 /\ b.prev = 1
  OBVIOUS
<1>9. \A d \in Datapoint : score[d] = IF d \in past THEN {a, b} ELSE {}
  BY <1>1
<1> HIDE DEF a, b
<1>10. ASSUME NEW d \in Datapoint
       PROVE  /\ score[d] \subseteq ScoreRow /\ IsFiniteSet(score[d])
              /\ \A row \in score[d] : Linked(row, score[d])
              /\ \A x, y \in CurrentOf(score[d]) : x = y
  BY <1>6, <1>7, <1>8, <1>9 DEF Linked, CurrentOf
<1>11. IsFiniteSet(Q!Active)
  BY <1>2, <1>7
<1>12. DOMAIN score = Datapoint
  BY <1>1
<1> QED BY <1>2, <1>3, <1>5, <1>10, <1>11, <1>12 DEF QualityRight, ScoresRight

(* Every step of scores, issues and anomalies keeps them right.             *)
LEMMA QualityStep == QualityRight /\ Q!Next => QualityRight'
<1> SUFFICES ASSUME QualityRight, Q!Next PROVE ScoresRight' /\ IssuesRight'
  BY DEF QualityRight
<1> USE DEF QualityRight
<1>1. ASSUME NEW d \in Datapoint, Q!DataChanges(d) PROVE ScoresRight' /\ IssuesRight'
  <2>1. UNCHANGED <<score, issue, anomaly, scan, triage, forked>>
        /\ inputs' \in [Datapoint -> Digests]
    BY <1>1 DEF Q!DataChanges, ScoresRight, Digests
  <2>2. DOMAIN scan' = Scanner /\ anomaly' \in [Datapoint -> {"none", "open", "explained", "dismissed"}]
    BY <2>1 DEF IssuesRight
  <2> QED BY <2>1, <2>2, ScoresStay, IssuesStay
<1>2. ASSUME NEW d \in Datapoint, Q!BeginTriage(d) PROVE ScoresRight' /\ IssuesRight'
  <2>1. /\ UNCHANGED <<inputs, score, issue, anomaly, scan, forked>>
        /\ triage' = [op |-> "triage", issue |-> d, read |-> issue[d]]
    BY <1>2 DEF Q!BeginTriage
  <2>2. inputs' \in [Datapoint -> Digests] /\ DOMAIN scan' = Scanner /\ issue[d] \in IssueRow
        /\ anomaly' \in [Datapoint -> {"none", "open", "explained", "dismissed"}]
    BY <2>1 DEF IssuesRight, ScoresRight
  <2>3. /\ {"issue", "read"} \subseteq DOMAIN triage' /\ triage'.issue \in Datapoint
        /\ triage'.read \in IssueRow
    BY <2>1, <2>2
  <2> QED BY <2>1, <2>2, <2>3, ScoresStay, IssuesStay
<1>3. ASSUME NEW d \in Datapoint, NEW status \in {"open", "dismissed"}, Q!UpdateAnomalyStatus(d, status)
      PROVE  ScoresRight' /\ IssuesRight'
  <2>1. /\ UNCHANGED <<inputs, score, issue, scan, triage, forked>>
        /\ anomaly' = [anomaly EXCEPT ![d] = status]
    BY <1>3 DEF Q!UpdateAnomalyStatus
  <2>2. inputs' \in [Datapoint -> Digests] /\ DOMAIN scan' = Scanner
        /\ anomaly' \in [Datapoint -> {"none", "open", "explained", "dismissed"}]
    BY <2>1 DEF IssuesRight, ScoresRight
  <2> QED BY <2>1, <2>2, ScoresStay, IssuesStay
<1>4. ASSUME NEW status \in {"acknowledged", "resolved", "dismissed"}, NEW note \in {"none", "person"},
             Q!UpdateIssueStatus(status, note)
      PROVE  ScoresRight' /\ IssuesRight'
  <2>1. UNCHANGED <<inputs, score, forked>> /\ scan' = Q!Tells(None, {triage.issue})
    BY <1>4 DEF Q!UpdateIssueStatus
  <2>2. inputs' \in [Datapoint -> Digests] /\ DOMAIN scan' = Scanner
    BY <2>1 DEF Q!Tells, ScoresRight
  <2>3. ASSUME NEW s \in Scanner
        PROVE  \/ scan'[s] = Q!Idle
               \/ /\ scan[s] # Q!Idle
                  /\ {"op", "scores"} \subseteq DOMAIN scan'[s] /\ scan'[s].scores = scan[s].scores
    BY <2>1 DEF Q!Tells, ScoresRight, Q!Active
  <2>4. ScoresRight'
    BY <2>1, <2>2, <2>3, ScoresStay
  <2> QED BY <1>4, <2>4, IssueUpdated
<1>5. ASSUME NEW s \in Scanner, NEW d \in Datapoint, Q!ScoreDatapointTrust(s, d)
      PROVE  ScoresRight' /\ IssuesRight'
  <2> DEFINE j == [op |-> "done", period |-> None, found |-> {}, missed |-> {},
                   scores |-> Q!Scores({d}), rows |-> <<>>, since |-> {}, anomalies |-> {}]
             ds == {d}
  <2>1. /\ scan[s] = Q!Idle /\ scan' = [scan EXCEPT ![s] = j]
        /\ forked' = forked \cup Q!AtATime(ds) /\ UNCHANGED <<inputs, score>>
    BY <1>5 DEF Q!ScoreDatapointTrust
  <2>2. {"op", "scores"} \subseteq DOMAIN j /\ j.scores = Q!Scores(ds) /\ ds \subseteq Datapoint
    OBVIOUS
  <2> HIDE DEF j, ds
  <2>3. ScoresRight'
    BY <2>1, <2>2, ScoresStart
  <2> QED BY <1>5, <2>3, ScorerBegins
<1>6. ASSUME NEW s \in Scanner, NEW p \in ReportingPeriod \cup {None}, Q!RunQualityScan(s, p)
      PROVE  ScoresRight' /\ IssuesRight'
  <2> DEFINE j == [op |-> "look", period |-> p, scores |-> Q!Scores(Q!Scope(p)),
                   found |-> Q!Detected(Q!Scope(p)), todo |-> Q!Detected(Q!Scope(p)),
                   pool |-> {d \in Datapoint : Q!Outlies(d)}, looked |-> Q!NoIssue, rows |-> <<>>,
                   since |-> {}, anomalies |-> {}, missed |-> Q!Scope(p) \ Q!Detected(Q!Scope(p))]
             ds == Q!Scope(p)
  <2>1. /\ scan[s] = Q!Idle /\ scan' = [scan EXCEPT ![s] = j]
        /\ forked' = forked \cup Q!AtATime(ds) /\ UNCHANGED <<inputs, score>>
    BY <1>6 DEF Q!RunQualityScan
  <2>2. {"op", "scores"} \subseteq DOMAIN j /\ j.scores = Q!Scores(ds) /\ ds \subseteq Datapoint
    BY ScopeIsPart
  <2> HIDE DEF j, ds
  <2>3. ScoresRight'
    BY <2>1, <2>2, ScoresStart
  <2> QED BY <1>6, <2>3, ScanBegins
<1>7. ASSUME NEW s \in Scanner,
             \/ Q!LookUpIssue(s) \/ Q!UpsertIssue(s) \/ Q!ListStaleIssues(s)
             \/ Q!ScanAnomalies(s) \/ \E d \in Datapoint : Q!AutoResolve(s, d)
      PROVE  ScoresRight'
  <2> DEFINE r == scan[s]
  <2>1. r.op \in {"look", "upsert", "resolve"} /\ UNCHANGED <<inputs, score, forked>>
    BY <1>7 DEF Q!LookUpIssue, Q!UpsertIssue, Q!ListStaleIssues, Q!ScanAnomalies, Q!AutoResolve
  <2>2. r # Q!Idle /\ {"op", "scores"} \subseteq DOMAIN r
    BY <2>1 DEF Q!Idle, ScoresRight, Q!Active
  <2>3. DOMAIN scan = Scanner
    BY DEF ScoresRight
  <2>4. PICK j : scan' = [scan EXCEPT ![s] = j] /\ DOMAIN j = DOMAIN r /\ j.scores = r.scores
    <3>1. CASE Q!LookUpIssue(s)
      <4> DEFINE j == [r EXCEPT !.op = "upsert", !.looked = issue[Q!Min(r.todo)]]
      <4>1. scan' = [scan EXCEPT ![s] = j]
        BY <3>1 DEF Q!LookUpIssue
      <4>2. DOMAIN j = DOMAIN r /\ j.scores = r.scores
        BY <2>2
      <4> QED BY <4>1, <4>2
    <3>2. CASE Q!UpsertIssue(s)
      <4> DEFINE d == Q!Min(r.todo)
                 j == [r EXCEPT !.op = "look", !.todo = @ \ {d}, !.looked = Q!NoIssue,
                         !.rows = Q!Writes(@, d, Q!Refreshed(r.looked, issue[d]))]
      <4>1. scan' = [scan EXCEPT ![s] = j]
        BY <3>2 DEF Q!UpsertIssue
      <4>2. DOMAIN j = DOMAIN r /\ j.scores = r.scores
        BY <2>2
      <4> QED BY <4>1, <4>2
    <3>3. CASE Q!ListStaleIssues(s)
      <4> DEFINE j == [r EXCEPT !.op = "resolve", !.todo = Q!Stale(r)]
      <4>1. scan' = [scan EXCEPT ![s] = j]
        BY <3>3 DEF Q!ListStaleIssues
      <4>2. DOMAIN j = DOMAIN r /\ j.scores = r.scores
        BY <2>2
      <4> QED BY <4>1, <4>2
    <3>4. CASE Q!ScanAnomalies(s)
      <4> DEFINE seen == {d \in r.pool : Q!InScope(d, r.period) /\ anomaly[d] = "none"}
                 j == [r EXCEPT !.op = "done", !.anomalies = seen]
      <4>1. scan' = [scan EXCEPT ![s] = j]
        BY <3>4 DEF Q!ScanAnomalies
      <4>2. DOMAIN j = DOMAIN r /\ j.scores = r.scores
        BY <2>2
      <4> QED BY <4>1, <4>2
    <3>5. CASE \E d \in Datapoint : Q!AutoResolve(s, d)
      <4>0. PICK d \in Datapoint : Q!AutoResolve(s, d)
        BY <3>5
      <4> DEFINE j == [r EXCEPT !.todo = @ \ {d}, !.rows = Q!Writes(@, d, Q!AutoResolution)]
      <4>1. scan' = [scan EXCEPT ![s] = j]
        BY <4>0 DEF Q!AutoResolve
      <4>2. DOMAIN j = DOMAIN r /\ j.scores = r.scores
        BY <2>2
      <4> QED BY <4>1, <4>2
    <3> QED BY <1>7, <3>1, <3>2, <3>3, <3>4, <3>5
  <2>5. DOMAIN scan' = Scanner /\ scan'[s] = j /\ \A t \in Scanner \ {s} : scan'[t] = scan[t]
    BY <2>3, <2>4
  <2>6. inputs' \in [Datapoint -> Digests]
    BY <2>1 DEF ScoresRight
  <2> QED BY <2>1, <2>2, <2>4, <2>5, <2>6, ScoresStay
<1>8. ASSUME NEW s \in Scanner, Q!Commit(s) PROVE ScoresRight' /\ IssuesRight'
  <2>1. /\ scan[s].op = "done" /\ scan' = Q!Tells(s, DOMAIN scan[s].rows)
        /\ score' = [d \in Datapoint |-> score[d] \cup scan[s].scores[d]]
        /\ UNCHANGED <<inputs, forked>>
    BY <1>8 DEF Q!Commit
  <2>2. s \in Q!Active
    BY <2>1, UnderWay
  <2>3. DOMAIN scan' = Scanner /\ scan'[s] = Q!Idle
    BY <2>1 DEF Q!Tells
  <2>4. ASSUME NEW t \in Scanner
        PROVE  \/ scan'[t] = Q!Idle
               \/ /\ scan[t] # Q!Idle
                  /\ {"op", "scores"} \subseteq DOMAIN scan'[t] /\ scan'[t].scores = scan[t].scores
    BY <2>1 DEF Q!Tells, ScoresRight, Q!Active
  <2>5. ScoresRight'
    BY <2>1, <2>2, <2>3, <2>4, ScoresCommit
  <2> QED BY <1>8, <2>5, ScanCommits
<1>9. ASSUME NEW s \in Scanner, Q!Abort(s) PROVE ScoresRight' /\ IssuesRight'
  <2>1. /\ scan' = [scan EXCEPT ![s] = Q!Idle]
        /\ UNCHANGED <<inputs, score, issue, anomaly, triage, forked>>
    BY <1>9 DEF Q!Abort
  <2>2. DOMAIN scan' = Scanner /\ inputs' \in [Datapoint -> Digests]
        /\ \A t \in Scanner : scan'[t] = scan[t] \/ scan'[t] = Q!Idle
    BY <2>1 DEF ScoresRight
  <2>3. ScoresRight'
    BY <2>1, <2>2, ScoresStay
  <2>4. IssuesRight'
    BY <2>1, ScanMoves
  <2> QED BY <2>3, <2>4
<1> QED BY <1>1, <1>2, <1>3, <1>4, <1>5, <1>6, <1>7, <1>8, <1>9, ScanLooksUp, ScanUpserts,
           ScanListsStale, ScanAutoResolves, ScanFindsAnomalies DEF Q!Next

-----------------------------------------------------------------------------
(* What a step may do to a decision.                                        *)
Sticky ==
    \A d \in Datapoint :
       issue[d].status = "dismissed" /\ issue'[d].status # "dismissed" =>
         Q!Triaged(d) \/ \E s \in Scanner : Q!Commits(s) /\ d \in scan[s].since
Decides ==
    \A s \in Scanner :
       Q!Commits(s) =>
         \A d \in Datapoint \ scan[s].since :
           /\ d \in scan[s].found => issue'[d] # Q!NoIssue /\ ~Q!AutoResolved(issue'[d])
           /\ d \in scan[s].missed => ~Q!IsOpen(issue'[d])
           /\ ~Q!InScope(d, scan[s].period) => issue'[d] = issue[d]

(* A scan that commits decides what it should, of issues nobody else has    *)
(* changed.                                                                 *)
LEMMA ScansDecide == QualityRight => Decides
<1> SUFFICES ASSUME QualityRight, NEW s \in Scanner, Q!Commits(s),
                    NEW d \in Datapoint \ scan[s].since
             PROVE  /\ d \in scan[s].found => issue'[d] # Q!NoIssue /\ ~Q!AutoResolved(issue'[d])
                    /\ d \in scan[s].missed => ~Q!IsOpen(issue'[d])
                    /\ ~Q!InScope(d, scan[s].period) => issue'[d] = issue[d]
  BY DEF Decides
<1> DEFINE r == scan[s]
<1>1. r.op = "done" /\ issue'[d] = IF d \in DOMAIN r.rows THEN r.rows[d] ELSE issue[d]
  BY DEF Q!Commits, Q!IssuesAfter
<1>2. ScanSound(r, issue)
  BY <1>1, UnderWay DEF QualityRight
<1>3. issue[d] \in IssueRow
  BY DEF QualityRight, IssuesRight
<1> HIDE DEF r
<1>4. d \in r.found => issue'[d] = Q!Refreshed(issue[d], issue[d])
  <2> SUFFICES ASSUME d \in r.found PROVE issue'[d] = Q!Refreshed(issue[d], issue[d])
    OBVIOUS
  <2>1. d \in DOMAIN r.rows /\ d \notin r.since
    BY <1>1, <1>2 DEF ScanSound, ScanResolves, r
  <2>2. r.rows[d] = Q!Refreshed(issue[d], issue[d])
    BY <1>2, <2>1 DEF ScanSound, ScanWrites
  <2> QED BY <1>1, <2>1, <2>2
<1>5. Q!Refreshed(issue[d], issue[d]) # Q!NoIssue /\ ~Q!AutoResolved(Q!Refreshed(issue[d], issue[d]))
  BY <1>3 DEF Q!Refreshed, Q!NoIssue, Q!AutoResolved, Q!AutoResolution, IssueRow
<1>6. d \in r.missed => ~Q!IsOpen(issue'[d])
  <2> SUFFICES ASSUME d \in r.missed PROVE ~Q!IsOpen(issue'[d])
    OBVIOUS
  <2>1. d \notin r.since /\ d \notin r.found
    BY <1>2 DEF ScanSound, ScanShape, r
  <2>2. d \in DOMAIN r.rows => r.rows[d] = Q!AutoResolution
    BY <1>2, <2>1 DEF ScanSound, ScanWrites
  <2>3. d \notin DOMAIN r.rows => ~Q!IsOpen(issue[d])
    BY <1>1, <1>2, <2>1 DEF ScanSound, ScanResolves
  <2>4. ~Q!IsOpen(Q!AutoResolution)
    BY DEF Q!IsOpen, Q!AutoResolution
  <2> QED BY <1>1, <2>2, <2>3, <2>4
<1>7. d \notin Q!Scope(r.period) => issue'[d] = issue[d]
  BY <1>1, <1>2 DEF ScanSound, ScanShape
<1>8. d \in Q!Scope(r.period) => Q!InScope(d, r.period)
  BY DEF Q!Scope
<1> QED BY <1>4, <1>5, <1>6, <1>7, <1>8 DEF r

(* A dismissed issue stays dismissed, unless a person triages it or a scan  *)
(* commits that was under way when it was dismissed.                        *)
LEMMA DismissedStays == QualityRight /\ Q!Next => Sticky
<1> SUFFICES ASSUME QualityRight, Q!Next, NEW d \in Datapoint,
                    issue[d].status = "dismissed", issue'[d].status # "dismissed"
             PROVE  Q!Triaged(d) \/ \E s \in Scanner : Q!Commits(s) /\ d \in scan[s].since
  BY DEF Sticky
<1>1. \/ \E s \in Scanner : Q!Commit(s)
      \/ \E status, note : Q!UpdateIssueStatus(status, note)
      \/ UNCHANGED issue
  BY DEF Q!Next, Q!DataChanges, Q!BeginTriage, Q!UpdateAnomalyStatus, Q!ScoreDatapointTrust,
         Q!AutoResolve, Q!RunQualityScan, Q!LookUpIssue, Q!UpsertIssue, Q!ListStaleIssues,
         Q!ScanAnomalies, Q!Abort
<1>2. ASSUME NEW s \in Scanner, Q!Commit(s) PROVE Q!Commits(s) /\ d \in scan[s].since
  <2> DEFINE r == scan[s]
  <2>1. r.op = "done" /\ issue' = Q!IssuesAfter(r) /\ scan'[s] = Q!Idle
    BY <1>2 DEF Q!Commit, Q!Tells
  <2>2. issue'[d] = IF d \in DOMAIN r.rows THEN r.rows[d] ELSE issue[d]
    BY <2>1 DEF Q!IssuesAfter
  <2>3. ScanSound(r, issue)
    BY <2>1, UnderWay DEF QualityRight
  <2>4. issue[d] \in IssueRow
    BY DEF QualityRight, IssuesRight
  <2> HIDE DEF r
  <2>5. d \in DOMAIN r.rows
    BY <2>2
  <2>6. Q!Refreshed(issue[d], issue[d]).status = "dismissed" /\ ~Q!IsOpen(issue[d])
    BY <2>4 DEF Q!Refreshed, Q!AutoResolved, Q!AutoResolution, Q!IsOpen
  <2>7. d \in r.since
    BY <2>2, <2>3, <2>5, <2>6 DEF ScanSound, ScanWrites
  <2> QED BY <2>1, <2>7 DEF Q!Commits, r
<1>3. ASSUME NEW status, NEW note, Q!UpdateIssueStatus(status, note) PROVE Q!Triaged(d)
  <2>1. triage # Q!Idle /\ triage' = Q!Idle
        /\ issue' = [issue EXCEPT ![triage.issue] =
                       [status |-> status,
                        note |-> IF note = "none"
                                 THEN IF status \in {"resolved", "dismissed"} THEN triage.read.note ELSE "none"
                                 ELSE note]]
    BY <1>3 DEF Q!UpdateIssueStatus
  <2>2. DOMAIN issue = Datapoint
    BY DEF QualityRight, IssuesRight
  <2>3. d = triage.issue
    BY <2>1, <2>2
  <2> QED BY <2>1, <2>3 DEF Q!Triaged
<1> QED BY <1>1, <1>2, <1>3

-----------------------------------------------------------------------------
(* The audit workspace.                                                     *)
FindingRow == [status : {"none", "open", "acknowledged", "remediating", "resolved", "accepted_risk",
                         "dismissed"},
               note : {"none", "auto", "person"}]
(* A simulation is like a scan, but looks at every subject it does not      *)
(* itemise, and i are the findings, c the requests there have been.         *)
SimShape(q, c) ==
    q.op \in {"look", "upsert", "resolve"} =>
       /\ {"op", "startedAt", "found", "todo", "looked", "rows", "since"} \subseteq DOMAIN q
       /\ q.startedAt \in Nat /\ q.startedAt <= c
       /\ q.found \subseteq Datapoint /\ q.todo \subseteq Datapoint
       /\ DOMAIN q.rows \subseteq Datapoint /\ \A f \in DOMAIN q.rows : q.rows[f] \in FindingRow
SimLooks(q, i) ==
    /\ q.op \in {"look", "upsert"} => q.todo \subseteq q.found /\ q.found \subseteq q.todo \cup DOMAIN q.rows
    /\ q.op = "upsert" => /\ q.todo # {} /\ q.looked \in FindingRow
                          /\ Q!Min(q.todo) \notin q.since => q.looked = i[Q!Min(q.todo)]
SimResolves(q, i) ==
    q.op = "resolve" =>
       /\ q.todo \cap q.found = {} /\ \A f \in q.todo \ q.since : W!IsOpen(i[f])
       /\ q.found \subseteq DOMAIN q.rows
       /\ \A f \in Datapoint \ (q.found \cup q.since) :
            ~W!IsOpen(i[f]) \/ f \in DOMAIN q.rows \/ f \in q.todo
SimWrites(q, i) ==
    q.op \in {"look", "upsert", "resolve"} =>
       \A f \in DOMAIN q.rows \ q.since :
          IF f \in q.found THEN q.rows[f] = W!Refreshed(i[f], i[f])
          ELSE q.rows[f] = W!AutoResolution /\ W!IsOpen(i[f])
(* What a package has read of the trail, t being its length by now.         *)
Packs(q, t) ==
    /\ q.op \in {"read", "verified", "put"} =>
         {"op", "open", "readiness", "entries", "head", "meanwhile"} \subseteq DOMAIN q
    /\ q.op = "verified" => q.meanwhile \/ q.entries = t
    /\ q.op = "put" => q.meanwhile \/ q.head = q.entries
RunSound(q, i, t, c) ==
    /\ q.op \in {"look", "upsert", "resolve", "read", "verified", "put"}
    /\ SimShape(q, c) /\ SimLooks(q, i) /\ SimResolves(q, i) /\ SimWrites(q, i) /\ Packs(q, t)
RunsRight == \A r \in Scanner : run[r] = W!Idle \/ RunSound(run[r], finding, trail, calls)
WorkspaceRight ==
    /\ finding \in [W!Finding -> FindingRow] /\ DOMAIN run = Scanner
    /\ calls \in Nat /\ problem \subseteq Datapoint /\ RunsRight
    /\ engagement.status = "complete" => engagement.closed
    /\ latest.itemised \subseteq Datapoint /\ latest.startedAt \in Nat /\ latest.startedAt <= calls
    /\ W!PackageShowsOneTrail
    /\ update # W!Idle => /\ {"finding", "read"} \subseteq DOMAIN update
                          /\ update.finding \in W!Finding /\ update.read \in FindingRow

(* The instances take the least of a set alike.                             *)
LEMMA SameMin == \A S : W!Min(S) = Q!Min(S)
  BY DEF W!Min, Q!Min

(* Findings are of the subjects, and of the one a person creates.           *)
LEMMA SubjectsAreFindings == Datapoint \subseteq W!Finding /\ W!Manual \in W!Finding /\ 0 \notin Datapoint
  BY AssuranceAssumption DEF W!Finding, W!Manual, Q!QualityScanAssumption

(* What a transaction is told when another commits.                         *)
Told(q, fs) ==
    IF q.op \in {"look", "upsert", "resolve"} THEN [q EXCEPT !.since = @ \cup fs]
    ELSE IF q.op = "verified" THEN [q EXCEPT !.meanwhile = TRUE] ELSE q

(* Others change the findings fs and add to the trail, which the            *)
(* transaction is told.                                                     *)
LEMMA RunSoundSince ==
    ASSUME NEW q, NEW i, NEW t, NEW c \in Nat, RunSound(q, i, t, c), NEW fs, NEW j, NEW u,
           NEW d \in Nat, c <= d, \A f \in Datapoint \ fs : j[f] = i[f],
           NEW p, p = Told(q, fs)
    PROVE  RunSound(p, j, u, d)
<1>1. CASE q.op \in {"look", "upsert", "resolve"}
  <2>1. DOMAIN p = DOMAIN q /\ p.since = q.since \cup fs /\ \A f \in DOMAIN q \ {"since"} : p[f] = q[f]
    BY <1>1 DEF RunSound, SimShape, Told
  <2>2. /\ p.op = q.op /\ p.found = q.found /\ p.todo = q.todo /\ p.rows = q.rows
        /\ p.looked = q.looked /\ p.startedAt = q.startedAt
    BY <1>1, <2>1 DEF RunSound, SimShape
  <2>3. /\ q.found \subseteq Datapoint /\ q.todo \subseteq Datapoint /\ DOMAIN q.rows \subseteq Datapoint
        /\ \A f \in Datapoint \ fs : j[f] = i[f]
    BY <1>1 DEF RunSound, SimShape
  <2>4. SimShape(p, d)
    BY <1>1, <2>1, <2>2 DEF RunSound, SimShape
  <2>5. SimLooks(p, j)
    <3>1. q.op = "upsert" => Q!Min(q.todo) \in Datapoint
      <4> SUFFICES ASSUME q.op = "upsert" PROVE Q!Min(q.todo) \in Datapoint
        OBVIOUS
      <4>1. q.todo \in SUBSET Datapoint /\ q.todo # {}
        BY <2>3 DEF RunSound, SimLooks
      <4> QED BY <4>1, FirstToDo
    <3> QED BY <2>1, <2>2, <2>3, <3>1 DEF RunSound, SimLooks
  <2>6. SimResolves(p, j)
    BY <2>1, <2>2, <2>3 DEF RunSound, SimResolves
  <2>7. SimWrites(p, j)
    BY <1>1, <2>1, <2>2, <2>3 DEF RunSound, SimWrites
  <2>8. Packs(p, u)
    BY <1>1, <2>2 DEF Packs
  <2> QED BY <1>1, <2>2, <2>4, <2>5, <2>6, <2>7, <2>8 DEF RunSound
<1>2. CASE q.op = "verified"
  <2>1. p = [q EXCEPT !.meanwhile = TRUE] /\ "meanwhile" \in DOMAIN q /\ "op" \in DOMAIN q
    BY <1>2 DEF RunSound, Packs, Told
  <2>2. DOMAIN p = DOMAIN q /\ p.meanwhile = TRUE /\ p.op = q.op
    BY <2>1
  <2> QED BY <1>2, <2>2 DEF RunSound, SimShape, SimLooks, SimResolves, SimWrites, Packs
<1>3. CASE q.op \in {"read", "put"}
  BY <1>3 DEF RunSound, SimShape, SimLooks, SimResolves, SimWrites, Packs, Told
<1> QED BY <1>1, <1>2, <1>3 DEF RunSound

(* A transaction, if any, ends, and the others are told.                    *)
LEMMA RunsAreTold ==
    ASSUME WorkspaceRight, NEW ended, NEW fs, W!Logged(ended, fs), calls' \in Nat, calls <= calls',
           \A f \in Datapoint \ fs : finding'[f] = finding[f]
    PROVE  DOMAIN run' = Scanner /\ RunsRight'
<1>1. DOMAIN run' = Scanner
  BY DEF W!Logged
<1>2. ASSUME NEW r \in Scanner PROVE run'[r] = W!Idle \/ RunSound(run'[r], finding', trail', calls')
  <2> DEFINE q == run[r]  p == run'[r]  i == finding  j == finding'  t == trail  u == trail'
             c == calls  d == calls'
  <2>1. r = ended => p = W!Idle
    BY DEF W!Logged
  <2>2. r # ended => p = Told(q, fs)
    BY DEF W!Logged, Told
  <2>3. q = W!Idle \/ RunSound(q, i, t, c)
    BY DEF WorkspaceRight, RunsRight
  <2>4. c \in Nat /\ d \in Nat /\ c <= d /\ \A f \in Datapoint \ fs : j[f] = i[f]
    BY DEF WorkspaceRight
  <2>5. W!Idle.op = "idle"
    BY DEF W!Idle
  <2> HIDE DEF q, p, i, j, t, u, c, d
  <2>6. q = W!Idle => p = W!Idle
    BY <2>1, <2>2, <2>5 DEF Told
  <2>7. ASSUME RunSound(q, i, t, c), r # ended PROVE RunSound(p, j, u, d)
    <3>1. p = Told(q, fs)
      BY <2>2, <2>7
    <3>2. RunSound(q, i, t, c) /\ c \in Nat /\ d \in Nat /\ c <= d
      BY <2>4, <2>7
    <3>3. \A f \in Datapoint \ fs : j[f] = i[f]
      BY <2>4
    <3> QED BY <3>1, <3>2, <3>3, RunSoundSince
  <2> QED BY <2>1, <2>3, <2>6, <2>7 DEF p, j, u, d
<1> QED BY <1>1, <1>2 DEF RunsRight

(* One transaction moves, and nothing is committed.                         *)
LEMMA RunMoves ==
    ASSUME WorkspaceRight, UNCHANGED <<problem, finding, engagement, latest, package, trail, update>>,
           calls' \in Nat, calls <= calls', NEW r \in Scanner, NEW j, run' = [run EXCEPT ![r] = j],
           j = W!Idle \/ RunSound(j, finding, trail, calls')
    PROVE  WorkspaceRight'
<1>1. DOMAIN run' = Scanner /\ run'[r] = j /\ \A t \in Scanner \ {r} : run'[t] = run[t]
  BY DEF WorkspaceRight
<1>2. ASSUME NEW q, RunSound(q, finding, trail, calls) PROVE RunSound(q, finding, trail, calls')
  BY <1>2 DEF RunSound, SimShape, WorkspaceRight
<1>3. \A t \in Scanner : run'[t] = W!Idle \/ RunSound(run'[t], finding, trail, calls')
  BY <1>1, <1>2 DEF WorkspaceRight, RunsRight
<1>4. finding' = finding /\ trail' = trail
  OBVIOUS
<1>5. RunsRight'
  BY <1>3, <1>4 DEF RunsRight
<1>6. W!PackageShowsOneTrail'
  BY DEF WorkspaceRight, W!PackageShowsOneTrail
<1> QED BY <1>1, <1>5, <1>6 DEF WorkspaceRight

(* The steps of a simulation.                                               *)
LEMMA SimulationBegins ==
    ASSUME WorkspaceRight, NEW r \in Scanner, NEW p, W!RunAuditSimulation(r, p)
    PROVE  WorkspaceRight'
<1> DEFINE j == [op |-> "look", startedAt |-> calls', found |-> W!Itemised(p), todo |-> W!Itemised(p),
                 looked |-> W!NoFinding, rows |-> <<>>, since |-> {}]
<1>1. /\ run' = [run EXCEPT ![r] = j] /\ calls' = calls + 1
      /\ UNCHANGED <<problem, finding, engagement, latest, package, trail, update>>
  BY DEF W!RunAuditSimulation, W!Called
<1>2. /\ j.op = "look" /\ j.startedAt = calls' /\ j.found = W!Itemised(p) /\ j.todo = j.found
      /\ j.rows = <<>> /\ DOMAIN j = {"op", "startedAt", "found", "todo", "looked", "rows", "since"}
  OBVIOUS
<1>3. W!Itemised(p) \subseteq Datapoint /\ DOMAIN (<<>>) = {} /\ calls' \in Nat /\ calls <= calls'
  BY <1>1 DEF W!Itemised, WorkspaceRight
<1> HIDE DEF j
<1>4. RunSound(j, finding, trail, calls')
  BY <1>2, <1>3 DEF RunSound, SimShape, SimLooks, SimResolves, SimWrites, Packs
<1> QED BY <1>1, <1>3, <1>4, RunMoves

(* A simulation looks up the next finding: what it has read is the row,     *)
(* until it is told of a change.                                            *)
LEMMA SimulationLooksUp ==
    ASSUME WorkspaceRight, NEW r \in Scanner, W!LookUpFinding(r)
    PROVE  WorkspaceRight'
<1> DEFINE q == run[r]
           j == [q EXCEPT !.op = "upsert", !.looked = finding[Q!Min(q.todo)]]
<1>1. /\ run' = [run EXCEPT ![r] = j] /\ q.op = "look" /\ q.todo # {}
      /\ UNCHANGED <<problem, finding, engagement, latest, package, trail, update, calls>>
  BY SameMin DEF W!LookUpFinding
<1>2. RunSound(q, finding, trail, calls)
  BY <1>1 DEF WorkspaceRight, RunsRight, W!Idle
<1>3. Q!Min(q.todo) \in Datapoint
  <2>1. q.todo \in SUBSET Datapoint
    BY <1>1, <1>2 DEF RunSound, SimShape
  <2> QED BY <1>1, <2>1, FirstToDo
<1> HIDE DEF q
<1>4. DOMAIN j = DOMAIN q /\ j.op = "upsert" /\ j.looked = finding[Q!Min(q.todo)]
      /\ \A f \in DOMAIN q \ {"op", "looked"} : j[f] = q[f]
  BY <1>1, <1>2 DEF RunSound, SimShape
<1>5. /\ j.found = q.found /\ j.rows = q.rows /\ j.todo = q.todo /\ j.since = q.since
      /\ j.startedAt = q.startedAt
  BY <1>1, <1>2, <1>4 DEF RunSound, SimShape
<1>6. finding[Q!Min(q.todo)] \in FindingRow
  BY <1>3, SubjectsAreFindings DEF WorkspaceRight
<1> HIDE DEF j
<1>7. SimShape(j, calls) /\ SimLooks(j, finding)
  BY <1>1, <1>2, <1>4, <1>5, <1>6 DEF RunSound, SimShape, SimLooks
<1>8. SimResolves(j, finding) /\ SimWrites(j, finding) /\ Packs(j, trail)
  BY <1>1, <1>2, <1>4, <1>5 DEF RunSound, SimResolves, SimWrites, Packs
<1>9. RunSound(j, finding, trail, calls') /\ calls' \in Nat /\ calls <= calls'
  BY <1>1, <1>4, <1>7, <1>8 DEF RunSound, WorkspaceRight
<1> QED BY <1>1, <1>9, RunMoves DEF q, j

(* What a simulation writes of a finding it itemises is a finding.          *)
LEMMA RefreshedIsFinding ==
    ASSUME NEW looked \in FindingRow, NEW row \in FindingRow
    PROVE  W!Refreshed(looked, row) \in FindingRow
  BY DEF W!Refreshed, FindingRow

(* It writes the finding it looked up, refreshed or new.                    *)
LEMMA SimulationUpserts ==
    ASSUME WorkspaceRight, NEW r \in Scanner, W!UpsertFinding(r)
    PROVE  WorkspaceRight'
<1> DEFINE q == run[r]
           d == Q!Min(q.todo)
           row == W!Refreshed(q.looked, finding[d])
           j == [q EXCEPT !.op = "look", !.todo = @ \ {d}, !.looked = W!NoFinding,
                          !.rows = W!Writes(@, d, row)]
<1>1. /\ run' = [run EXCEPT ![r] = j] /\ q.op = "upsert"
      /\ UNCHANGED <<problem, finding, engagement, latest, package, trail, update, calls>>
  BY SameMin DEF W!UpsertFinding
<1>2. RunSound(q, finding, trail, calls)
  BY <1>1 DEF WorkspaceRight, RunsRight, W!Idle
<1>3. d \in q.todo /\ d \in q.found /\ d \in Datapoint
  <2>1. q.todo \in SUBSET Datapoint /\ q.todo # {} /\ q.todo \subseteq q.found
    BY <1>1, <1>2 DEF RunSound, SimShape, SimLooks
  <2>2. d \in q.todo
    BY <2>1, FirstToDo
  <2> QED BY <2>1, <2>2
<1>4. q.looked \in FindingRow /\ (d \notin q.since => q.looked = finding[d]) /\ finding[d] \in FindingRow
  BY <1>1, <1>2, <1>3, SubjectsAreFindings DEF RunSound, SimLooks, WorkspaceRight
<1>5. row \in FindingRow /\ (d \notin q.since => row = W!Refreshed(finding[d], finding[d]))
  BY <1>4, RefreshedIsFinding
<1> HIDE DEF q, row
<1> HIDE DEF d
<1>6. DOMAIN j = DOMAIN q /\ j.op = "look" /\ j.todo = q.todo \ {d} /\ j.rows = W!Writes(q.rows, d, row)
      /\ \A f \in DOMAIN q \ {"op", "todo", "looked", "rows"} : j[f] = q[f]
  BY <1>1, <1>2 DEF RunSound, SimShape
<1>7. j.found = q.found /\ j.since = q.since /\ j.startedAt = q.startedAt
  BY <1>1, <1>2, <1>6 DEF RunSound, SimShape
<1>8. /\ DOMAIN j.rows = DOMAIN q.rows \cup {d} /\ j.rows[d] = row
      /\ \A e \in DOMAIN q.rows \ {d} : j.rows[e] = q.rows[e]
  BY <1>6 DEF W!Writes
<1> HIDE DEF j
<1>9. SimShape(j, calls)
  BY <1>1, <1>2, <1>3, <1>5, <1>6, <1>7, <1>8 DEF RunSound, SimShape
<1>10. SimLooks(j, finding) /\ SimResolves(j, finding) /\ Packs(j, trail)
  BY <1>1, <1>2, <1>3, <1>6, <1>7, <1>8 DEF RunSound, SimLooks, SimResolves, Packs
<1>11. SimWrites(j, finding)
  BY <1>1, <1>2, <1>3, <1>5, <1>7, <1>8 DEF RunSound, SimWrites
<1>12. RunSound(j, finding, trail, calls') /\ calls' \in Nat /\ calls <= calls'
  BY <1>1, <1>6, <1>9, <1>10, <1>11 DEF RunSound, WorkspaceRight
<1> QED BY <1>1, <1>12, RunMoves DEF j, q, d, row

(* It lists the open findings it did not itemise, to be resolved.           *)
LEMMA SimulationListsStale ==
    ASSUME WorkspaceRight, NEW r \in Scanner, W!ListStaleFindings(r)
    PROVE  WorkspaceRight'
<1> DEFINE q == run[r]
           j == [q EXCEPT !.op = "resolve", !.todo = W!Stale(r)]
<1>1. /\ run' = [run EXCEPT ![r] = j] /\ q.op = "look" /\ q.todo = {}
      /\ UNCHANGED <<problem, finding, engagement, latest, package, trail, update, calls>>
  BY DEF W!ListStaleFindings
<1>2. RunSound(q, finding, trail, calls)
  BY <1>1 DEF WorkspaceRight, RunsRight, W!Idle
<1>3. \A f : f \in W!Stale(r) <=> f \in Datapoint \ q.found /\ W!IsOpen(finding[f])
  BY DEF W!Stale
<1> HIDE DEF q
<1>4. DOMAIN j = DOMAIN q /\ j.op = "resolve" /\ j.todo = W!Stale(r)
      /\ \A f \in DOMAIN q \ {"op", "todo"} : j[f] = q[f]
  BY <1>1, <1>2 DEF RunSound, SimShape
<1>5. j.found = q.found /\ j.rows = q.rows /\ j.since = q.since /\ j.startedAt = q.startedAt
  BY <1>1, <1>2, <1>4 DEF RunSound, SimShape
<1> HIDE DEF j
<1>6. SimShape(j, calls)
  BY <1>1, <1>2, <1>3, <1>4, <1>5 DEF RunSound, SimShape
<1>7. SimLooks(j, finding) /\ SimWrites(j, finding) /\ Packs(j, trail)
  BY <1>1, <1>2, <1>4, <1>5 DEF RunSound, SimLooks, SimWrites, Packs
<1>8. SimResolves(j, finding)
  BY <1>1, <1>2, <1>3, <1>4, <1>5 DEF RunSound, SimShape, SimLooks, SimResolves
<1>9. RunSound(j, finding, trail, calls') /\ calls' \in Nat /\ calls <= calls'
  BY <1>1, <1>4, <1>6, <1>7, <1>8 DEF RunSound, WorkspaceRight
<1> QED BY <1>1, <1>9, RunMoves DEF j, q

(* It resolves one of them, which is open still unless it was told.         *)
LEMMA SimulationAutoResolves ==
    ASSUME WorkspaceRight, NEW r \in Scanner, NEW d, W!AutoResolve(r, d)
    PROVE  WorkspaceRight'
<1> DEFINE q == run[r]
           j == [q EXCEPT !.todo = @ \ {d}, !.rows = W!Writes(@, d, W!AutoResolution)]
<1>1. /\ run' = [run EXCEPT ![r] = j] /\ q.op = "resolve" /\ d \in q.todo
      /\ UNCHANGED <<problem, finding, engagement, latest, package, trail, update, calls>>
  BY DEF W!AutoResolve
<1>2. RunSound(q, finding, trail, calls)
  BY <1>1 DEF WorkspaceRight, RunsRight, W!Idle
<1>3. W!AutoResolution \in FindingRow
  BY DEF W!AutoResolution, FindingRow
<1>4. d \in Datapoint /\ d \notin q.found /\ (d \notin q.since => W!IsOpen(finding[d]))
  BY <1>1, <1>2 DEF RunSound, SimShape, SimResolves
<1> HIDE DEF q
<1>6. DOMAIN j = DOMAIN q /\ j.op = "resolve" /\ j.todo = q.todo \ {d}
      /\ j.rows = W!Writes(q.rows, d, W!AutoResolution)
      /\ \A f \in DOMAIN q \ {"todo", "rows"} : j[f] = q[f]
  BY <1>1, <1>2 DEF RunSound, SimShape
<1>7. j.found = q.found /\ j.since = q.since /\ j.startedAt = q.startedAt
  BY <1>1, <1>2, <1>6 DEF RunSound, SimShape
<1>8. /\ DOMAIN j.rows = DOMAIN q.rows \cup {d} /\ j.rows[d] = W!AutoResolution
      /\ \A e \in DOMAIN q.rows \ {d} : j.rows[e] = q.rows[e]
  BY <1>6 DEF W!Writes
<1> HIDE DEF j
<1>9. SimShape(j, calls)
  BY <1>1, <1>2, <1>3, <1>4, <1>6, <1>7, <1>8 DEF RunSound, SimShape
<1>10. SimLooks(j, finding) /\ SimResolves(j, finding) /\ Packs(j, trail)
  BY <1>1, <1>2, <1>4, <1>6, <1>7, <1>8 DEF RunSound, SimLooks, SimResolves, Packs
<1>11. SimWrites(j, finding)
  BY <1>1, <1>2, <1>4, <1>7, <1>8 DEF RunSound, SimWrites
<1>12. RunSound(j, finding, trail, calls') /\ calls' \in Nat /\ calls <= calls'
  BY <1>1, <1>6, <1>9, <1>10, <1>11 DEF RunSound, WorkspaceRight
<1> QED BY <1>1, <1>12, RunMoves DEF j, q

(* It commits: its findings replace the rows, and the others are told.      *)
LEMMA SimulationCompletes ==
    ASSUME WorkspaceRight, NEW r \in Scanner, W!CompleteSimulation(r)
    PROVE  WorkspaceRight'
<1> DEFINE q == run[r]
           fs == DOMAIN q.rows
<1>1. /\ q.op = "resolve" /\ finding' = W!FindingsAfter(r) /\ W!Logged(r, fs)
      /\ latest' = IF latest.startedAt > q.startedAt THEN latest
                   ELSE [startedAt |-> q.startedAt, itemised |-> q.found]
      /\ UNCHANGED <<problem, engagement, package, update, calls>>
  BY DEF W!CompleteSimulation
<1>2. RunSound(q, finding, trail, calls)
  BY <1>1 DEF WorkspaceRight, RunsRight, W!Idle
<1>3. SimShape(q, calls)
  BY <1>2 DEF RunSound
<1>4. finding' \in [W!Finding -> FindingRow] /\ \A f \in Datapoint \ fs : finding'[f] = finding[f]
  BY <1>1, <1>3, SubjectsAreFindings DEF W!FindingsAfter, SimShape, WorkspaceRight
<1>5. latest'.itemised \subseteq Datapoint /\ latest'.startedAt \in Nat /\ latest'.startedAt <= calls
  BY <1>1, <1>3 DEF SimShape, WorkspaceRight
<1> HIDE DEF q, fs
<1>6. calls' \in Nat /\ calls <= calls' /\ calls' = calls
  BY <1>1 DEF WorkspaceRight
<1>7. DOMAIN run' = Scanner /\ RunsRight'
  BY <1>1, <1>4, <1>6, RunsAreTold
<1>8. W!PackageShowsOneTrail'
  BY <1>1 DEF WorkspaceRight, W!PackageShowsOneTrail
<1> QED BY <1>1, <1>4, <1>5, <1>6, <1>7, <1>8 DEF WorkspaceRight

(* People and other modules: their transactions are one step each.          *)
LEMMA OthersCommit ==
    ASSUME WorkspaceRight, NEW fs, W!Logged(None, fs), UNCHANGED <<latest, package>>,
           calls' \in Nat, calls <= calls', problem' \subseteq Datapoint,
           finding' \in [W!Finding -> FindingRow], \A f \in Datapoint \ fs : finding'[f] = finding[f],
           engagement'.status = "complete" => engagement'.closed,
           update' = update \/ update' = W!Idle
    PROVE  WorkspaceRight'
<1>1. DOMAIN run' = Scanner /\ RunsRight'
  BY RunsAreTold
<1>2. W!PackageShowsOneTrail'
  BY DEF WorkspaceRight, W!PackageShowsOneTrail
<1> QED BY <1>1, <1>2 DEF WorkspaceRight

(* A package verifies the trail, reads its head and is stored: it shows one *)
(* state of the trail unless entries were added in between.                 *)
LEMMA PackageSteps ==
    ASSUME WorkspaceRight, NEW r \in Scanner, W!PackageNext(r)
    PROVE  WorkspaceRight'
<1> DEFINE q == run[r]
<1>0. q = W!Idle \/ RunSound(q, finding, trail, calls)
  BY DEF WorkspaceRight, RunsRight
<1>1. CASE W!GenerateAuditPackage(r)
  <2> DEFINE j == [op |-> "read", open |-> {f \in W!Finding : W!IsOpen(finding[f])},
                   readiness |-> latest.itemised, entries |-> 0, head |-> 0, meanwhile |-> FALSE]
  <2>1. /\ run' = [run EXCEPT ![r] = j] /\ calls' = calls + 1
        /\ UNCHANGED <<problem, finding, engagement, latest, package, trail, update>>
    BY <1>1 DEF W!GenerateAuditPackage, W!Called
  <2>2. j.op = "read" /\ DOMAIN j = {"op", "open", "readiness", "entries", "head", "meanwhile"}
    OBVIOUS
  <2> HIDE DEF j
  <2>3. RunSound(j, finding, trail, calls')
    BY <2>2 DEF RunSound, SimShape, SimLooks, SimResolves, SimWrites, Packs
  <2>4. calls' \in Nat /\ calls <= calls'
    BY <2>1 DEF WorkspaceRight
  <2> QED BY <2>1, <2>3, <2>4, RunMoves
<1>2. CASE W!ReadAuditTrail(r)
  <2> DEFINE j == [q EXCEPT !.op = "verified", !.entries = trail]
  <2>1. /\ run' = [run EXCEPT ![r] = j] /\ q.op = "read"
        /\ UNCHANGED <<problem, finding, engagement, latest, package, trail, update, calls>>
    BY <1>2 DEF W!ReadAuditTrail
  <2>2. {"op", "open", "readiness", "entries", "head", "meanwhile"} \subseteq DOMAIN q
    BY <1>0, <2>1 DEF RunSound, Packs, W!Idle
  <2>3. j.op = "verified" /\ DOMAIN j = DOMAIN q /\ j.entries = trail
    BY <2>2
  <2> HIDE DEF j, q
  <2>4. RunSound(j, finding, trail, calls')
    BY <2>2, <2>3 DEF RunSound, SimShape, SimLooks, SimResolves, SimWrites, Packs
  <2>5. calls' \in Nat /\ calls <= calls'
    BY <2>1 DEF WorkspaceRight
  <2> QED BY <2>1, <2>4, <2>5, RunMoves
<1>3. CASE W!ReadHead(r)
  <2> DEFINE j == [q EXCEPT !.op = "put", !.head = trail]
  <2>1. /\ run' = [run EXCEPT ![r] = j] /\ q.op = "verified"
        /\ UNCHANGED <<problem, finding, engagement, latest, package, trail, update, calls>>
    BY <1>3 DEF W!ReadHead
  <2>2. /\ {"op", "open", "readiness", "entries", "head", "meanwhile"} \subseteq DOMAIN q
        /\ q.meanwhile \/ q.entries = trail
    BY <1>0, <2>1 DEF RunSound, Packs, W!Idle
  <2>3. /\ j.op = "put" /\ DOMAIN j = DOMAIN q /\ j.head = trail /\ j.entries = q.entries
        /\ j.meanwhile = q.meanwhile
    BY <2>2
  <2> HIDE DEF j, q
  <2>4. RunSound(j, finding, trail, calls')
    BY <2>2, <2>3 DEF RunSound, SimShape, SimLooks, SimResolves, SimWrites, Packs
  <2>5. calls' \in Nat /\ calls <= calls'
    BY <2>1 DEF WorkspaceRight
  <2> QED BY <2>1, <2>4, <2>5, RunMoves
<1>4. CASE W!CompletePackage(r)
  <2>1. /\ q.op = "put" /\ package' = package \cup {W!Object(r)} /\ W!Logged(r, {})
        /\ UNCHANGED <<problem, finding, engagement, latest, update, calls>>
    BY <1>4 DEF W!CompletePackage
  <2>2. q.meanwhile \/ q.head = q.entries
    BY <1>0, <2>1 DEF RunSound, Packs, W!Idle
  <2>3. W!Object(r).meanwhile = q.meanwhile /\ W!Object(r).head = q.head
        /\ W!Object(r).entries = q.entries
    BY DEF W!Object
  <2> HIDE DEF q
  <2>4. W!PackageShowsOneTrail'
    BY <2>1, <2>2, <2>3 DEF WorkspaceRight, W!PackageShowsOneTrail
  <2>5. calls' \in Nat /\ calls <= calls' /\ \A f \in Datapoint \ {} : finding'[f] = finding[f]
    BY <2>1 DEF WorkspaceRight
  <2>6. DOMAIN run' = Scanner /\ RunsRight'
    BY <2>1, <2>5, RunsAreTold
  <2> QED BY <2>1, <2>4, <2>6 DEF WorkspaceRight
<1> QED BY <1>1, <1>2, <1>3, <1>4 DEF W!PackageNext

(* At first nothing is under way, and nothing itemised.                     *)
LEMMA WorkspaceStarts == W!Init => WorkspaceRight
<1> SUFFICES ASSUME W!Init PROVE WorkspaceRight
  OBVIOUS
<1>1. finding \in [W!Finding -> FindingRow]
  BY DEF W!Init, W!AutoResolution, W!NoFinding, FindingRow
<1>2. DOMAIN run = Scanner /\ RunsRight
  BY DEF W!Init, RunsRight
<1>3. W!PackageShowsOneTrail
  BY DEF W!Init, W!PackageShowsOneTrail
<1>4. calls \in Nat /\ problem \subseteq Datapoint /\ update = W!Idle /\ engagement.status = "none"
      /\ latest.startedAt = 0 /\ latest.itemised = {}
  BY DEF W!Init
<1>5. calls = 0
  BY DEF W!Init
<1> QED BY <1>1, <1>2, <1>3, <1>4, <1>5 DEF WorkspaceRight

(* Every step of the audit workspace keeps it right.                        *)
LEMMA WorkspaceStep == WorkspaceRight /\ W!Next => WorkspaceRight'
<1> SUFFICES ASSUME WorkspaceRight, W!Next PROVE WorkspaceRight'
  OBVIOUS
<1>0. finding \in [W!Finding -> FindingRow] /\ calls \in Nat /\ problem \subseteq Datapoint
      /\ (engagement.status = "complete" => engagement.closed)
  BY DEF WorkspaceRight
<1>1. ASSUME NEW f \in Datapoint, W!DataChanges(f) PROVE WorkspaceRight'
  <2>1. /\ W!Logged(None, {}) /\ calls' = calls + 1
        /\ UNCHANGED <<finding, engagement, latest, package, update>>
    BY <1>1 DEF W!DataChanges, W!Called
  <2>2. problem' \subseteq Datapoint
    BY <1>0, <1>1 DEF W!DataChanges
  <2>3. calls' \in Nat /\ calls <= calls' /\ finding' \in [W!Finding -> FindingRow]
        /\ (\A g \in Datapoint \ {} : finding'[g] = finding[g])
        /\ (engagement'.status = "complete" => engagement'.closed)
    BY <1>0, <2>1
  <2> QED BY <2>1, <2>2, <2>3, OthersCommit
<1>2. ASSUME NEW f \in W!Finding, W!BeginUpdate(f) PROVE WorkspaceRight'
  <2>1. /\ calls' = calls + 1 /\ update' = [op |-> "update", finding |-> f, read |-> finding[f]]
        /\ UNCHANGED <<problem, finding, engagement, latest, package, trail, run>>
    BY <1>2 DEF W!BeginUpdate, W!Called
  <2>2. /\ {"finding", "read"} \subseteq DOMAIN update'
        /\ update'.finding \in W!Finding /\ update'.read \in FindingRow
    BY <1>0, <2>1
  <2>3. W!PackageShowsOneTrail'
    BY <2>1 DEF WorkspaceRight, W!PackageShowsOneTrail
  <2>4. calls' \in Nat /\ calls <= calls'
    BY <1>0, <2>1
  <2>5. ASSUME NEW q, RunSound(q, finding, trail, calls) PROVE RunSound(q, finding, trail, calls')
    BY <2>4, <2>5, <1>0 DEF RunSound, SimShape
  <2>6. \A r \in Scanner : run[r] = W!Idle \/ RunSound(run[r], finding, trail, calls')
    BY <2>5 DEF WorkspaceRight, RunsRight
  <2>7. RunsRight'
    BY <2>1, <2>6 DEF RunsRight
  <2>8. latest.startedAt <= calls' /\ latest.startedAt \in Nat
    BY <1>0, <2>4 DEF WorkspaceRight
  <2> QED BY <2>1, <2>2, <2>3, <2>4, <2>7, <2>8 DEF WorkspaceRight
<1>3. ASSUME NEW status \in {"kept", "open", "remediating", "resolved", "accepted_risk"},
             NEW note \in {"none", "person"}, W!UpdateFinding(status, note)
      PROVE  WorkspaceRight'
  <2> DEFINE f == update.finding
             row == W!Updated(finding[f], update.read, status, note)
  <2>1. /\ update # W!Idle /\ finding' = [finding EXCEPT ![f] = row] /\ update' = W!Idle
        /\ W!Logged(None, {f}) /\ UNCHANGED <<problem, engagement, latest, package, calls>>
    BY <1>3 DEF W!UpdateFinding
  <2>2. f \in W!Finding /\ update.read \in FindingRow /\ finding[f] \in FindingRow
    BY <2>1 DEF WorkspaceRight
  <2>3. row \in FindingRow
    BY <2>2 DEF W!Updated, W!Reopening, FindingRow
  <2> HIDE DEF f, row
  <2>4. finding' \in [W!Finding -> FindingRow] /\ (\A g \in Datapoint \ {f} : finding'[g] = finding[g])
    BY <1>0, <2>1, <2>2, <2>3, SubjectsAreFindings
  <2>5. /\ calls' \in Nat /\ calls <= calls' /\ problem' \subseteq Datapoint
        /\ (engagement'.status = "complete" => engagement'.closed)
    BY <1>0, <2>1
  <2> QED BY <2>1, <2>4, <2>5, OthersCommit
<1>4. ASSUME W!CreateFinding PROVE WorkspaceRight'
  <2> DEFINE row == [status |-> "open", note |-> "none"]
  <2>1. /\ calls' = calls + 1 /\ finding' = [finding EXCEPT ![W!Manual] = row] /\ W!Logged(None, {})
        /\ UNCHANGED <<problem, engagement, latest, package, update>>
    BY <1>4 DEF W!CreateFinding, W!Called
  <2>2. finding' \in [W!Finding -> FindingRow]
    BY <1>0, <2>1 DEF FindingRow
  <2>3. \A g \in Datapoint \ {} : finding'[g] = finding[g]
    BY <1>0, <2>1, SubjectsAreFindings DEF W!Manual
  <2>4. /\ calls' \in Nat /\ calls <= calls' /\ problem' \subseteq Datapoint
        /\ (engagement'.status = "complete" => engagement'.closed)
    BY <1>0, <2>1
  <2> QED BY <2>1, <2>2, <2>3, <2>4, OthersCommit
<1>5. ASSUME W!CreateAudit \/ \E status \in {"review", "complete"} : W!UpdateAudit(status)
      PROVE  WorkspaceRight'
  <2>0. /\ W!Logged(None, {}) /\ calls' = calls + 1
        /\ UNCHANGED <<problem, finding, latest, package, update>>
    BY <1>5 DEF W!CreateAudit, W!UpdateAudit, W!Called
  <2>1. engagement'.status = "complete" => engagement'.closed
    <3>1. ASSUME W!CreateAudit PROVE engagement'.status = "complete" => engagement'.closed
      BY <3>1 DEF W!CreateAudit
    <3>2. ASSUME NEW status, W!UpdateAudit(status)
          PROVE  engagement'.status = "complete" => engagement'.closed
      BY <3>2 DEF W!UpdateAudit
    <3> QED BY <1>5, <3>1, <3>2
  <2>2. calls' \in Nat /\ calls <= calls' /\ finding' \in [W!Finding -> FindingRow]
        /\ (\A g \in Datapoint \ {} : finding'[g] = finding[g]) /\ problem' \subseteq Datapoint
    BY <1>0, <2>0
  <2> QED BY <2>0, <2>1, <2>2, OthersCommit
<1>6. ASSUME NEW r \in Scanner, W!Abort(r) PROVE WorkspaceRight'
  <2>1. /\ run' = [run EXCEPT ![r] = W!Idle]
        /\ UNCHANGED <<problem, finding, engagement, latest, package, trail, update, calls>>
    BY <1>6 DEF W!Abort
  <2>2. calls' \in Nat /\ calls <= calls'
    BY <1>0, <2>1
  <2> QED BY <2>1, <2>2, RunMoves
<1> QED BY <1>1, <1>2, <1>3, <1>4, <1>5, <1>6, SimulationBegins, SimulationLooksUp, SimulationUpserts,
           SimulationListsStale, SimulationAutoResolves, SimulationCompletes, PackageSteps
        DEF W!Next, W!FindingNext

(* The rows are of their types, and packages show one state of the trail.   *)
LEMMA WorkspaceTypes == WorkspaceRight => W!TypeOK /\ W!PackageShowsOneTrail
<1> SUFFICES ASSUME WorkspaceRight PROVE W!TypeOK
  BY DEF WorkspaceRight
<1>1. \A f \in W!Finding : finding[f] \in FindingRow
  BY DEF WorkspaceRight
<1>2. \A f \in W!Finding : /\ finding[f].status \in W!Closing \cup W!Reopening \cup {"none", "remediating"}
                           /\ finding[f].note \in {"none", "auto", "person"}
  BY <1>1 DEF FindingRow, W!Closing, W!Reopening
<1> QED BY <1>2 DEF WorkspaceRight, W!TypeOK

(* What a step may do to a finding.                                         *)
FindingsStand ==
    \A f \in W!Finding :
       finding'[f] # finding[f] =>
         /\ W!Decided(finding[f]) =>
              W!Person(f) \/ \E r \in Scanner : W!Completes(r) /\ f \in run[r].since
         /\ f = W!Manual => W!Person(f) \/ finding[f] = W!NoFinding
Itemises ==
    \A r \in Scanner :
       W!Completes(r) =>
         \A f \in Datapoint \ run[r].since :
           /\ f \in run[r].found => finding'[f] # W!NoFinding /\ ~W!AutoResolved(finding'[f])
           /\ f \notin run[r].found => ~W!IsOpen(finding'[f])

(* A simulation that commits decides what it should, of findings nobody     *)
(* else has changed.                                                        *)
LEMMA SimulationsDecide == WorkspaceRight => Itemises
<1> SUFFICES ASSUME WorkspaceRight, NEW r \in Scanner, W!Completes(r),
                    NEW f \in Datapoint \ run[r].since
             PROVE  /\ f \in run[r].found => finding'[f] # W!NoFinding /\ ~W!AutoResolved(finding'[f])
                    /\ f \notin run[r].found => ~W!IsOpen(finding'[f])
  BY DEF Itemises
<1> DEFINE q == run[r]
<1>1. /\ q.op = "resolve" /\ q.todo = {}
      /\ finding'[f] = IF f \in DOMAIN q.rows THEN q.rows[f] ELSE finding[f]
  BY SubjectsAreFindings DEF W!Completes, W!FindingsAfter
<1>2. RunSound(q, finding, trail, calls)
  BY <1>1 DEF WorkspaceRight, RunsRight, W!Idle
<1>3. finding[f] \in FindingRow
  BY SubjectsAreFindings DEF WorkspaceRight
<1>4. f \notin q.since /\ f \in Datapoint
  OBVIOUS
<1> HIDE DEF q
<1>5. ASSUME f \in q.found PROVE finding'[f] # W!NoFinding /\ ~W!AutoResolved(finding'[f])
  <2>1. f \in DOMAIN q.rows
    BY <1>1, <1>2, <1>5 DEF RunSound, SimResolves
  <2>2. q.rows[f] = W!Refreshed(finding[f], finding[f])
    BY <1>1, <1>2, <1>4, <1>5, <2>1 DEF RunSound, SimWrites
  <2>3. W!Refreshed(finding[f], finding[f]) # W!NoFinding
        /\ ~W!AutoResolved(W!Refreshed(finding[f], finding[f]))
    BY <1>3 DEF W!Refreshed, W!NoFinding, W!AutoResolved, W!AutoResolution, FindingRow
  <2> QED BY <1>1, <2>1, <2>2, <2>3
<1>6. ASSUME f \notin q.found PROVE ~W!IsOpen(finding'[f])
  <2>1. f \in DOMAIN q.rows => q.rows[f] = W!AutoResolution
    BY <1>1, <1>2, <1>4, <1>6 DEF RunSound, SimWrites
  <2>2. f \notin DOMAIN q.rows => ~W!IsOpen(finding[f])
    BY <1>1, <1>2, <1>4, <1>6 DEF RunSound, SimResolves
  <2>3. ~W!IsOpen(W!AutoResolution)
    BY DEF W!IsOpen, W!AutoResolution
  <2> QED BY <1>1, <2>1, <2>2, <2>3
<1> QED BY <1>5, <1>6 DEF q

(* A finding somebody decided, or created, changes by a person's hand only, *)
(* or by a simulation that was under way when it was decided.               *)
LEMMA FindingsStay == WorkspaceRight /\ W!Next => FindingsStand
<1> SUFFICES ASSUME WorkspaceRight, W!Next, NEW f \in W!Finding, finding'[f] # finding[f]
             PROVE  /\ W!Decided(finding[f]) =>
                         W!Person(f) \/ \E r \in Scanner : W!Completes(r) /\ f \in run[r].since
                    /\ f = W!Manual => W!Person(f) \/ finding[f] = W!NoFinding
  BY DEF FindingsStand
<1>1. \/ \E r \in Scanner : W!CompleteSimulation(r)
      \/ \E status, note : W!UpdateFinding(status, note)
      \/ W!CreateFinding
      \/ UNCHANGED finding
  BY DEF W!Next, W!FindingNext, W!PackageNext, W!DataChanges, W!BeginUpdate, W!CreateAudit, W!UpdateAudit,
         W!RunAuditSimulation, W!LookUpFinding, W!UpsertFinding, W!ListStaleFindings, W!AutoResolve,
         W!Abort, W!GenerateAuditPackage, W!ReadAuditTrail, W!ReadHead, W!CompletePackage
<1>2. finding \in [W!Finding -> FindingRow]
  BY DEF WorkspaceRight
<1>3. ASSUME NEW r \in Scanner, W!CompleteSimulation(r)
      PROVE  f # W!Manual /\ (W!Decided(finding[f]) => W!Completes(r) /\ f \in run[r].since)
  <2> DEFINE q == run[r]
  <2>1. q.op = "resolve" /\ W!Completes(r)
    BY <1>3 DEF W!CompleteSimulation, W!Completes, W!Logged
  <2>2. finding'[f] = IF f \in DOMAIN q.rows THEN q.rows[f] ELSE finding[f]
    BY <1>3 DEF W!CompleteSimulation, W!FindingsAfter
  <2>3. RunSound(q, finding, trail, calls)
    BY <2>1 DEF WorkspaceRight, RunsRight, W!Idle
  <2> HIDE DEF q
  <2>4. f \in DOMAIN q.rows /\ q.rows[f] # finding[f]
    BY <2>2
  <2>5. f \in Datapoint /\ f # W!Manual
    BY <2>1, <2>3, <2>4, SubjectsAreFindings DEF RunSound, SimShape, W!Manual
  <2>6. ASSUME W!Decided(finding[f]) PROVE f \in q.since
    <3>1. W!Refreshed(finding[f], finding[f]) = finding[f] /\ ~W!IsOpen(finding[f])
      BY <2>6 DEF W!Decided, W!Refreshed, W!AutoResolved, W!AutoResolution, W!IsOpen
    <3> QED BY <2>1, <2>3, <2>4, <3>1 DEF RunSound, SimWrites
  <2> QED BY <2>1, <2>5, <2>6 DEF q
<1>4. ASSUME NEW status, NEW note, W!UpdateFinding(status, note) PROVE W!Person(f)
  <2>1. update # W!Idle /\ update' = W!Idle
        /\ finding' = [finding EXCEPT ![update.finding] = W!Updated(finding[update.finding], update.read, status, note)]
    BY <1>4 DEF W!UpdateFinding
  <2>2. f = update.finding
    BY <1>2, <2>1
  <2> QED BY <2>1, <2>2 DEF W!Person
<1>5. ASSUME W!CreateFinding PROVE f = W!Manual /\ finding[f] = W!NoFinding /\ ~W!Decided(finding[f])
  BY <1>2, <1>5 DEF W!CreateFinding, W!NoFinding, W!Decided
<1> QED BY <1>1, <1>3, <1>4, <1>5

-----------------------------------------------------------------------------
(* Compliance: what an evaluation returns.                                  *)
Sane(cs) ==
    /\ IsFiniteSet(cs)
    /\ \A c \in cs : c.at \in Nat /\ c.trust \in Nat \cup {None} /\ c.text \in BOOLEAN

(* The earliest of some candidates is one of them.                          *)
LEMMA FirstIsOne ==
    ASSUME NEW cs, Sane(cs), cs # {}
    PROVE  C!First(cs) \in cs
<1> DEFINE T == {c.at : c \in cs}
<1>1. T \in SUBSET Nat /\ T # {}
  BY DEF Sane
<1> HIDE DEF T
<1>2. PICK m \in T : \A n \in T : m <= n
  BY <1>1, LeastOf
<1>3. \E c \in cs : \A o \in cs : c.at <= o.at
  BY <1>2 DEF T
<1> QED BY <1>3 DEF C!First

(* So is the latest.                                                        *)
LEMMA LastIsOne ==
    ASSUME NEW cs, Sane(cs), cs # {}
    PROVE  C!LastOf(cs) \in cs
<1> DEFINE f == [c \in cs |-> c.at]
<1>1. f \in [cs -> Nat] /\ IsFiniteSet(cs)
  BY DEF Sane
<1>2. \A c \in cs : f[c] = c.at
  OBVIOUS
<1> HIDE DEF f
<1>3. PICK m \in cs : \A o \in cs : f[o] <= f[m]
  BY <1>1, GreatestOf
<1>4. \E c \in cs : \A o \in cs : o.at <= c.at
  BY <1>2, <1>3
<1> QED BY <1>4 DEF C!LastOf

(* What a value is resolved from is among the candidates.                   *)
LEMMA ResolvesFromCandidates ==
    ASSUME NEW rd, NEW cs, Sane(cs), cs # {}
    PROVE  /\ C!ResolveValue(rd, cs).contributing \subseteq cs
           /\ C!ResolveValue(rd, cs).text \in BOOLEAN
           /\ C!ResolveValue(rd, cs).conflict \in BOOLEAN
<1> DEFINE r == C!ResolveValue(rd, cs)
           numeric == {c \in cs : c.num # None}
<1>1. ASSUME NEW c \in cs
      PROVE  /\ C!Alone(c).contributing \subseteq cs /\ C!Alone(c).text \in BOOLEAN
             /\ C!Alone(c).conflict \in BOOLEAN
  BY DEF C!Alone, Sane
<1>2. \/ \E v : r = [value |-> v, text |-> FALSE, contributing |-> cs, conflict |-> FALSE]
      \/ r = C!Alone(C!LastOf(cs))
      \/ r = [value |-> None, text |-> FALSE, contributing |-> cs, conflict |-> TRUE]
      \/ r = C!Alone(C!First(cs))
  BY DEF C!ResolveValue
<1>3. C!LastOf(cs) \in cs /\ C!First(cs) \in cs
  BY FirstIsOne, LastIsOne
<1> HIDE DEF r
<1>4. r.contributing \subseteq cs /\ r.text \in BOOLEAN /\ r.conflict \in BOOLEAN
  <2>1. ASSUME NEW v, NEW b \in BOOLEAN,
               r = [value |-> v, text |-> FALSE, contributing |-> cs, conflict |-> b]
        PROVE  r.contributing \subseteq cs /\ r.text \in BOOLEAN /\ r.conflict \in BOOLEAN
    BY <2>1
  <2>2. ASSUME NEW c \in cs, r = C!Alone(c)
        PROVE  r.contributing \subseteq cs /\ r.text \in BOOLEAN /\ r.conflict \in BOOLEAN
    BY <1>1, <2>2
  <2> QED BY <1>2, <1>3, <2>1, <2>2
<1> QED BY <1>4 DEF r

(* A complete required datapoint has a value, live evidence and enough      *)
(* trust, and was confirmed.                                                *)
Worthy(rd, m) ==
    m.status = "mapping_complete" =>
       /\ m.hasValue /\ m.evidence # {}
       /\ m.trust # None /\ m.trust \in Nat /\ m.trust >= C!MinTrust(RuleOf[rd])
Found == {"status", "hasValue", "trust", "evidence"}
(* Whatever the candidates are, an evaluation says complete of confirmed    *)
(* datapoints only, with a value, live evidence and enough trust.           *)
LEMMA EvaluationIsSound ==
    ASSUME NEW rd \in Required, NEW G, Sane(G), NEW confirmed \in BOOLEAN
    PROVE  LET ev == C!EvaluateRequiredDatapoint(RuleOf[rd], G, confirmed)
           IN  /\ DOMAIN ev = Found
               /\ Worthy(rd, ev) /\ (ev.status = "mapping_complete" => confirmed)
<1> DEFINE rule == RuleOf[rd]
           ev == C!EvaluateRequiredDatapoint(rule, G, confirmed)
           cs == C!Considered(rule, G)
           r == C!ResolveValue(rule, cs)
           linked == UNION {c.evidence : c \in r.contributing}
           trusts == {c.trust : c \in r.contributing} \ {None}
           trust == IF trusts = {} THEN None ELSE C!Min(trusts)
           flagged == \/ r.conflict
                      \/ \E c \in r.contributing : c.outdated \/ ~C!UnitMatches(rule.unit, c.unit)
                      \/ linked # {} /\ C!Live(linked) = {}
           ladder ==
              IF ~(r.value # None \/ r.text \/ r.conflict) THEN "not_started"
              ELSE IF C!Live(linked) = {} THEN "data_available"
              ELSE IF confirmed /\ ~flagged /\ trust # None /\ trust >= C!MinTrust(rule)
              THEN "mapping_complete" ELSE "evidence_available"
           none == [status |-> "not_started", hasValue |-> FALSE, trust |-> None, evidence |-> {}]
           some == [status |-> IF flagged /\ ladder # "not_started" THEN "review_required" ELSE ladder,
                    hasValue |-> r.value # None \/ r.text, trust |-> trust,
                    evidence |-> {e.id : e \in C!Live(linked)}]
<1>1. ev = IF cs = {} THEN none ELSE some
  BY DEF C!EvaluateRequiredDatapoint
<1>2. Sane(cs)
  <2>1. cs \subseteq G
    BY DEF C!Considered
  <2> HIDE DEF cs
  <2> QED BY <2>1, FS_Subset DEF Sane
<1>3. CASE cs = {}
  <2>1. ev = none
    BY <1>1, <1>3
  <2>2. none.status = "not_started" /\ DOMAIN none = Found
    BY DEF Found
  <2> HIDE DEF ev, none
  <2>3. DOMAIN ev = Found /\ Worthy(rd, ev) /\ (ev.status = "mapping_complete" => confirmed)
    BY <2>1, <2>2 DEF Worthy
  <2> QED BY <2>3 DEF ev
<1>4. CASE cs # {}
  <2>1. ev = some
    BY <1>1, <1>4
  <2>2. DOMAIN some = Found
    BY DEF Found
  <2>3. r.contributing \subseteq cs /\ r.text \in BOOLEAN /\ r.conflict \in BOOLEAN
    <3> HIDE DEF cs
    <3> QED BY <1>2, <1>4, ResolvesFromCandidates
  <2>4. trust # None => trust \in Nat
    <3>1. trusts \in SUBSET Nat
      <4> HIDE DEF cs, r
      <4> QED BY <1>2, <2>3 DEF Sane
    <3>2. trusts # {} => C!Min(trusts) \in trusts
      <4> HIDE DEF trusts
      <4>1. trusts # {} => \E m \in trusts : \A n \in trusts : m <= n
        BY <3>1, LeastOf
      <4> QED BY <4>1 DEF C!Min
    <3> HIDE DEF trusts
    <3> QED BY <3>1, <3>2
  <2>5. /\ some.status = IF flagged /\ ladder # "not_started" THEN "review_required" ELSE ladder
        /\ some.hasValue = (r.value # None \/ r.text) /\ some.trust = trust
        /\ some.evidence = {e.id : e \in C!Live(linked)}
    <3> HIDE DEF ladder, flagged, trust, linked, r
    <3> QED OBVIOUS
  <2>6. r.conflict => flagged
    OBVIOUS
  <2> HIDE DEF ev, some, cs, r, linked, trusts, trust, flagged, rule
  <2>7. ASSUME some.status = "mapping_complete"
        PROVE  some.hasValue /\ some.evidence # {} /\ some.trust # None /\ some.trust \in Nat
               /\ some.trust >= C!MinTrust(rule) /\ confirmed
    <3>1. ladder = "mapping_complete"
      BY <2>5, <2>7
    <3>2. /\ r.value # None \/ r.text \/ r.conflict
          /\ C!Live(linked) # {} /\ confirmed /\ ~flagged /\ trust # None
          /\ trust >= C!MinTrust(rule)
      BY <3>1
    <3>3. r.value # None \/ r.text
      BY <2>6, <3>2
    <3> QED BY <2>4, <2>5, <3>2, <3>3
  <2>8. DOMAIN ev = Found /\ Worthy(rd, ev) /\ (ev.status = "mapping_complete" => confirmed)
    BY <2>1, <2>2, <2>7 DEF Worthy, rule
  <2> QED BY <2>8 DEF ev, rule
<1> QED BY <1>3, <1>4

(* The mappings: what makes one complete was true of what was evaluated.    *)
MapSound(rd, m) == m.confirmed \in BOOLEAN /\ Worthy(rd, m)
JobSound(j) ==
    /\ j.op = "evaluation" =>
         /\ {"op", "period", "todo", "rows", "read", "found"} \subseteq DOMAIN j
         /\ j.todo \subseteq Required /\ DOMAIN j.rows \subseteq Required
         /\ Required \subseteq j.todo \cup DOMAIN j.rows
         /\ \A rd \in Required : /\ j.read[rd] \in BOOLEAN /\ Worthy(rd, j.found[rd])
                                 /\ j.found[rd].status = "mapping_complete" => j.read[rd]
         /\ \A rd \in DOMAIN j.rows : /\ MapSound(rd, j.rows[rd])
                                      /\ j.rows[rd].status = "mapping_complete" => j.read[rd]
    /\ j.op = "confirm" =>
         /\ j.rd \in Required /\ j.confirm \in BOOLEAN /\ Worthy(j.rd, j.found)
         /\ j.found.status = "mapping_complete" => j.confirm
    /\ j.op \in {"roll up", "confirmed"} =>
         /\ "rows" \in DOMAIN j /\ j.rd \in Required /\ DOMAIN j.rows = {j.rd}
         /\ MapSound(j.rd, j.rows[j.rd])
         /\ j.rows[j.rd].status = "mapping_complete" => j.rows[j.rd].confirmed
MappingsRight ==
    /\ data \in [Required -> SUBSET Candidate]
    /\ DOMAIN mapping = Required /\ \A rd \in Required : MapSound(rd, mapping[rd])
    /\ control = None \/ control.status \in {"not_implemented", "implemented", "passed", "failed"}
    /\ DOMAIN disclosure = C!Disclosure
    /\ DOMAIN job = Client /\ \A c \in Client : JobSound(job[c])
    /\ C!CompleteIsConfirmed /\ C!DisclosureAgrees

(* The datapoints that can come are finitely many.                          *)
LEMMA CandidatesAreFinite == IsFiniteSet(Candidate)
<1>1. C!IsFiniteSet(Candidate)
  BY AssuranceAssumption DEF C!ComplianceAssumption
<1> QED BY <1>1 DEF C!IsFiniteSet, IsFiniteSet

(* What an evaluation reads is sane, so what it returns is sound.           *)
LEMMA InputsAreSane ==
    ASSUME MappingsRight, NEW rd \in Required, NEW p
    PROVE  Sane(C!GatherInputs(rd, p))
<1> DEFINE S == {d \in data[rd] : p = None \/ d.period = p}
           T == C!GatherInputs(rd, p)
           g == [c \in S |-> C!WithStatus(c)]
<1>1. S \subseteq Candidate
  BY DEF MappingsRight
<1>2. IsFiniteSet(S)
  <2> HIDE DEF S
  <2> QED BY <1>1, CandidatesAreFinite, FS_Subset
<1>3. T = {C!WithStatus(c) : c \in S}
  BY DEF C!GatherInputs
<1>4. ASSUME NEW c \in Candidate
      PROVE  /\ C!WithStatus(c).at \in Nat /\ C!WithStatus(c).trust \in Nat \cup {None}
             /\ C!WithStatus(c).text \in BOOLEAN
  <2>1. {"at", "trust", "text"} \subseteq DOMAIN c /\ c.at \in Nat /\ c.trust \in Nat \cup {None}
        /\ c.text \in BOOLEAN
    BY AssuranceAssumption DEF C!ComplianceAssumption
  <2>2. C!WithStatus(c).at = c.at /\ C!WithStatus(c).trust = c.trust /\ C!WithStatus(c).text = c.text
    BY <2>1 DEF C!WithStatus
  <2> QED BY <2>1, <2>2
<1>5. g \in Surjection(S, T)
  BY <1>3 DEF Surjection
<1>6. IsFiniteSet(T)
  <2> HIDE DEF g, S, T
  <2> QED BY <1>2, <1>5, FS_Surjection
<1>7. \A t \in T : t.at \in Nat /\ t.trust \in Nat \cup {None} /\ t.text \in BOOLEAN
  <2> HIDE DEF S, T
  <2> QED BY <1>1, <1>3, <1>4
<1> QED BY <1>6, <1>7 DEF Sane

(* So does one of the datapoints that are there.                            *)
LEMMA EvaluateIsSound ==
    ASSUME MappingsRight, NEW rd \in Required, NEW p, NEW confirmed \in BOOLEAN
    PROVE  /\ Worthy(rd, C!Evaluate(rd, p, confirmed))
           /\ C!Evaluate(rd, p, confirmed).status = "mapping_complete" => confirmed
<1> DEFINE G == C!GatherInputs(rd, p)
<1>1. Sane(G)
  BY InputsAreSane
<1> HIDE DEF G
<1>2. /\ Worthy(rd, C!EvaluateRequiredDatapoint(RuleOf[rd], G, confirmed))
      /\ C!EvaluateRequiredDatapoint(RuleOf[rd], G, confirmed).status = "mapping_complete" => confirmed
  BY <1>1, EvaluationIsSound
<1>3. C!Evaluate(rd, p, confirmed) = C!EvaluateRequiredDatapoint(RuleOf[rd], G, confirmed)
  BY DEF C!Evaluate, G
<1> QED BY <1>2, <1>3

(* The row it writes says the same.                                         *)
LEMMA RowIsSound ==
    ASSUME NEW rd \in Required, NEW ev, Worthy(rd, ev), NEW confirmed \in BOOLEAN, NEW p
    PROVE  /\ MapSound(rd, C!Row(ev, confirmed, p)) /\ C!Row(ev, confirmed, p).confirmed = confirmed
           /\ C!Row(ev, confirmed, p).status = ev.status
  BY DEF C!Row, MapSound, Worthy

(* A transaction moves; the rows and the history stay.                      *)
LEMMA JobMoves ==
    ASSUME MappingsRight, UNCHANGED <<data, mapping, disclosure, control, unsettled, crossed>>,
           NEW c \in Client, NEW j, JobSound(j), job' = [job EXCEPT ![c] = j]
    PROVE  MappingsRight'
<1>1. DOMAIN job' = Client /\ \A d \in Client : JobSound(job'[d])
  BY DEF MappingsRight
<1>2. C!CompleteIsConfirmed' /\ C!DisclosureAgrees'
  BY DEF MappingsRight, C!CompleteIsConfirmed, C!DisclosureAgrees
<1> QED BY <1>1, <1>2 DEF MappingsRight

(* The rows of other disclosures do not show in a disclosure's statuses.    *)
LEMMA StatusesOfTheirOwn ==
    ASSUME NEW dis, NEW m, NEW n, \A k \in Required : DisclosureOf[k] = dis => m[k] = n[k]
    PROVE  C!Statuses(dis, m) = C!Statuses(dis, n)
<1>1. {k \in Required : DisclosureOf[k] = dis /\ m[k] # C!NoMapping}
        = {k \in Required : DisclosureOf[k] = dis /\ n[k] # C!NoMapping}
  OBVIOUS
<1> QED BY <1>1 DEF C!Statuses

(* The steps of an evaluation keep the mappings right.                      *)
LEMMA EvaluationSteps ==
    ASSUME MappingsRight, NEW c \in Client,
           \/ \E p \in ReportingPeriod \cup {None} : C!RunComplianceEvaluation(c, p)
           \/ C!UpsertMapping(c)
           \/ C!CompleteEvaluation(c)
    PROVE  MappingsRight'
<1>1. ASSUME NEW p \in ReportingPeriod \cup {None}, C!RunComplianceEvaluation(c, p) PROVE MappingsRight'
  <2> DEFINE j == [op |-> "evaluation", period |-> p, todo |-> Required, rows |-> <<>>,
                   read |-> [rd \in Required |-> mapping[rd].confirmed],
                   found |-> [rd \in Required |-> C!Evaluate(rd, p, mapping[rd].confirmed)]]
  <2>1. job' = [job EXCEPT ![c] = j] /\ UNCHANGED <<data, mapping, disclosure, control, unsettled, crossed>>
    BY <1>1 DEF C!RunComplianceEvaluation, C!rows, C!history
  <2>2. \A rd \in Required : mapping[rd].confirmed \in BOOLEAN
    BY DEF MappingsRight, MapSound
  <2>3. \A rd \in Required : /\ Worthy(rd, C!Evaluate(rd, p, mapping[rd].confirmed))
                             /\ C!Evaluate(rd, p, mapping[rd].confirmed).status = "mapping_complete"
                                  => mapping[rd].confirmed
    BY <2>2, EvaluateIsSound
  <2>4. /\ j.op = "evaluation" /\ DOMAIN j = {"op", "period", "todo", "rows", "read", "found"}
        /\ j.todo = Required /\ j.rows = <<>>
        /\ \A rd \in Required : /\ j.read[rd] = mapping[rd].confirmed
                                /\ j.found[rd] = C!Evaluate(rd, p, mapping[rd].confirmed)
    OBVIOUS
  <2>5. DOMAIN (<<>>) = {}
    OBVIOUS
  <2> HIDE DEF j
  <2>6. JobSound(j)
    BY <2>2, <2>3, <2>4, <2>5 DEF JobSound
  <2> QED BY <2>1, <2>6, JobMoves
<1>2. ASSUME C!UpsertMapping(c) PROVE MappingsRight'
  <2> DEFINE q == job[c]
             rd == C!Min(q.todo)
             row == C!Row(q.found[rd], mapping[rd].confirmed, q.period)
             j == [q EXCEPT !.todo = @ \ {rd}, !.rows = C!Writes(@, rd, row)]
  <2>1. /\ job' = [job EXCEPT ![c] = j] /\ q.op = "evaluation" /\ q.todo # {}
        /\ UNCHANGED <<data, mapping, disclosure, control, unsettled, crossed>>
    BY <1>2 DEF C!UpsertMapping, C!rows, C!history
  <2>2. JobSound(q)
    BY DEF MappingsRight
  <2>3. rd \in q.todo /\ rd \in Required
    <3>1. q.todo \in SUBSET Nat /\ q.todo \subseteq Required
      BY <2>1, <2>2, AssuranceAssumption DEF JobSound, C!ComplianceAssumption
    <3>2. \E m \in q.todo : \A n \in q.todo : m <= n
      BY <2>1, <3>1, LeastOf
    <3> QED BY <3>1, <3>2 DEF C!Min
  <2>4. mapping[rd].confirmed \in BOOLEAN /\ Worthy(rd, q.found[rd])
        /\ (q.found[rd].status = "mapping_complete" => q.read[rd])
    BY <2>1, <2>2, <2>3 DEF MappingsRight, MapSound, JobSound
  <2>5. MapSound(rd, row) /\ (row.status = "mapping_complete" => q.read[rd])
    <3> HIDE DEF q, rd
    <3> QED BY <2>3, <2>4, RowIsSound
  <2> HIDE DEF q, row
  <2> HIDE DEF rd
  <2>6. DOMAIN j = DOMAIN q /\ j.todo = q.todo \ {rd} /\ j.rows = C!Writes(q.rows, rd, row)
        /\ \A f \in DOMAIN q \ {"todo", "rows"} : j[f] = q[f]
    BY <2>1, <2>2 DEF JobSound
  <2>7. j.op = "evaluation" /\ j.read = q.read /\ j.found = q.found
    BY <2>1, <2>2, <2>6 DEF JobSound
  <2>8. /\ DOMAIN j.rows = DOMAIN q.rows \cup {rd} /\ j.rows[rd] = row
        /\ \A e \in DOMAIN q.rows \ {rd} : j.rows[e] = q.rows[e]
    BY <2>6 DEF C!Writes
  <2> HIDE DEF j
  <2>9. JobSound(j)
    <3>1. DOMAIN j.rows \subseteq Required /\ Required \subseteq j.todo \cup DOMAIN j.rows
          /\ j.todo \subseteq Required
      BY <2>1, <2>2, <2>3, <2>6, <2>8 DEF JobSound
    <3>2. \A e \in DOMAIN j.rows : /\ MapSound(e, j.rows[e])
                                   /\ j.rows[e].status = "mapping_complete" => j.read[e]
      BY <2>1, <2>2, <2>5, <2>7, <2>8 DEF JobSound
    <3> QED BY <2>1, <2>2, <2>6, <2>7, <3>1, <3>2 DEF JobSound
  <2> QED BY <2>1, <2>9, JobMoves DEF j, q, row, rd
<1>3. ASSUME C!CompleteEvaluation(c) PROVE MappingsRight'
  <2> DEFINE q == job[c]  m == C!MappingAfter(c)
  <2>1. /\ q.op = "evaluation" /\ q.todo = {} /\ mapping' = m
        /\ disclosure' = [dis \in C!Disclosure |-> C!Summary(C!Statuses(dis, m))]
        /\ job' = [job EXCEPT ![c] = C!Idle]
        /\ unsettled' = {rd \in Required : q.rows[rd].confirmed # q.read[rd]}
        /\ UNCHANGED <<data, control>>
    BY <1>3 DEF C!CompleteEvaluation
  <2>2. JobSound(q) /\ JobSound(C!Idle)
    BY DEF MappingsRight, JobSound, C!Idle
  <2>3. DOMAIN q.rows = Required /\ "rows" \in DOMAIN q
    BY <2>1, <2>2 DEF JobSound
  <2>4. m = [rd \in Required |-> q.rows[rd]]
    BY <2>3 DEF C!MappingAfter, C!Written
  <2> HIDE DEF q, m
  <2>5. DOMAIN mapping' = Required /\ \A rd \in Required : MapSound(rd, mapping'[rd])
    BY <2>1, <2>2, <2>3, <2>4 DEF JobSound
  <2>6. C!CompleteIsConfirmed'
    <3> SUFFICES ASSUME NEW rd \in Required, rd \notin unsettled', mapping'[rd].status = "mapping_complete"
                 PROVE  mapping'[rd].confirmed
      BY DEF C!CompleteIsConfirmed
    <3>1. mapping'[rd] = q.rows[rd] /\ q.rows[rd].confirmed = q.read[rd]
      BY <2>1, <2>4
    <3>2. q.read[rd]
      BY <2>1, <2>2, <2>3, <3>1 DEF JobSound
    <3> QED BY <3>1, <3>2
  <2>7. C!DisclosureAgrees'
    BY <2>1 DEF C!DisclosureAgrees
  <2>8. DOMAIN job' = Client /\ \A d \in Client : JobSound(job'[d])
    BY <2>1, <2>2 DEF MappingsRight
  <2>9. DOMAIN disclosure' = C!Disclosure
    BY <2>1
  <2> QED BY <2>1, <2>5, <2>6, <2>7, <2>8, <2>9 DEF MappingsRight
<1> QED BY <1>1, <1>2, <1>3

(* So do those of a confirmation.                                           *)
LEMMA ConfirmationSteps ==
    ASSUME MappingsRight, NEW c \in Client,
           \/ \E rd \in Required, confirm \in BOOLEAN : C!BeginConfirm(c, rd, confirm)
           \/ C!ConfirmMapping(c)
           \/ C!RecomputeRollup(c)
           \/ C!CompleteConfirm(c)
    PROVE  MappingsRight'
<1> DEFINE q == job[c]
<1>0. JobSound(q)
  BY DEF MappingsRight
<1>1. ASSUME NEW rd \in Required, NEW confirm \in BOOLEAN, C!BeginConfirm(c, rd, confirm)
      PROVE  MappingsRight'
  <2> DEFINE ev == C!Evaluate(rd, mapping[rd].period, confirm)
             j == [op |-> "confirm", rd |-> rd, period |-> mapping[rd].period, confirm |-> confirm,
                   found |-> ev]
  <2>1. job' = [job EXCEPT ![c] = j] /\ UNCHANGED <<data, mapping, disclosure, control, unsettled, crossed>>
    BY <1>1 DEF C!BeginConfirm, C!rows, C!history
  <2>2. Worthy(rd, ev) /\ (ev.status = "mapping_complete" => confirm)
    BY EvaluateIsSound
  <2>3. j.op = "confirm" /\ j.rd = rd /\ j.confirm = confirm /\ j.found = ev
    OBVIOUS
  <2> HIDE DEF j, ev
  <2>4. JobSound(j)
    BY <2>2, <2>3 DEF JobSound
  <2> QED BY <2>1, <2>4, JobMoves
<1>2. ASSUME C!ConfirmMapping(c) PROVE MappingsRight'
  <2> DEFINE row == C!Row(q.found, q.confirm, mapping[q.rd].period)
             j == [op |-> "roll up", rd |-> q.rd, rows |-> [k \in {q.rd} |-> row]]
  <2>1. q.op = "confirm"
    BY <1>2 DEF C!ConfirmMapping
  <2>2. job' = [job EXCEPT ![c] = [op |-> "roll up", rd |-> q.rd,
                      rows |-> [k \in {q.rd} |-> C!Row(q.found, q.confirm, mapping[k].period)]]]
        /\ UNCHANGED <<data, mapping, disclosure, control, unsettled, crossed>>
    BY <1>2 DEF C!ConfirmMapping, C!rows, C!history, C!Confirmed
  <2>3. [k \in {q.rd} |-> C!Row(q.found, q.confirm, mapping[k].period)] = [k \in {q.rd} |-> row]
    OBVIOUS
  <2>4. job' = [job EXCEPT ![c] = j]
    BY <2>2, <2>3
  <2>5. q.rd \in Required /\ MapSound(q.rd, row) /\ (row.status = "mapping_complete" => row.confirmed)
    <3> HIDE DEF q
    <3>1. /\ q.rd \in Required /\ q.confirm \in BOOLEAN /\ Worthy(q.rd, q.found)
          /\ q.found.status = "mapping_complete" => q.confirm
      BY <1>0, <2>1 DEF JobSound
    <3> QED BY <3>1, RowIsSound
  <2> HIDE DEF row
  <2>6. /\ j.op = "roll up" /\ j.rd = q.rd /\ DOMAIN j.rows = {q.rd} /\ j.rows[q.rd] = row
        /\ "rows" \in DOMAIN j
    OBVIOUS
  <2> HIDE DEF j, q
  <2>7. JobSound(j)
    BY <2>5, <2>6 DEF JobSound
  <2> QED BY <2>2, <2>4, <2>7, JobMoves
<1>3. ASSUME C!RecomputeRollup(c) PROVE MappingsRight'
  <2> DEFINE j == [op |-> "confirmed", rd |-> q.rd, rows |-> q.rows,
                   siblings |-> C!Statuses(DisclosureOf[q.rd], C!MappingAfter(c))]
  <2>1. /\ q.op = "roll up" /\ job' = [job EXCEPT ![c] = j]
        /\ UNCHANGED <<data, mapping, disclosure, control, unsettled, crossed>>
    BY <1>3 DEF C!RecomputeRollup, C!rows, C!history
  <2>2. j.op = "confirmed" /\ j.rd = q.rd /\ j.rows = q.rows /\ "rows" \in DOMAIN j
    OBVIOUS
  <2> HIDE DEF j, q
  <2>3. JobSound(j)
    BY <1>0, <2>1, <2>2 DEF JobSound
  <2> QED BY <2>1, <2>3, JobMoves
<1>4. ASSUME C!CompleteConfirm(c) PROVE MappingsRight'
  <2> DEFINE m == C!MappingAfter(c)
             rd == q.rd
             dis == DisclosureOf[rd]
             new == IF disclosure[dis] = None THEN None ELSE C!Summary(q.siblings)
  <2>1. /\ q.op = "confirmed" /\ mapping' = m
        /\ disclosure' = [disclosure EXCEPT ![dis] = new]
        /\ job' = [job EXCEPT ![c] = C!Idle] /\ unsettled' = unsettled \ {rd}
        /\ crossed' = IF q.siblings = C!Statuses(dis, m) THEN crossed \ {dis} ELSE crossed \cup {dis}
        /\ UNCHANGED <<data, control>>
    BY <1>4 DEF C!CompleteConfirm
  <2>2. rd \in Required /\ DOMAIN q.rows = {rd} /\ "rows" \in DOMAIN q /\ MapSound(rd, q.rows[rd])
        /\ (q.rows[rd].status = "mapping_complete" => q.rows[rd].confirmed)
    BY <1>0, <2>1 DEF JobSound
  <2>3. DOMAIN m = Required /\ m[rd] = q.rows[rd] /\ \A k \in Required \ {rd} : m[k] = mapping[k]
    BY <2>2 DEF C!MappingAfter, C!Written
  <2>4. JobSound(C!Idle)
    BY DEF JobSound, C!Idle
  <2> HIDE DEF q, m, rd, new
  <2> HIDE DEF dis
  <2>5. DOMAIN mapping' = Required /\ \A k \in Required : MapSound(k, mapping'[k])
    BY <2>1, <2>2, <2>3 DEF MappingsRight
  <2>6. C!CompleteIsConfirmed'
    BY <2>1, <2>2, <2>3 DEF MappingsRight, C!CompleteIsConfirmed
  <2>7. DOMAIN job' = Client /\ \A d \in Client : JobSound(job'[d])
    BY <2>1, <2>4 DEF MappingsRight
  <2>8. DOMAIN disclosure' = C!Disclosure
    BY <2>1 DEF MappingsRight
  <2>9. C!DisclosureAgrees'
    <3> SUFFICES ASSUME NEW e \in C!Disclosure, e \notin crossed', disclosure'[e] # None
                 PROVE  disclosure'[e] = C!Summary(C!Statuses(e, m))
      BY <2>1 DEF C!DisclosureAgrees
    <3>1. CASE e = dis
      <4>1. q.siblings = C!Statuses(dis, m)
        BY <2>1, <3>1
      <4>2. disclosure'[dis] = new
        BY <2>1, <3>1 DEF MappingsRight
      <4> QED BY <3>1, <4>1, <4>2 DEF new
    <3>2. CASE e # dis
      <4>1. e \notin crossed /\ disclosure'[e] = disclosure[e]
        BY <2>1, <3>2 DEF MappingsRight
      <4>2. disclosure[e] = C!Summary(C!Statuses(e, mapping))
        BY <4>1 DEF MappingsRight, C!DisclosureAgrees
      <4>3. \A k \in Required : DisclosureOf[k] = e => m[k] = mapping[k]
        BY <2>3, <3>2 DEF dis
      <4>4. C!Statuses(e, m) = C!Statuses(e, mapping)
        BY <4>3, StatusesOfTheirOwn
      <4> QED BY <4>1, <4>2, <4>4
    <3> QED BY <3>1, <3>2
  <2> QED BY <2>1, <2>5, <2>6, <2>7, <2>8, <2>9 DEF MappingsRight
<1> QED BY <1>1, <1>2, <1>3, <1>4

(* Before anything is evaluated there is nothing to be wrong.               *)
LEMMA MappingsStart == C!Init => MappingsRight
<1> SUFFICES ASSUME C!Init PROVE MappingsRight
  OBVIOUS
<1>1. \A rd \in Required : MapSound(rd, C!NoMapping)
  BY DEF MapSound, Worthy, C!NoMapping
<1>2. JobSound(C!Idle)
  BY DEF JobSound, C!Idle
<1>3. data \in [Required -> SUBSET Candidate]
  BY DEF C!Init
<1>4. DOMAIN mapping = Required /\ \A rd \in Required : mapping[rd] = C!NoMapping
  BY DEF C!Init
<1>5. DOMAIN disclosure = C!Disclosure /\ \A dis \in C!Disclosure : disclosure[dis] = None
  BY DEF C!Init
<1>6. DOMAIN job = Client /\ \A c \in Client : job[c] = C!Idle
  BY DEF C!Init
<1>7. C!CompleteIsConfirmed
  BY <1>4 DEF C!CompleteIsConfirmed, C!NoMapping
<1>8. C!DisclosureAgrees
  BY <1>5 DEF C!DisclosureAgrees
<1> QED BY <1>1, <1>2, <1>3, <1>4, <1>5, <1>6, <1>7, <1>8 DEF MappingsRight, C!Init

(* Filings and failures change no mapping.                                  *)
LEMMA FilingsLeaveMappings ==
    ASSUME MappingsRight, NEW c \in Client, C!FilingNext(c) \/ C!Abort(c)
    PROVE  MappingsRight'
<1> DEFINE Other(j) == j.op \notin {"evaluation", "confirm", "roll up", "confirmed"}
<1>1. UNCHANGED <<data, mapping, disclosure, control, unsettled, crossed>>
  BY DEF C!FilingNext, C!BeginFiling, C!AssembleFiling, C!ReadPreviousVersion, C!CreateFiling,
         C!Abort, C!rows, C!history
<1>2. \E j : job' = [job EXCEPT ![c] = j] /\ Other(j)
  <2>1. ASSUME NEW p \in ReportingPeriod, C!BeginFiling(c, p)
        PROVE  \E j : job' = [job EXCEPT ![c] = j] /\ Other(j)
    <3> DEFINE j == [op |-> "filing", period |-> p, read |-> mapping]
    <3>1. job' = [job EXCEPT ![c] = j] /\ j.op = "filing"
      BY <2>1 DEF C!BeginFiling
    <3> HIDE DEF j
    <3> QED BY <3>1
  <2>2. ASSUME C!AssembleFiling(c)
        PROVE  \E j : job' = [job EXCEPT ![c] = j] /\ Other(j)
    <3> DEFINE resolution == [rd \in Required |-> C!Classified(rd, job[c].read[rd])]
               j == [op |-> "stored", period |-> job[c].period,
                     reported |-> {rd \in Required : resolution[rd] = "reported"}]
    <3>1. job' = [job EXCEPT ![c] = j] /\ j.op = "stored"
      BY <2>2 DEF C!AssembleFiling
    <3> HIDE DEF j
    <3> QED BY <3>1
  <2>3. ASSUME C!ReadPreviousVersion(c)
        PROVE  \E j : job' = [job EXCEPT ![c] = j] /\ Other(j)
    <3> DEFINE j == [op |-> "versioned", period |-> job[c].period, reported |-> job[c].reported,
                     next |-> C!NextVersion(job[c].period)]
    <3>1. job' = [job EXCEPT ![c] = j] /\ j.op = "versioned"
      BY <2>3 DEF C!ReadPreviousVersion
    <3> HIDE DEF j
    <3> QED BY <3>1
  <2>4. ASSUME C!CreateFiling(c) \/ C!Abort(c)
        PROVE  \E j : job' = [job EXCEPT ![c] = j] /\ Other(j)
    <3>1. job' = [job EXCEPT ![c] = C!Idle] /\ C!Idle.op = "idle"
      BY <2>4 DEF C!CreateFiling, C!Abort, C!Idle
    <3> QED BY <3>1
  <2> QED BY <2>1, <2>2, <2>3, <2>4 DEF C!FilingNext
<1>3. PICK j : job' = [job EXCEPT ![c] = j] /\ Other(j)
  BY <1>2
<1>4. JobSound(j)
  BY <1>3 DEF JobSound
<1> QED BY <1>1, <1>3, <1>4, JobMoves

(* Every step keeps the mappings right.                                     *)
LEMMA MappingsStep == MappingsRight /\ C!Next => MappingsRight'
<1> SUFFICES ASSUME MappingsRight, C!Next PROVE MappingsRight'
  OBVIOUS
<1>1. ASSUME UNCHANGED <<mapping, disclosure, job, unsettled, crossed>>,
             data' \in [Required -> SUBSET Candidate],
             control' = None \/ control'.status \in {"not_implemented", "implemented", "passed", "failed"}
      PROVE  MappingsRight'
  <2>1. C!CompleteIsConfirmed' /\ C!DisclosureAgrees'
    BY <1>1 DEF MappingsRight, C!CompleteIsConfirmed, C!DisclosureAgrees
  <2> QED BY <1>1, <2>1 DEF MappingsRight
<1>2. CASE C!LoadRuleStore
  BY <1>1, <1>2 DEF C!LoadRuleStore, C!history, MappingsRight
<1>3. ASSUME NEW rd \in Required, NEW d \in Candidate, C!AddDatapoint(rd, d) PROVE MappingsRight'
  <2>1. data' \in [Required -> SUBSET Candidate]
    BY <1>3 DEF C!AddDatapoint, MappingsRight
  <2> QED BY <1>1, <1>3, <2>1 DEF C!AddDatapoint, C!history, MappingsRight
<1>4. ASSUME NEW e \in Evidence, NEW status \in {"expired", "rejected"}, C!EvidenceTurns(e, status)
      PROVE  MappingsRight'
  BY <1>1, <1>4 DEF C!EvidenceTurns, C!history, MappingsRight
<1>5. ASSUME NEW status \in {None, "failed"}, C!UpsertControl(status) PROVE MappingsRight'
  <2> DEFINE old == IF control = None THEN [status |-> "not_implemented", tested |-> FALSE] ELSE control
  <2>1. old.status \in {"not_implemented", "implemented", "passed", "failed"}
    BY DEF MappingsRight
  <2>2. control'.status = IF status = None THEN old.status ELSE status
    BY <1>5 DEF C!UpsertControl
  <2> HIDE DEF old
  <2>3. control'.status \in {"not_implemented", "implemented", "passed", "failed"}
    BY <2>1, <2>2
  <2> QED BY <1>1, <1>5, <2>3 DEF C!UpsertControl, C!history, MappingsRight
<1> QED BY <1>2, <1>3, <1>4, <1>5, EvaluationSteps, ConfirmationSteps, FilingsLeaveMappings DEF C!Next

(* And makes the views agree: what a complete mapping has is what a filing  *)
(* asks for, but for the evidence that has lapsed.                          *)
LEMMA MappingsAgree ==
    MappingsRight => C!TypeOK /\ C!CompleteIsConfirmed /\ C!DisclosureAgrees /\ C!CompleteIsReported
<1> SUFFICES ASSUME MappingsRight
             PROVE  C!TypeOK /\ C!CompleteIsReported
  BY DEF MappingsRight
<1>1. C!TypeOK
  BY DEF MappingsRight, MapSound, Worthy, C!TypeOK
<1>2. ASSUME NEW rd \in Required \ unsettled, mapping[rd] # C!NoMapping,
             "verified" \in C!StatusesOf(mapping[rd])
      PROVE  C!Classified(rd, mapping[rd]) = "reported" <=> mapping[rd].status = "mapping_complete"
  <2> DEFINE m == mapping[rd]
  <2>1. m.status = "mapping_complete" =>
          /\ m.confirmed /\ m.hasValue
          /\ m.trust # None /\ m.trust \in Nat /\ m.trust >= C!MinTrust(RuleOf[rd])
    BY DEF MappingsRight, MapSound, Worthy, C!CompleteIsConfirmed
  <2>2. ~(C!StatusesOf(m) \subseteq {"rejected", "expired", "superseded"})
    BY <1>2
  <2>3. C!Classified(rd, m) = C!ClassifyFilingDatapoint(RuleOf[rd], m, C!StatusesOf(m))
    BY <1>2 DEF C!Classified
  <2>4. RuleOf[rd].minTrust # None =>
          RuleOf[rd].minTrust \in Nat /\ C!MinTrust(RuleOf[rd]) = RuleOf[rd].minTrust
    BY AssuranceAssumption DEF C!ComplianceAssumption, C!MinTrust
  <2>5. m.status = "mapping_complete" =>
          ~(RuleOf[rd].minTrust # None /\ (m.trust = None \/ m.trust < RuleOf[rd].minTrust))
    BY <2>1, <2>4
  <2> HIDE DEF m
  <2>6. C!Classified(rd, m) = "reported" <=> m.status = "mapping_complete"
    BY <2>1, <2>2, <2>3, <2>5 DEF C!ClassifyFilingDatapoint
  <2> QED BY <2>6 DEF m
<1> QED BY <1>1, <1>2 DEF C!CompleteIsReported

Filing == [version : Nat, supersedes : Nat, readiness : {"ready", "blocked"}]

(* What a filing has read of the last version may be out of date when it is *)
(* stored, but it was the last version of some moment: the number it will   *)
(* take is at most one more than there are versions.  The unique index then *)
(* leaves it one number, the next.                                          *)
Numbered(f) == \A i \in 1..Len(f) : f[i].version = i /\ f[i].supersedes = i - 1
ReadsAreOld ==
    \A c \in Client :
       /\ "op" \in DOMAIN job[c]
       /\ job[c].op \in {"filing", "stored", "versioned"} => job[c].period \in ReportingPeriod
       /\ job[c].op = "versioned" =>
            /\ job[c].next.version \in 1..(Len(filing[job[c].period]) + 1)
            /\ job[c].next.supersedes = job[c].next.version - 1
ChainInv ==
    /\ filing \in [ReportingPeriod -> Seq(Filing)]
    /\ \A p \in ReportingPeriod : Numbered(filing[p])
    /\ DOMAIN job = Client
    /\ ReadsAreOld

(* No filing exists at first.                                               *)
LEMMA ChainInit == C!Init => ChainInv
  BY DEF C!Init, ChainInv, ReadsAreOld, Numbered, C!Idle

(* A stored filing takes the number after the last, and nothing else.       *)
LEMMA FilingIsNext ==
    ASSUME ChainInv, NEW c \in Client, C!CreateFiling(c)
    PROVE  /\ job[c].period \in ReportingPeriod
           /\ \E row \in Filing :
                /\ row.version = Len(filing[job[c].period]) + 1
                /\ row.supersedes = Len(filing[job[c].period])
                /\ filing' = [filing EXCEPT ![job[c].period] = Append(@, row)]
           /\ job' = [job EXCEPT ![c] = C!Idle]
<1> DEFINE p == job[c].period
           n == job[c].next
           row == [version |-> n.version, supersedes |-> n.supersedes,
                   readiness |-> IF job[c].reported = Required THEN "ready" ELSE "blocked"]
<1>1. p \in ReportingPeriod /\ filing[p] \in Seq(Filing) /\ Numbered(filing[p])
  BY DEF ChainInv, ReadsAreOld, C!CreateFiling
<1>2. n.version \in 1..(Len(filing[p]) + 1) /\ n.supersedes = n.version - 1
  BY DEF ChainInv, ReadsAreOld, C!CreateFiling
<1>3. \A i \in 1..Len(filing[p]) : i # n.version
  BY <1>1 DEF C!CreateFiling, C!VersionIsFree, Numbered
<1>4. n.version = Len(filing[p]) + 1
  BY <1>1, <1>2, <1>3
<1>5. row \in Filing /\ row.version = Len(filing[p]) + 1 /\ row.supersedes = Len(filing[p])
  BY <1>1, <1>2, <1>4 DEF Filing
<1>6. filing' = [filing EXCEPT ![p] = Append(@, row)] /\ job' = [job EXCEPT ![c] = C!Idle]
  BY DEF C!CreateFiling
<1> HIDE DEF row
<1> QED BY <1>1, <1>5, <1>6

(* A step of a client that leaves the filings alone keeps the invariant if  *)
(* what it makes of its job is no filing, or one that reads what there is.  *)
Works(c) == DOMAIN job' = Client /\ \A d \in Client \ {c} : job'[d] = job[d]
Harmless(j) ==
    /\ "op" \in DOMAIN j
    /\ j.op \in {"filing", "stored", "versioned"} => j.period \in ReportingPeriod
    /\ j.op = "versioned" =>
         /\ j.next.version \in 1..(Len(filing[j.period]) + 1)
         /\ j.next.supersedes = j.next.version - 1
(* One compilation moves and no filing is added.                            *)
LEMMA JobsKeep ==
    ASSUME ChainInv, UNCHANGED filing, NEW c \in Client, Works(c), Harmless(job'[c])
    PROVE  ChainInv'
<1>1. ReadsAreOld'
  BY DEF ChainInv, ReadsAreOld, Harmless, Works
<1> QED BY <1>1 DEF ChainInv, Numbered, Works

(* Every step keeps the chain.                                              *)
LEMMA ChainStep == ChainInv /\ [C!Next]_C!vars => ChainInv'
<1> SUFFICES ASSUME ChainInv, [C!Next]_C!vars PROVE ChainInv'
  OBVIOUS
<1>1. CASE UNCHANGED <<filing, job>>
  BY <1>1 DEF ChainInv, ReadsAreOld, Numbered
<1>2. ASSUME NEW c \in Client, NEW p \in ReportingPeriod \cup {None}, C!RunComplianceEvaluation(c, p)
      PROVE  ChainInv'
  <2>1. UNCHANGED filing /\ Works(c)
    BY <1>2 DEF C!RunComplianceEvaluation, ChainInv, Works, C!rows
  <2>2. Harmless(job'[c])
    BY <1>2 DEF C!RunComplianceEvaluation, ChainInv, Harmless
  <2> QED BY <2>1, <2>2, JobsKeep
<1>3. ASSUME NEW c \in Client, C!UpsertMapping(c)
      PROVE  ChainInv'
  <2>1. UNCHANGED filing /\ Works(c)
    BY <1>3 DEF C!UpsertMapping, ChainInv, Works, C!rows
  <2>2. Harmless(job'[c])
    BY <1>3 DEF C!UpsertMapping, ChainInv, Harmless, ReadsAreOld
  <2> QED BY <2>1, <2>2, JobsKeep
<1>4. ASSUME NEW c \in Client, NEW rd \in Required, NEW confirm \in BOOLEAN, C!BeginConfirm(c, rd, confirm)
      PROVE  ChainInv'
  <2>1. UNCHANGED filing /\ Works(c)
    BY <1>4 DEF C!BeginConfirm, ChainInv, Works, C!rows
  <2>2. Harmless(job'[c])
    BY <1>4 DEF C!BeginConfirm, ChainInv, Harmless
  <2> QED BY <2>1, <2>2, JobsKeep
<1>5. ASSUME NEW c \in Client, C!ConfirmMapping(c)
      PROVE  ChainInv'
  <2>1. UNCHANGED filing /\ Works(c)
    BY <1>5 DEF C!ConfirmMapping, ChainInv, Works, C!rows
  <2>2. Harmless(job'[c])
    BY <1>5 DEF C!ConfirmMapping, ChainInv, Harmless
  <2> QED BY <2>1, <2>2, JobsKeep
<1>6. ASSUME NEW c \in Client, C!RecomputeRollup(c)
      PROVE  ChainInv'
  <2>1. UNCHANGED filing /\ Works(c)
    BY <1>6 DEF C!RecomputeRollup, ChainInv, Works, C!rows
  <2>2. Harmless(job'[c])
    BY <1>6 DEF C!RecomputeRollup, ChainInv, Harmless
  <2> QED BY <2>1, <2>2, JobsKeep
<1>7. ASSUME NEW c \in Client, C!CompleteEvaluation(c) \/ C!CompleteConfirm(c) \/ C!Abort(c)
      PROVE  ChainInv'
  <2>1. UNCHANGED filing /\ Works(c)
    BY <1>7 DEF C!CompleteEvaluation, C!CompleteConfirm, C!Abort, ChainInv, Works, C!rows
  <2>2. Harmless(job'[c])
    BY <1>7 DEF C!CompleteEvaluation, C!CompleteConfirm, C!Abort, ChainInv, Harmless, C!Idle
  <2> QED BY <2>1, <2>2, JobsKeep
<1>8. ASSUME NEW c \in Client, NEW p \in ReportingPeriod, C!BeginFiling(c, p)
      PROVE  ChainInv'
  <2>1. UNCHANGED filing /\ Works(c)
    BY <1>8 DEF C!BeginFiling, ChainInv, Works, C!rows
  <2>2. Harmless(job'[c])
    BY <1>8 DEF C!BeginFiling, ChainInv, Harmless
  <2> QED BY <2>1, <2>2, JobsKeep
<1>9. ASSUME NEW c \in Client, C!AssembleFiling(c)
      PROVE  ChainInv'
  <2>1. UNCHANGED filing /\ Works(c)
    BY <1>9 DEF C!AssembleFiling, ChainInv, Works, C!rows
  <2>2. Harmless(job'[c])
    BY <1>9 DEF C!AssembleFiling, ChainInv, Harmless, ReadsAreOld
  <2> QED BY <2>1, <2>2, JobsKeep
<1>10. ASSUME NEW c \in Client, C!ReadPreviousVersion(c)
      PROVE  ChainInv'
  <2>1. UNCHANGED filing /\ Works(c)
    BY <1>10 DEF C!ReadPreviousVersion, ChainInv, Works, C!rows
  <2>2. job[c].period \in ReportingPeriod /\ Len(filing[job[c].period]) \in Nat
    BY <1>10 DEF C!ReadPreviousVersion, ChainInv, ReadsAreOld
  <2>3. Harmless(job'[c])
    BY <1>10, <2>2 DEF C!ReadPreviousVersion, C!NextVersion, ChainInv, Harmless
  <2> QED BY <2>1, <2>3, JobsKeep
<1>11. ASSUME NEW c \in Client, C!CreateFiling(c) PROVE ChainInv'
  <2> DEFINE p == job[c].period
  <2>1. PICK row \in Filing :
          /\ row.version = Len(filing[p]) + 1
          /\ row.supersedes = Len(filing[p])
          /\ filing' = [filing EXCEPT ![p] = Append(@, row)]
    BY <1>11, FilingIsNext
  <2>2. p \in ReportingPeriod /\ job' = [job EXCEPT ![c] = C!Idle]
    BY <1>11, FilingIsNext
  <2>3. filing' \in [ReportingPeriod -> Seq(Filing)] /\ filing'[p] = Append(filing[p], row)
        /\ \A q \in ReportingPeriod \ {p} : filing'[q] = filing[q]
    BY <2>1, <2>2 DEF ChainInv
  <2>4. Numbered(filing'[p])
    BY <2>1, <2>2, <2>3 DEF Numbered, ChainInv
  <2>5. \A q \in ReportingPeriod : Len(filing'[q]) \in Nat /\ Len(filing[q]) \in Nat
                          /\ Len(filing'[q]) >= Len(filing[q])
    <3> SUFFICES ASSUME NEW q \in ReportingPeriod
                 PROVE  Len(filing'[q]) \in Nat /\ Len(filing[q]) \in Nat
                        /\ Len(filing'[q]) >= Len(filing[q])
      OBVIOUS
    <3>1. filing[q] \in Seq(Filing) /\ filing'[q] \in Seq(Filing)
      BY <2>3 DEF ChainInv
    <3>2. CASE q = p
      BY <3>1, <3>2, <2>3
    <3>3. CASE q # p
      BY <3>1, <3>3, <2>3
    <3> QED BY <3>2, <3>3
  <2>6. DOMAIN job' = Client /\ job'[c] = C!Idle /\ \A d \in Client \ {c} : job'[d] = job[d]
    BY <2>2 DEF ChainInv
  <2>7. ReadsAreOld'
    <3> SUFFICES ASSUME NEW d \in Client
                 PROVE  /\ "op" \in DOMAIN job'[d]
                        /\ job'[d].op \in {"filing", "stored", "versioned"} => job'[d].period \in ReportingPeriod
                        /\ job'[d].op = "versioned" =>
                             /\ job'[d].next.version \in 1..(Len(filing'[job'[d].period]) + 1)
                             /\ job'[d].next.supersedes = job'[d].next.version - 1
      BY DEF ReadsAreOld
    <3>1. CASE d = c
      BY <3>1, <2>6 DEF C!Idle
    <3>2. CASE d # c
      BY <3>2, <2>5, <2>6 DEF ChainInv, ReadsAreOld
    <3> QED BY <3>1, <3>2
  <2>8. \A q \in ReportingPeriod : Numbered(filing'[q])
    BY <2>3, <2>4 DEF ChainInv
  <2> HIDE DEF p
  <2> QED BY <2>3, <2>6, <2>7, <2>8 DEF ChainInv
<1>12. CASE C!LoadRuleStore
  BY <1>12, <1>1 DEF C!LoadRuleStore
<1>13. ASSUME NEW rd \in Required, NEW d \in Candidate, C!AddDatapoint(rd, d) PROVE ChainInv'
  BY <1>13, <1>1 DEF C!AddDatapoint
<1>14. ASSUME NEW e \in Evidence, NEW status \in {"expired", "rejected"}, C!EvidenceTurns(e, status)
       PROVE  ChainInv'
  BY <1>14, <1>1 DEF C!EvidenceTurns
<1>15. ASSUME NEW status \in {None, "failed"}, C!UpsertControl(status) PROVE ChainInv'
  BY <1>15, <1>1 DEF C!UpsertControl
<1>16. CASE UNCHANGED C!vars
  BY <1>16, <1>1 DEF C!vars
<1> QED BY <1>2, <1>3, <1>4, <1>5, <1>6, <1>7, <1>8, <1>9, <1>10, <1>11, <1>12, <1>13, <1>14,
           <1>15, <1>16 DEF C!Next, C!FilingNext

-----------------------------------------------------------------------------
(* No filings have no versions.                                             *)
LEMMA VersionsOfNone == C!VersionsOf(<<>>) = <<>>
  BY DEF C!VersionsOf

(* One more filing adds its version at the end.                             *)
LEMMA VersionsOfMore ==
    ASSUME NEW f \in Seq(Filing), NEW row \in Filing
    PROVE  /\ Len(C!VersionsOf(f)) = Len(f)
           /\ C!VersionsOf(Append(f, row))
                = Append(C!VersionsOf(f), [version |-> row.version, supersedes |-> row.supersedes])
<1> DEFINE more == Append(f, row)
           n == Len(f)
           last == [version |-> row.version, supersedes |-> row.supersedes]
           Versions == [version : Nat, supersedes : Nat]
<1>1. n \in Nat /\ DOMAIN f = 1..n /\ DOMAIN more = 1..(n + 1)
      /\ more[n + 1] = row /\ \A i \in 1..n : more[i] = f[i] /\ f[i] \in Filing
  OBVIOUS
<1>2. C!VersionsOf(f) \in Seq(Versions) /\ Len(C!VersionsOf(f)) = n /\ last \in Versions
  BY <1>1 DEF C!VersionsOf, Filing
<1>3. DOMAIN C!VersionsOf(more) = 1..(n + 1)
      /\ \A i \in 1..(n + 1) : C!VersionsOf(more)[i] = Append(C!VersionsOf(f), last)[i]
  BY <1>1, <1>2 DEF C!VersionsOf
<1>4. C!VersionsOf(more) \in Seq(Versions)
  BY <1>1 DEF C!VersionsOf, Filing
<1>5. Append(C!VersionsOf(f), last) \in Seq(Versions) /\ Len(Append(C!VersionsOf(f), last)) = n + 1
  BY <1>1, <1>2
<1>6. Len(C!VersionsOf(more)) = n + 1
  BY <1>3, <1>4
<1> HIDE DEF more, last, Versions
<1>7. C!VersionsOf(more) = Append(C!VersionsOf(f), last)
  BY <1>3, <1>4, <1>5, <1>6, SeqEqual
<1> QED BY <1>2, <1>7 DEF more, last

-----------------------------------------------------------------------------
(* Filings move the chain of their period by one version, or not at all.    *)
LEMMA ChainsExtend == ChainInv /\ [C!Next]_C!vars => [C!Chain!Next]_C!FilingChain
<1> SUFFICES ASSUME ChainInv, [C!Next]_C!vars PROVE C!Chain!Next \/ UNCHANGED C!FilingChain
  OBVIOUS
<1>1. CASE UNCHANGED filing
  BY <1>1 DEF C!FilingChain
<1>2. ASSUME NEW c \in Client, C!CreateFiling(c)
      PROVE  C!Chain!Next
  <2> DEFINE p == job[c].period
             added == [version |-> Len(filing[p]) + 1, supersedes |-> Len(filing[p])]
  <2>1. PICK row \in Filing :
          /\ row.version = Len(filing[p]) + 1
          /\ row.supersedes = Len(filing[p])
          /\ filing' = [filing EXCEPT ![p] = Append(@, row)]
    BY <1>2, FilingIsNext
  <2>2. p \in ReportingPeriod /\ filing[p] \in Seq(Filing)
    BY <1>2, FilingIsNext DEF ChainInv
  <2>3. filing' \in [ReportingPeriod -> Seq(Filing)] /\ filing'[p] = Append(filing[p], row)
        /\ \A q \in ReportingPeriod \ {p} : filing'[q] = filing[q]
    BY <2>1, <2>2 DEF ChainInv
  <2>4. C!VersionsOf(filing'[p]) = Append(C!VersionsOf(filing[p]), added)
        /\ Len(C!VersionsOf(filing[p])) = Len(filing[p])
    BY <2>1, <2>2, <2>3, VersionsOfMore
  <2>5. C!FilingChain' = [C!FilingChain EXCEPT ![p] = Append(@, added)]
    BY <2>2, <2>3, <2>4 DEF C!FilingChain
  <2>6. C!Chain!Extend(p)
    BY <2>2, <2>4, <2>5 DEF C!Chain!Extend, C!FilingChain
  <2> QED BY <2>2, <2>6 DEF C!Chain!Next
<1>3. CASE UNCHANGED C!vars
  BY <1>3, <1>1 DEF C!vars
<1> QED
  BY <1>1, <1>2, <1>3
  DEF C!Next, C!FilingNext, C!LoadRuleStore, C!AddDatapoint, C!EvidenceTurns, C!UpsertControl, C!RunComplianceEvaluation,
      C!UpsertMapping, C!CompleteEvaluation, C!BeginConfirm, C!ConfirmMapping, C!RecomputeRollup,
      C!CompleteConfirm, C!BeginFiling, C!AssembleFiling, C!ReadPreviousVersion, C!Abort, C!rows

-----------------------------------------------------------------------------
(* What the rows say a score is made of.                                    *)
Provenance == {"measured", "supplier_reported", "calculated", "estimated", "modeled", "inferred"}
Methodology == {"supplier_specific", "fuel_based", "energy_based", "distance_based", "hybrid",
                "average_data", "spend_based"}
RowSound(r) ==
    /\ "links" \in DOMAIN r /\ r.links \subseteq Evidence
    /\ r.provenance \in Provenance /\ r.period \in Int \cup {None}
    /\ r.factor # None => r.factor.methodology \in Methodology
TrustRight ==
    /\ DOMAIN dp = Datapoint /\ \A d \in Datapoint : D!Exists(d) => RowSound(dp[d])
    /\ DOMAIN proof = Evidence /\ active \in Int
    /\ \A e \in Evidence : /\ {"status", "expires", "passed"} \subseteq DOMAIN proof[e]
                           /\ proof[e].expires \in Int \cup {None}

(* So do all that may be created.                                           *)
LEMMA RowsAreSound == \A r \in Rows : RowSound(r)
  BY DEF RowSound, Rows, Row, Reported, Factors, Fits, Provenance, Methodology

(* The dimensions of the score that move, of a row, the evidence and the    *)
(* active period; the others depend on what a row keeps.                    *)
Shows(r, pr) == {pr[e] : e \in r.links}
IsCurrent(p, a) == p.expires = None \/ p.expires >= 365 * a
Attached(r, pr, a) ==
    IF \E p \in Shows(r, pr) : p.status \in D!LiveStatus /\ IsCurrent(p, a) THEN 20
    ELSE IF Shows(r, pr) # {} THEN 6 ELSE 0
VerifiedBy(r, pr) ==
    IF r.label = "verified" \/ \E p \in Shows(r, pr) : p.status = "verified" THEN 15
    ELSE IF r.label = "human_reviewed" THEN 7 ELSE 0
Freshness(r, a) ==
    IF r.period = None THEN 0
    ELSE IF a - r.period <= 0 THEN 9 ELSE IF a - r.period = 1 THEN 5 ELSE IF a - r.period = 2 THEN 2 ELSE 0
Complete(r) ==
    LET required == IF r.factor = None THEN 3 ELSE 4
        present == D!Points(r.unit # None, 1) + D!Points(r.period # None, 1)
                   + D!Points(r.links # {}, 1) + required - 3
    IN  (2 * 6 * present + required) \div (2 * required)
Fixed(d) == D!PrimaryData(d) + D!FactorQuality(dp[d].factor) + D!UnitMethodology(d)

(* They are those of the model.                                             *)
LEMMA ScoreIs ==
    ASSUME NEW d \in Datapoint
    PROVE  /\ D!EvidenceAttached(d) = Attached(dp[d], proof, active)
           /\ D!Verified(d) = VerifiedBy(dp[d], proof)
           /\ D!PeriodFreshness(d) = Freshness(dp[d], active)
           /\ D!Completeness(d) = Complete(dp[d])
<1>1. D!Links(d) = Shows(dp[d], proof)
  BY DEF D!Links, Shows
<1>2. \A p : D!Current(p) <=> IsCurrent(p, active)
  BY DEF D!Current, D!Today, D!LastDay, IsCurrent
<1>3. D!EvidenceAttached(d) = Attached(dp[d], proof, active)
  BY <1>1, <1>2 DEF D!EvidenceAttached, Attached
<1>4. D!Verified(d) = VerifiedBy(dp[d], proof)
  BY <1>1 DEF D!Verified, VerifiedBy
<1>5. D!PeriodFreshness(d) = Freshness(dp[d], active)
  BY DEF D!PeriodFreshness, Freshness
<1>6. D!Completeness(d) = Complete(dp[d])
  BY DEF D!Completeness, Complete
<1> QED BY <1>3, <1>4, <1>5, <1>6

(* What does not move is a number.                                          *)
LEMMA FixedIsInt ==
    ASSUME NEW d \in Datapoint, RowSound(dp[d])
    PROVE  Fixed(d) \in Int
<1> DEFINE r == dp[d]  f == dp[d].factor
<1>1. RowSound(r)
  OBVIOUS
<1>2. D!PrimaryData(d) \in Int
  BY <1>1 DEF RowSound, D!PrimaryData, Provenance
<1>3. \A b, n : D!Points(b, n) = IF b THEN n ELSE 0
  BY DEF D!Points
<1>4. D!FactorQuality(f) \in Int
  BY <1>3 DEF D!FactorQuality
<1>5. f # None => D!Tier(f.methodology) \in Int
  BY <1>1 DEF RowSound, D!Tier, Methodology
<1>6. D!UnitMethodology(d) \in Int
  BY <1>3, <1>5 DEF D!UnitMethodology
<1> QED BY <1>2, <1>4, <1>6 DEF Fixed

(* A score is the sum of what moves and what does not.                      *)
LEMMA ScoreAddsUp ==
    ASSUME NEW d \in Datapoint, RowSound(dp[d])
    PROVE  /\ Fixed(d) \in Int /\ Attached(dp[d], proof, active) \in Int /\ VerifiedBy(dp[d], proof) \in Int
           /\ Freshness(dp[d], active) \in Int /\ Complete(dp[d]) \in Int
           /\ D!ScoreDatapoint(d) = Fixed(d) + Attached(dp[d], proof, active) + VerifiedBy(dp[d], proof)
                                    + Freshness(dp[d], active) + Complete(dp[d])
<1>1. /\ Attached(dp[d], proof, active) \in Int /\ VerifiedBy(dp[d], proof) \in Int
      /\ Freshness(dp[d], active) \in Int
  BY DEF Attached, VerifiedBy, Freshness
<1>2. Complete(dp[d]) \in Int
  BY DEF Complete, D!Points
<1>3. Fixed(d) \in Int
  BY FixedIsInt
<1>4. D!PrimaryData(d) \in Int /\ D!FactorQuality(dp[d].factor) \in Int /\ D!UnitMethodology(d) \in Int
  <2>1. RowSound(dp[d])
    OBVIOUS
  <2>2. D!PrimaryData(d) \in Int
    BY <2>1 DEF RowSound, D!PrimaryData, Provenance
  <2>3. \A b, n : D!Points(b, n) = IF b THEN n ELSE 0
    BY DEF D!Points
  <2>4. D!FactorQuality(dp[d].factor) \in Int
    BY <2>3 DEF D!FactorQuality
  <2>5. dp[d].factor # None => D!Tier(dp[d].factor.methodology) \in Int
    BY <2>1 DEF RowSound, D!Tier, Methodology
  <2>6. D!UnitMethodology(d) \in Int
    BY <2>3, <2>5 DEF D!UnitMethodology
  <2> QED BY <2>2, <2>4, <2>6
<1> QED BY <1>1, <1>2, <1>3, <1>4, ScoreIs DEF D!ScoreDatapoint, Fixed

SameButLinks(r, s) ==
    /\ r.provenance = s.provenance /\ r.label = s.label /\ r.unit = s.unit /\ r.period = s.period
    /\ r.factor = s.factor

(* Of two rows that differ in their links, the one with more of them is     *)
(* scored no lower.                                                         *)
LEMMA MoreLinksHelp ==
    ASSUME NEW r, NEW s, SameButLinks(r, s), r.links \subseteq s.links, NEW pr, NEW a
    PROVE  /\ Attached(r, pr, a) <= Attached(s, pr, a) /\ VerifiedBy(r, pr) <= VerifiedBy(s, pr)
           /\ Freshness(r, a) = Freshness(s, a) /\ Complete(r) <= Complete(s)
<1>1. Shows(r, pr) \subseteq Shows(s, pr)
  BY DEF Shows
<1>2. Attached(r, pr, a) <= Attached(s, pr, a)
  BY <1>1 DEF Attached
<1>3. VerifiedBy(r, pr) <= VerifiedBy(s, pr)
  BY <1>1 DEF VerifiedBy, SameButLinks
<1>4. Freshness(r, a) = Freshness(s, a)
  BY DEF Freshness, SameButLinks
<1>5. Complete(r) <= Complete(s)
  <2>1. D!Points(r.links # {}, 1) <= D!Points(s.links # {}, 1)
    BY DEF D!Points
  <2>2. \A b : D!Points(b, 1) \in {0, 1}
    BY DEF D!Points
  <2> DEFINE u == D!Points(r.unit # None, 1)
             p == D!Points(r.period # None, 1)
             l == D!Points(r.links # {}, 1)
             m == D!Points(s.links # {}, 1)
  <2>3. Complete(r) = IF r.factor = None THEN (12 * (u + p + l) + 3) \div 6 ELSE (12 * (u + p + l + 1) + 4) \div 8
    <3>1. u \in {0, 1} /\ p \in {0, 1} /\ l \in {0, 1}
      BY <2>2
    <3>2. CASE r.factor = None
      <4>1. Complete(r) = (2 * 6 * (u + p + l + 3 - 3) + 3) \div (2 * 3)
        BY <3>2 DEF Complete
      <4> HIDE DEF u, p, l
      <4> QED BY <3>1, <3>2, <4>1
    <3>3. CASE r.factor # None
      <4>1. Complete(r) = (2 * 6 * (u + p + l + 4 - 3) + 4) \div (2 * 4)
        BY <3>3 DEF Complete
      <4> HIDE DEF u, p, l
      <4> QED BY <3>1, <3>3, <4>1
    <3> QED BY <3>2, <3>3
  <2>4. Complete(s) = IF r.factor = None THEN (12 * (u + p + m) + 3) \div 6 ELSE (12 * (u + p + m + 1) + 4) \div 8
    <3>1. u \in {0, 1} /\ p \in {0, 1} /\ m \in {0, 1}
      BY <2>2
    <3>2. D!Points(s.unit # None, 1) = u /\ D!Points(s.period # None, 1) = p
          /\ (s.factor = None <=> r.factor = None)
      BY DEF SameButLinks
    <3>3. CASE r.factor = None
      <4>1. Complete(s) = (2 * 6 * (u + p + m + 3 - 3) + 3) \div (2 * 3)
        BY <3>2, <3>3 DEF Complete
      <4> HIDE DEF u, p, m
      <4> QED BY <3>1, <3>3, <4>1
    <3>4. CASE r.factor # None
      <4>1. Complete(s) = (2 * 6 * (u + p + m + 4 - 3) + 4) \div (2 * 4)
        BY <3>2, <3>4 DEF Complete
      <4> HIDE DEF u, p, m
      <4> QED BY <3>1, <3>4, <4>1
    <3> QED BY <3>3, <3>4
  <2> HIDE DEF u, p, l, m
  <2>5. u \in {0, 1} /\ p \in {0, 1} /\ l \in {0, 1} /\ m \in {0, 1} /\ l <= m
    BY <2>1, <2>2 DEF u, p, l, m
  <2> QED BY <2>3, <2>4, <2>5
<1> QED BY <1>2, <1>3, <1>4, <1>5

(* The later the active period, the older the data and the evidence.        *)
LEMMA TimeHelpsNobody ==
    ASSUME NEW r, r.period \in Int \cup {None}, NEW pr, NEW a \in Int, NEW b \in Int, a <= b,
           \A p \in Shows(r, pr) : p.expires \in Int \cup {None}
    PROVE  Attached(r, pr, b) <= Attached(r, pr, a) /\ Freshness(r, b) <= Freshness(r, a)
<1>1. \A p \in Shows(r, pr) : IsCurrent(p, b) => IsCurrent(p, a)
  BY DEF IsCurrent
<1>2. Attached(r, pr, b) <= Attached(r, pr, a)
  BY <1>1 DEF Attached
<1>3. Freshness(r, b) <= Freshness(r, a)
  BY DEF Freshness
<1> QED BY <1>2, <1>3

(* p falls short of q.                                                      *)
Falls(p, q) ==
    /\ p.status = "verified" => q.status = "verified"
    /\ \A a : p.status \in D!LiveStatus /\ IsCurrent(p, a) => q.status \in D!LiveStatus /\ IsCurrent(q, a)
(* A row is scored no higher when its evidence falls.                       *)
LEMMA EvidenceFalls ==
    ASSUME NEW r, NEW pr, NEW qr, \A e \in r.links : Falls(pr[e], qr[e]), NEW a
    PROVE  Attached(r, pr, a) <= Attached(r, qr, a) /\ VerifiedBy(r, pr) <= VerifiedBy(r, qr)
<1>1. Shows(r, pr) = {pr[e] : e \in r.links} /\ Shows(r, qr) = {qr[e] : e \in r.links}
  BY DEF Shows
<1>2. /\ (\E p \in Shows(r, pr) : p.status = "verified") => \E q \in Shows(r, qr) : q.status = "verified"
      /\ (\E p \in Shows(r, pr) : p.status \in D!LiveStatus /\ IsCurrent(p, a))
           => \E q \in Shows(r, qr) : q.status \in D!LiveStatus /\ IsCurrent(q, a)
  BY <1>1 DEF Falls
<1>3. Shows(r, pr) # {} <=> Shows(r, qr) # {}
  BY <1>1
<1>4. Attached(r, pr, a) <= Attached(r, qr, a)
  BY <1>2, <1>3 DEF Attached
<1>5. VerifiedBy(r, pr) <= VerifiedBy(r, qr)
  BY <1>2 DEF VerifiedBy
<1> QED BY <1>4, <1>5

(* At first no datapoint exists.                                            *)
LEMMA TrustStarts == D!Init => TrustRight
  BY DEF D!Init, TrustRight, D!Exists

(* Every step keeps rows and evidence as they should be.                    *)
LEMMA TrustStep == TrustRight /\ D!TrustNext => TrustRight'
<1> SUFFICES ASSUME TrustRight, D!TrustNext PROVE TrustRight'
  OBVIOUS
<1>1. ASSUME NEW d \in Datapoint, NEW e \in Evidence, D!LinkDatapoint(d, e) \/ D!UnlinkDatapoint(d, e)
      PROVE  TrustRight'
  <2>1. UNCHANGED <<proof, active>> /\ D!Exists(d)
        /\ \E L \in SUBSET Evidence : dp' = [dp EXCEPT ![d].links = L]
    <3>1. D!Exists(d) /\ dp[d].links \subseteq Evidence
      BY <1>1 DEF D!LinkDatapoint, D!UnlinkDatapoint, TrustRight, RowSound
    <3> QED BY <1>1, <3>1 DEF D!LinkDatapoint, D!UnlinkDatapoint
  <2>2. PICK L \in SUBSET Evidence : dp' = [dp EXCEPT ![d].links = L]
    BY <2>1
  <2>3. RowSound(dp[d])
    BY <2>1 DEF TrustRight
  <2>4. RowSound(dp'[d]) /\ \A x \in Datapoint \ {d} : dp'[x] = dp[x]
    <3>1. dp'[d] = [dp[d] EXCEPT !.links = L] /\ \A x \in Datapoint \ {d} : dp'[x] = dp[x]
      BY <2>2 DEF TrustRight
    <3>2. dp'[d].links = L /\ dp'[d].provenance = dp[d].provenance /\ dp'[d].period = dp[d].period
          /\ dp'[d].factor = dp[d].factor /\ "links" \in DOMAIN dp'[d]
      BY <2>3, <3>1 DEF RowSound
    <3> QED BY <2>3, <3>1, <3>2 DEF RowSound
  <2> QED BY <2>1, <2>2, <2>4 DEF TrustRight, D!Exists
<1>2. ASSUME NEW r \in Rows, NEW its \in SUBSET Evidence
      PROVE  RowSound([r EXCEPT !.links = its])
  <2> DEFINE s == [r EXCEPT !.links = its]
  <2>1. RowSound(r)
    BY RowsAreSound
  <2>2. s.links = its /\ s.provenance = r.provenance /\ s.period = r.period /\ s.factor = r.factor
        /\ "links" \in DOMAIN s
    BY <2>1 DEF RowSound
  <2> HIDE DEF s
  <2> QED BY <2>1, <2>2 DEF RowSound
<1>3. ASSUME NEW d \in Datapoint, NEW r \in Rows, NEW its \in SUBSET Evidence,
             D!CreateDatapoint(d, r, its)
      PROVE  TrustRight'
  BY <1>2, <1>3 DEF D!CreateDatapoint, TrustRight, D!Exists
<1>4. ASSUME NEW d \in Datapoint, NEW new \in Datapoint, NEW r \in Rows, NEW its \in SUBSET Evidence,
             D!Recalculate(d, new, r, its)
      PROVE  TrustRight'
  <2>1. /\ D!Exists(d) /\ ~D!Exists(new) /\ d # new /\ UNCHANGED <<proof, active>>
        /\ r.factor # None /\ dp' = [dp EXCEPT ![d].factor = r.factor, ![new] = [r EXCEPT !.links = its]]
    BY <1>4 DEF D!Recalculate, D!OfSameActivity, D!Exists
  <2>2. RowSound(dp[d]) /\ RowSound(r)
    BY <2>1, RowsAreSound DEF TrustRight
  <2>3. /\ dp'[new] = [r EXCEPT !.links = its] /\ dp'[d] = [dp[d] EXCEPT !.factor = r.factor]
        /\ \A x \in Datapoint \ {d, new} : dp'[x] = dp[x]
    BY <2>1 DEF TrustRight
  <2>4. RowSound(dp'[d])
    <3>1. dp'[d].links = dp[d].links /\ dp'[d].provenance = dp[d].provenance
          /\ dp'[d].period = dp[d].period /\ "links" \in DOMAIN dp'[d]
          /\ (dp'[d].factor = r.factor \/ dp'[d].factor = dp[d].factor)
      BY <2>2, <2>3 DEF RowSound
    <3> QED BY <2>2, <3>1 DEF RowSound
  <2>5. RowSound(dp'[new])
    BY <1>2, <2>3
  <2> QED BY <2>1, <2>3, <2>4, <2>5 DEF TrustRight, D!Exists
<1>5. ASSUME NEW e \in Evidence, NEW from, NEW to, NEW today \in Int \cup {None},
             D!Transition(e, from, to, today)
      PROVE  TrustRight'
  <2>1. UNCHANGED <<dp, active>> /\ DOMAIN proof' = Evidence
        /\ \A x \in Evidence \ {e} : proof'[x] = proof[x]
    BY <1>5 DEF D!Transition, TrustRight
  <2>2. {"status", "expires", "passed"} \subseteq DOMAIN proof'[e] /\ proof'[e].expires \in Int \cup {None}
    BY <1>5 DEF D!Transition, TrustRight
  <2> QED BY <2>1, <2>2 DEF TrustRight, D!Exists
<1>6. CASE D!AdvancePeriod
  BY <1>6 DEF D!AdvancePeriod, TrustRight, D!Exists
<1>7. D!Today \in Int /\ D!Today + 1 \in Int
  BY DEF D!Today, D!LastDay, TrustRight
<1> QED BY <1>1, <1>3, <1>4, <1>5, <1>6, <1>7 DEF D!TrustNext

(* What ScoreIsMonotone asks of a step for one datapoint, and for all.      *)
Monotone(d) ==
    LET Better == D!ScoreDatapoint(d)' >= D!ScoreDatapoint(d)
        Worse == D!ScoreDatapoint(d)' <= D!ScoreDatapoint(d)
    IN  /\ dp[d].links \subseteq dp'[d].links /\ dp'[d].links # dp[d].links => Better
        /\ dp'[d].links \subseteq dp[d].links /\ dp'[d].links # dp[d].links => Worse
        /\ active' > active => Worse
        /\ \A e \in Evidence : proof'[e] # proof[e] =>
             IF proof'[e].status = "verified" THEN Better ELSE Worse
        /\ dp'[d] = dp[d] /\ active' = active /\ proof' = proof => Better /\ Worse
ScoresMove == \A d \in {x \in Datapoint : D!Exists(x)} : Monotone(d)

(* What is not of the links, the period or the evidence stays.              *)
LEMMA FixedStays ==
    ASSUME NEW d \in Datapoint, dp'[d] = dp[d] \/ SameButLinks(dp[d], dp'[d])
    PROVE  Fixed(d)' = Fixed(d)
<1>1. /\ dp'[d].provenance = dp[d].provenance /\ dp'[d].unit = dp[d].unit /\ dp'[d].factor = dp[d].factor
  BY DEF SameButLinks
<1>2. D!PrimaryData(d)' = D!PrimaryData(d)
  BY <1>1 DEF D!PrimaryData
<1>3. D!UnitMethodology(d)' = D!UnitMethodology(d)
  BY <1>1 DEF D!UnitMethodology, D!Resolves, D!Points, D!Tier
<1> QED BY <1>1, <1>2, <1>3 DEF Fixed

(* A score is the sum of its dimensions.                                    *)
AddsUp(d) ==
    /\ Fixed(d) \in Int /\ Attached(dp[d], proof, active) \in Int /\ VerifiedBy(dp[d], proof) \in Int
    /\ Freshness(dp[d], active) \in Int /\ Complete(dp[d]) \in Int
    /\ D!ScoreDatapoint(d) = Fixed(d) + Attached(dp[d], proof, active) + VerifiedBy(dp[d], proof)
                             + Freshness(dp[d], active) + Complete(dp[d])
(* All scores do,                                                           *)
LEMMA ScoresAddUp == \A d \in Datapoint : RowSound(dp[d]) => AddsUp(d)
  BY ScoreAddsUp DEF AddsUp
(* and still do after a step.                                               *)
LEMMA NewScoresAddUp == \A d \in Datapoint : RowSound(dp'[d]) => AddsUp(d)'
<1>1. (\A d \in Datapoint : RowSound(dp[d]) => AddsUp(d))'
  BY ScoresAddUp, PTL
<1>2. \A d \in Datapoint : RowSound(dp'[d]) <=> RowSound(dp[d])'
  BY DEF RowSound
<1> QED BY <1>1, <1>2

(* What is not of the links, the period or the evidence makes no difference. *)
LEMMA ScoresCompare ==
    ASSUME NEW d \in Datapoint, RowSound(dp[d]), RowSound(dp'[d]),
           Fixed(d)' = Fixed(d)
    PROVE  /\ /\ Attached(dp[d], proof, active) <= Attached(dp'[d], proof', active')
              /\ VerifiedBy(dp[d], proof) <= VerifiedBy(dp'[d], proof')
              /\ Freshness(dp[d], active) <= Freshness(dp'[d], active')
              /\ Complete(dp[d]) <= Complete(dp'[d])
              => D!ScoreDatapoint(d)' >= D!ScoreDatapoint(d)
           /\ /\ Attached(dp'[d], proof', active') <= Attached(dp[d], proof, active)
              /\ VerifiedBy(dp'[d], proof') <= VerifiedBy(dp[d], proof)
              /\ Freshness(dp'[d], active') <= Freshness(dp[d], active)
              /\ Complete(dp'[d]) <= Complete(dp[d])
              => D!ScoreDatapoint(d)' <= D!ScoreDatapoint(d)
<1>1. AddsUp(d) /\ AddsUp(d)'
  BY ScoresAddUp, NewScoresAddUp
<1>2. /\ Attached(dp'[d], proof', active') = Attached(dp[d], proof, active)'
      /\ VerifiedBy(dp'[d], proof') = VerifiedBy(dp[d], proof)'
      /\ Freshness(dp'[d], active') = Freshness(dp[d], active)'
      /\ Complete(dp'[d]) = Complete(dp[d])'
  BY DEF Attached, VerifiedBy, Freshness, Complete, Shows, IsCurrent, D!Points
<1>3. /\ Fixed(d)' \in Int /\ Attached(dp'[d], proof', active') \in Int /\ VerifiedBy(dp'[d], proof') \in Int
      /\ Freshness(dp'[d], active') \in Int /\ Complete(dp'[d]) \in Int
      /\ D!ScoreDatapoint(d)' = Fixed(d)' + Attached(dp'[d], proof', active') + VerifiedBy(dp'[d], proof')
                                + Freshness(dp'[d], active') + Complete(dp'[d])
  BY <1>1, <1>2 DEF AddsUp
<1>4. /\ Fixed(d) \in Int /\ Attached(dp[d], proof, active) \in Int /\ VerifiedBy(dp[d], proof) \in Int
      /\ Freshness(dp[d], active) \in Int /\ Complete(dp[d]) \in Int
      /\ D!ScoreDatapoint(d) = Fixed(d) + Attached(dp[d], proof, active) + VerifiedBy(dp[d], proof)
                               + Freshness(dp[d], active) + Complete(dp[d])
  BY <1>1 DEF AddsUp
<1> QED BY <1>3, <1>4

(* Links alone make the difference when neither evidence nor period changes, *)
(* and a new calculation is no one's concern.                               *)
LEMMA RowMoves ==
    ASSUME TrustRight, TrustRight', NEW d \in Datapoint, RowSound(dp[d]), RowSound(dp'[d]),
           UNCHANGED <<proof, active>>,
           SameButLinks(dp[d], dp'[d]) \/ dp'[d].links = dp[d].links
    PROVE  Monotone(d)
<1>1. proof' = proof /\ active' = active /\ ~(active' > active)
  BY DEF TrustRight
<1>2. ASSUME SameButLinks(dp[d], dp'[d]), dp[d].links \subseteq dp'[d].links
      PROVE  D!ScoreDatapoint(d)' >= D!ScoreDatapoint(d)
  <2>1. Fixed(d)' = Fixed(d)
    BY <1>2, FixedStays
  <2>2. /\ Attached(dp[d], proof, active) <= Attached(dp'[d], proof, active)
        /\ VerifiedBy(dp[d], proof) <= VerifiedBy(dp'[d], proof)
        /\ Freshness(dp[d], active) = Freshness(dp'[d], active) /\ Complete(dp[d]) <= Complete(dp'[d])
    BY <1>2, MoreLinksHelp
  <2>3. Freshness(dp[d], active) <= Freshness(dp'[d], active)
    BY <2>2, ScoresAddUp DEF AddsUp
  <2> QED BY <1>1, <2>1, <2>2, <2>3, ScoresCompare
<1>3. ASSUME SameButLinks(dp[d], dp'[d]), dp'[d].links \subseteq dp[d].links
      PROVE  D!ScoreDatapoint(d)' <= D!ScoreDatapoint(d)
  <2>1. Fixed(d)' = Fixed(d) /\ SameButLinks(dp'[d], dp[d])
    BY <1>3, FixedStays DEF SameButLinks
  <2>2. /\ Attached(dp'[d], proof, active) <= Attached(dp[d], proof, active)
        /\ VerifiedBy(dp'[d], proof) <= VerifiedBy(dp[d], proof)
        /\ Freshness(dp'[d], active) = Freshness(dp[d], active) /\ Complete(dp'[d]) <= Complete(dp[d])
    BY <1>3, <2>1, MoreLinksHelp
  <2>3. Freshness(dp'[d], active) <= Freshness(dp[d], active)
    BY <2>2, ScoresAddUp DEF AddsUp
  <2> QED BY <1>1, <2>1, <2>2, <2>3, ScoresCompare
<1>4. dp'[d] = dp[d] => SameButLinks(dp[d], dp'[d]) /\ dp[d].links \subseteq dp'[d].links
                        /\ dp'[d].links \subseteq dp[d].links
  BY DEF SameButLinks
<1>5. dp[d].links \subseteq dp'[d].links /\ dp'[d].links # dp[d].links
        => D!ScoreDatapoint(d)' >= D!ScoreDatapoint(d)
  BY <1>2
<1>6. dp'[d].links \subseteq dp[d].links /\ dp'[d].links # dp[d].links
        => D!ScoreDatapoint(d)' <= D!ScoreDatapoint(d)
  BY <1>3
<1>7. dp'[d] = dp[d] =>
        D!ScoreDatapoint(d)' >= D!ScoreDatapoint(d) /\ D!ScoreDatapoint(d)' <= D!ScoreDatapoint(d)
  BY <1>2, <1>3, <1>4
<1> QED BY <1>1, <1>5, <1>6, <1>7 DEF Monotone

(* When only evidence or the period changes, all is a matter of these.      *)
LEMMA RowStays ==
    ASSUME TrustRight, TrustRight', NEW d \in Datapoint, RowSound(dp[d]), UNCHANGED dp
    PROVE  /\ /\ Attached(dp[d], proof, active) <= Attached(dp[d], proof', active')
              /\ VerifiedBy(dp[d], proof) <= VerifiedBy(dp[d], proof')
              /\ Freshness(dp[d], active) <= Freshness(dp[d], active')
              => D!ScoreDatapoint(d)' >= D!ScoreDatapoint(d)
           /\ /\ Attached(dp[d], proof', active') <= Attached(dp[d], proof, active)
              /\ VerifiedBy(dp[d], proof') <= VerifiedBy(dp[d], proof)
              /\ Freshness(dp[d], active') <= Freshness(dp[d], active)
              => D!ScoreDatapoint(d)' <= D!ScoreDatapoint(d)
<1>1. dp'[d] = dp[d]
  OBVIOUS
<1>2. Fixed(d)' = Fixed(d)
  BY <1>1, FixedStays
<1>3. Complete(dp[d]) <= Complete(dp'[d]) /\ Complete(dp'[d]) <= Complete(dp[d])
  BY <1>1, ScoresAddUp DEF AddsUp
<1> QED BY <1>1, <1>2, <1>3, ScoresCompare

(* No one gains by the end of a period.                                     *)
LEMMA PeriodMoves ==
    ASSUME TrustRight, TrustRight', NEW d \in Datapoint, RowSound(dp[d]), D!AdvancePeriod
    PROVE  Monotone(d)
<1>1. UNCHANGED <<dp, proof>> /\ active \in Int /\ active' \in Int /\ active <= active' /\ active' # active
  BY DEF D!AdvancePeriod, TrustRight
<1>2. dp[d].period \in Int \cup {None} /\ \A p \in Shows(dp[d], proof) : p.expires \in Int \cup {None}
  BY DEF TrustRight, RowSound, Shows
<1>3. /\ Attached(dp[d], proof, active') <= Attached(dp[d], proof, active)
      /\ Freshness(dp[d], active') <= Freshness(dp[d], active)
  BY <1>1, <1>2, TimeHelpsNobody
<1>4. VerifiedBy(dp[d], proof) <= VerifiedBy(dp[d], proof)
  BY ScoresAddUp DEF AddsUp
<1>5. D!ScoreDatapoint(d)' <= D!ScoreDatapoint(d)
  BY <1>1, <1>3, <1>4, RowStays
<1> QED BY <1>1, <1>5 DEF Monotone

(* Verification counts for a datapoint, and every other turn against it.    *)
LEMMA EvidenceMoves ==
    ASSUME TrustRight, TrustRight', NEW d \in Datapoint, RowSound(dp[d]),
           UNCHANGED <<dp, active>>, NEW e \in Evidence,
           \A x \in Evidence \ {e} : proof'[x] = proof[x],
           proof'[e] = proof[e] \/
             IF proof'[e].status = "verified" THEN Falls(proof[e], proof'[e]) ELSE Falls(proof'[e], proof[e])
    PROVE  Monotone(d)
<1>1. dp'[d] = dp[d] /\ active' = active /\ ~(active' > active) /\ dp[d].links \subseteq Evidence
  BY DEF TrustRight, RowSound
<1>2. \A p : Falls(p, p)
  BY DEF Falls
<1>3. Freshness(dp[d], active) <= Freshness(dp[d], active')
      /\ Freshness(dp[d], active') <= Freshness(dp[d], active)
  BY <1>1, ScoresAddUp DEF AddsUp
<1>4. ASSUME Falls(proof[e], proof'[e])
      PROVE  D!ScoreDatapoint(d)' >= D!ScoreDatapoint(d)
  <2>1. \A x \in dp[d].links : Falls(proof[x], proof'[x])
    BY <1>1, <1>2, <1>4
  <2>2. Attached(dp[d], proof, active) <= Attached(dp[d], proof', active)
        /\ VerifiedBy(dp[d], proof) <= VerifiedBy(dp[d], proof')
    BY <2>1, EvidenceFalls
  <2> QED BY <1>1, <1>3, <2>2, RowStays
<1>5. ASSUME Falls(proof'[e], proof[e])
      PROVE  D!ScoreDatapoint(d)' <= D!ScoreDatapoint(d)
  <2>1. \A x \in dp[d].links : Falls(proof'[x], proof[x])
    BY <1>1, <1>2, <1>5
  <2>2. Attached(dp[d], proof', active) <= Attached(dp[d], proof, active)
        /\ VerifiedBy(dp[d], proof') <= VerifiedBy(dp[d], proof)
    BY <2>1, EvidenceFalls
  <2> QED BY <1>1, <1>3, <2>2, RowStays
<1>6. ASSUME NEW x \in Evidence, proof'[x] # proof[x]
      PROVE  IF proof'[x].status = "verified" THEN D!ScoreDatapoint(d)' >= D!ScoreDatapoint(d)
                                              ELSE D!ScoreDatapoint(d)' <= D!ScoreDatapoint(d)
  BY <1>4, <1>5, <1>6
<1>7. proof' = proof =>
        D!ScoreDatapoint(d)' >= D!ScoreDatapoint(d) /\ D!ScoreDatapoint(d)' <= D!ScoreDatapoint(d)
  BY <1>2, <1>4, <1>5
<1> QED BY <1>1, <1>6, <1>7 DEF Monotone

(* Whatever happens, scores move as they should.                            *)
LEMMA ScoresAreMonotone == TrustRight /\ D!TrustNext => ScoresMove
<1> SUFFICES ASSUME TrustRight, D!TrustNext, NEW d \in Datapoint, D!Exists(d) PROVE Monotone(d)
  BY DEF ScoresMove
<1>1. TrustRight'
  BY TrustStep
<1>2. RowSound(dp[d])
  BY DEF TrustRight
<1>3. ASSUME NEW c \in Datapoint, NEW e \in Evidence, D!LinkDatapoint(c, e) \/ D!UnlinkDatapoint(c, e)
      PROVE  Monotone(d)
  <2>1. PICK L \in SUBSET Evidence : dp' = [dp EXCEPT ![c].links = L]
    <3>1. D!Exists(c) /\ dp[c].links \subseteq Evidence
      BY <1>3 DEF D!LinkDatapoint, D!UnlinkDatapoint, TrustRight, RowSound
    <3> QED BY <1>3, <3>1 DEF D!LinkDatapoint, D!UnlinkDatapoint
  <2>2. dp'[d] = dp[d] \/ dp'[d] = [dp[d] EXCEPT !.links = L]
    BY <2>1 DEF TrustRight
  <2>3. SameButLinks(dp[d], dp'[d]) /\ RowSound(dp'[d])
    <3>1. CASE dp'[d] = dp[d]
      BY <1>2, <3>1 DEF SameButLinks
    <3>2. CASE dp'[d] = [dp[d] EXCEPT !.links = L]
      <4>1. dp'[d].links = L /\ "links" \in DOMAIN dp'[d]
            /\ dp'[d].provenance = dp[d].provenance /\ dp'[d].label = dp[d].label
            /\ dp'[d].unit = dp[d].unit /\ dp'[d].period = dp[d].period /\ dp'[d].factor = dp[d].factor
        BY <1>2, <3>2 DEF RowSound
      <4> QED BY <1>2, <2>1, <4>1 DEF SameButLinks, RowSound
    <3> QED BY <2>2, <3>1, <3>2
  <2>4. D!Exists(c) /\ UNCHANGED <<proof, active>>
    BY <1>3 DEF D!LinkDatapoint, D!UnlinkDatapoint
  <2> QED BY <1>1, <1>2, <2>3, <2>4, RowMoves
<1>4. ASSUME NEW c \in Datapoint, NEW r \in Rows, NEW its \in SUBSET Evidence,
             D!CreateDatapoint(c, r, its)
      PROVE  Monotone(d)
  <2>1. dp'[d] = dp[d] /\ UNCHANGED <<proof, active>>
    BY <1>4 DEF D!CreateDatapoint, D!Exists, TrustRight
  <2>2. RowSound(dp'[d])
    BY <1>2, <2>1
  <2> QED BY <1>1, <1>2, <2>1, <2>2, RowMoves
<1>5. ASSUME NEW c \in Datapoint, NEW new \in Datapoint, NEW r \in Rows, NEW its \in SUBSET Evidence,
             D!Recalculate(c, new, r, its)
      PROVE  Monotone(d)
  <2>1. /\ ~D!Exists(new) /\ UNCHANGED <<proof, active>>
        /\ dp' = [dp EXCEPT ![c].factor = r.factor, ![new] = [r EXCEPT !.links = its]]
    BY <1>5 DEF D!Recalculate, D!Exists
  <2>2. d # new /\ (dp'[d] = dp[d] \/ dp'[d] = [dp[d] EXCEPT !.factor = r.factor])
    BY <2>1 DEF TrustRight
  <2>3. r.factor # None /\ RowSound(r)
    BY <1>5, RowsAreSound DEF D!Recalculate, D!OfSameActivity
  <2>4. dp'[d].links = dp[d].links /\ RowSound(dp'[d])
    <3>1. CASE dp'[d] = dp[d]
      BY <1>2, <3>1
    <3>2. CASE dp'[d] = [dp[d] EXCEPT !.factor = r.factor]
      <4>1. dp'[d].links = dp[d].links /\ dp'[d].provenance = dp[d].provenance
            /\ dp'[d].period = dp[d].period /\ "links" \in DOMAIN dp'[d]
            /\ (dp'[d].factor = r.factor \/ dp'[d].factor = dp[d].factor)
        BY <1>2, <3>2 DEF RowSound
      <4> QED BY <1>2, <2>3, <4>1 DEF RowSound
    <3> QED BY <2>2, <3>1, <3>2
  <2> QED BY <1>1, <1>2, <2>1, <2>4, RowMoves
<1>6. CASE D!AdvancePeriod
  BY <1>1, <1>2, <1>6, PeriodMoves
<1>7. ASSUME NEW e \in Evidence, NEW from, NEW to, NEW today, D!Transition(e, from, to, today),
             "verified" \notin from \/ to # "verified",
             to = "verified" => from \subseteq D!LiveStatus,
             to \notin D!LiveStatus \/ to = "verified",
             to # "expired" \/ today \in Int
      PROVE  Monotone(d)
  <2>1. /\ UNCHANGED <<dp, active>> /\ proof[e].status \in from
        /\ {"status", "expires", "passed"} \subseteq DOMAIN proof[e]
        /\ \A x \in Evidence \ {e} : proof'[x] = proof[x]
        /\ proof'[e].status = to /\ (to = "verified" => proof'[e].expires = proof[e].expires)
    BY <1>7 DEF D!Transition, TrustRight
  <2>2. CASE to = "verified"
    <3>1. Falls(proof[e], proof'[e])
      BY <1>7, <2>1, <2>2 DEF Falls, IsCurrent, D!LiveStatus
    <3> QED BY <1>1, <1>2, <2>1, <2>2, <3>1, EvidenceMoves
  <2>3. CASE to # "verified"
    <3>1. Falls(proof'[e], proof[e])
      BY <1>7, <2>1, <2>3 DEF Falls
    <3> QED BY <1>1, <1>2, <2>1, <2>3, <3>1, EvidenceMoves
  <2> QED BY <2>2, <2>3
<1>8. D!Today \in Int /\ D!Today + 1 \in Int
  BY DEF D!Today, D!LastDay, TrustRight
<1>9. ASSUME NEW e \in Evidence, NEW to \in {"verified", "rejected"}, D!Transition(e, {"uploaded"}, to, None)
      PROVE  Monotone(d)
  BY <1>7, <1>9 DEF D!LiveStatus
<1>10. ASSUME NEW e \in Evidence, NEW today \in {D!Today, D!Today + 1},
              D!Transition(e, {"verified"}, "expired", today)
       PROVE  Monotone(d)
  BY <1>7, <1>8, <1>10 DEF D!LiveStatus
<1>11. ASSUME NEW e \in Evidence,
              D!Transition(e, {"uploaded", "verified", "rejected", "expired"}, "superseded", None)
       PROVE  Monotone(d)
  BY <1>7, <1>11 DEF D!LiveStatus
<1> QED BY <1>3, <1>4, <1>5, <1>6, <1>9, <1>10, <1>11 DEF D!TrustNext

(* Rows and evidence as they should be are judged alike: each rule on the   *)
(* evidence answers a step of the score.                                    *)
LEMMA JudgedAlike == TrustRight => D!EvidenceIsJudgedAlike
<1> SUFFICES ASSUME TrustRight, NEW d \in Datapoint, D!Exists(d)
             PROVE  LET found == D!EvaluateDatapointQuality(d)  result == D!ScoreDatapoint(d)
                    IN  /\ result \in 0 .. 100
                        /\ "missing_evidence" \in found <=> D!EvidenceAttached(d) = 0
                        /\ "expired_evidence" \in found => D!EvidenceAttached(d) = 6
                        /\ "unverified_evidence" \in found => D!Verified(d) < 15
                        /\ found = {} => D!EvidenceAttached(d) > 0 /\ D!FactorQuality(dp[d].factor) >= 6
  BY DEF D!EvidenceIsJudgedAlike
<1> DEFINE found == D!EvaluateDatapointQuality(d)  r == dp[d]
<1>1. RowSound(r) /\ (D!Links(d) = {} <=> r.links = {})
  BY DEF TrustRight, D!Links
<1>2. /\ "missing_evidence" \in found <=> D!MissingEvidence(d)
      /\ "expired_evidence" \in found <=> D!ExpiredEvidence(d)
      /\ "unverified_evidence" \in found <=> D!UnverifiedEvidence(d)
      /\ "outdated_factor" \in found <=> D!OutdatedFactor(d)
  BY DEF D!EvaluateDatapointQuality
<1>3. \A b, n : D!Points(b, n) = IF b THEN n ELSE 0
  BY DEF D!Points
<1>4. D!EvidenceAttached(d) \in {0, 6, 20} /\ (D!EvidenceAttached(d) = 0 <=> r.links = {})
  BY <1>1 DEF D!EvidenceAttached
<1>5. D!Verified(d) \in 0 .. 15
  BY DEF D!Verified
<1>6. D!ExpiredEvidence(d) => D!EvidenceAttached(d) = 6
  BY <1>1 DEF D!ExpiredEvidence, D!EvidenceAttached
<1>7. D!UnverifiedEvidence(d) => D!Verified(d) < 15
  BY DEF D!UnverifiedEvidence, D!Verified
<1>8. D!FactorQuality(r.factor) \in 0 .. 15 /\ (~D!OutdatedFactor(d) => D!FactorQuality(r.factor) >= 6)
  BY <1>3 DEF D!FactorQuality, D!OutdatedFactor
<1>9. D!ScoreDatapoint(d) \in 0 .. 100
  <2>1. D!PrimaryData(d) \in 0 .. 25
    BY <1>1 DEF RowSound, Provenance, D!PrimaryData
  <2>2. r.factor # None => D!Tier(r.factor.methodology) \in 0 .. 5
    BY <1>1 DEF RowSound, Methodology, D!Tier
  <2>3. D!UnitMethodology(d) \in 0 .. 10
    BY <1>3, <2>2 DEF D!UnitMethodology
  <2>4. D!PeriodFreshness(d) \in 0 .. 9
    BY DEF D!PeriodFreshness
  <2>5. D!Completeness(d) \in 0 .. 6
    <3> DEFINE u == D!Points(r.unit # None, 1)
               p == D!Points(r.period # None, 1)
               l == D!Points(r.links # {}, 1)
    <3>1. u \in {0, 1} /\ p \in {0, 1} /\ l \in {0, 1}
      BY <1>3
    <3>2. CASE r.factor = None
      <4>1. D!Completeness(d) = (2 * 6 * (u + p + l + 3 - 3) + 3) \div (2 * 3)
        BY <3>2 DEF D!Completeness
      <4> HIDE DEF u, p, l
      <4> QED BY <3>1, <4>1
    <3>3. CASE r.factor # None
      <4>1. D!Completeness(d) = (2 * 6 * (u + p + l + 4 - 3) + 4) \div (2 * 4)
        BY <3>3 DEF D!Completeness
      <4> HIDE DEF u, p, l
      <4> QED BY <3>1, <4>1
    <3> QED BY <3>2, <3>3
  <2> QED BY <1>4, <1>5, <1>8, <2>1, <2>3, <2>4, <2>5 DEF D!ScoreDatapoint
<1>10. found = {} => ~D!MissingEvidence(d) /\ ~D!OutdatedFactor(d)
  BY <1>2
<1>11. D!MissingEvidence(d) <=> r.links = {}
  BY DEF D!MissingEvidence
<1> HIDE DEF found, r
<1>12. /\ "missing_evidence" \in found <=> D!EvidenceAttached(d) = 0
       /\ "expired_evidence" \in found => D!EvidenceAttached(d) = 6
       /\ "unverified_evidence" \in found => D!Verified(d) < 15
       /\ found = {} => D!EvidenceAttached(d) > 0 /\ D!FactorQuality(r.factor) >= 6
  BY <1>2, <1>4, <1>6, <1>7, <1>8, <1>10, <1>11
<1> QED BY <1>9, <1>12 DEF found, r

-----------------------------------------------------------------------------
(* No behaviour of one part touches the variables of another.               *)
allVars == <<focus, calls, qualityVars, workspaceVars, complianceVars, askVars, trustVars, pool, reportVars>>
(* Scores and issues move by their own steps.                               *)
LEMMA QualityMoves == [Next]_allVars => UNCHANGED focus /\ (Q!Next \/ UNCHANGED qualityVars)
  BY DEF Next, allVars
(* So does the audit workspace, and so do the requests counted for it while *)
(* it is exercised.                                                         *)
LEMMA WorkspaceMoves ==
    [Next]_allVars =>
      /\ UNCHANGED focus
      /\ focus = "workspace" => W!Next \/ UNCHANGED <<workspaceVars, calls>>
      /\ focus # "workspace" => UNCHANGED workspaceVars
  BY DEF Next, allVars
(* So do mappings and filings.                                              *)
LEMMA ComplianceMoves == [Next]_allVars => UNCHANGED focus /\ (C!Next \/ UNCHANGED complianceVars)
  BY DEF Next, allVars

(* So do datapoints, evidence and the active period.                        *)
LEMMA TrustMoves == [Next]_allVars => D!TrustNext \/ UNCHANGED trustVars
  BY DEF Next, allVars

(* What is right of scores and issues stays right while they stay.          *)
LEMMA QualityKept == QualityRight /\ UNCHANGED qualityVars => QualityRight'
<1> SUFFICES ASSUME QualityRight, UNCHANGED qualityVars PROVE QualityRight'
  OBVIOUS
<1>1. UNCHANGED <<inputs, score, issue, anomaly, scan, triage, forked>>
  BY DEF qualityVars
<1>2. Q!Active' = Q!Active
  BY <1>1 DEF Q!Active
<1>3. ScoresRight'
  BY <1>1, <1>2 DEF QualityRight, ScoresRight
<1>4. IssuesRight'
  BY <1>1, <1>2 DEF QualityRight, IssuesRight
<1> QED BY <1>3, <1>4 DEF QualityRight

(* The same of the audit workspace,                                         *)
LEMMA WorkspaceKept == WorkspaceRight /\ UNCHANGED <<workspaceVars, calls>> => WorkspaceRight'
<1> SUFFICES ASSUME WorkspaceRight, UNCHANGED <<workspaceVars, calls>> PROVE WorkspaceRight'
  OBVIOUS
<1>1. UNCHANGED <<problem, finding, engagement, latest, package, trail, run, update, calls>>
  BY DEF workspaceVars
<1>2. W!PackageShowsOneTrail'
  BY <1>1 DEF WorkspaceRight, W!PackageShowsOneTrail
<1>3. RunsRight'
  BY <1>1 DEF WorkspaceRight, RunsRight
<1> QED BY <1>1, <1>2, <1>3 DEF WorkspaceRight

(* of the mappings,                                                         *)
LEMMA MappingsKept == MappingsRight /\ UNCHANGED complianceVars => MappingsRight'
<1> SUFFICES ASSUME MappingsRight, UNCHANGED complianceVars PROVE MappingsRight'
  OBVIOUS
<1>1. UNCHANGED <<data, mapping, disclosure, control, job, unsettled, crossed>>
  BY DEF complianceVars
<1>2. C!CompleteIsConfirmed'
  BY <1>1 DEF MappingsRight, C!CompleteIsConfirmed
<1>3. C!DisclosureAgrees'
  BY <1>1 DEF MappingsRight, C!DisclosureAgrees
<1> QED BY <1>1, <1>2, <1>3 DEF MappingsRight

(* and of the filings.                                                      *)
LEMMA ChainKept == ChainInv /\ UNCHANGED complianceVars => ChainInv'
  BY DEF complianceVars, ChainInv, ReadsAreOld, Numbered

(* The same of the rows and their evidence.                                 *)
LEMMA TrustKept == TrustRight /\ UNCHANGED trustVars => TrustRight'
  BY DEF trustVars, TrustRight, RowSound, D!Exists

(* What holds of all of them together.                                      *)
AssuranceInv ==
    /\ QualityRight /\ MappingsRight /\ ChainInv /\ TrustRight
    /\ focus = "workspace" => WorkspaceRight

(* All of it is right at first.                                             *)
LEMMA AssuranceStarts == Init => AssuranceInv
  BY QualityStarts, MappingsStart, ChainInit, TrustStarts, WorkspaceStarts DEF Init, AssuranceInv

(* Every step keeps it right.                                               *)
LEMMA AssuranceStep == AssuranceInv /\ [Next]_allVars => AssuranceInv'
<1> SUFFICES ASSUME AssuranceInv, [Next]_allVars PROVE AssuranceInv'
  OBVIOUS
<1>1. QualityRight'
  BY QualityMoves, QualityStep, QualityKept DEF AssuranceInv
<1>2. MappingsRight'
  BY ComplianceMoves, MappingsStep, MappingsKept DEF AssuranceInv
<1>3. ChainInv'
  BY ComplianceMoves, ChainStep, ChainKept DEF AssuranceInv
<1>4. focus' = "workspace" => WorkspaceRight'
  BY WorkspaceMoves, WorkspaceStep, WorkspaceKept DEF AssuranceInv
<1>5. TrustRight'
  BY TrustMoves, TrustStep, TrustKept DEF AssuranceInv
<1> QED BY <1>1, <1>2, <1>3, <1>4, <1>5 DEF AssuranceInv

(* The four arguments hold in every reachable state.                       *)
LEMMA AssuranceHolds == Spec => []AssuranceInv
<1>1. AssuranceInv /\ UNCHANGED <<focus, calls, qualityVars, workspaceVars, complianceVars, askVars,
                                  trustVars, pool, reportVars>> => AssuranceInv'
  BY AssuranceStep DEF allVars
<1>2. AssuranceInv /\ Next => AssuranceInv'
  BY AssuranceStep
<1> QED BY <1>1, <1>2, AssuranceStarts, PTL DEF Spec

(* Whatever scans, simulations, evaluations and confirmations are under way *)
(* at a time, what is derived agrees with what it is derived from: a        *)
(* datapoint has one current score unless two were taken at a time,         *)
(* packages show one state of the audit trail unless entries were added     *)
(* while they were made, complete mappings are confirmed and roll up and    *)
(* are reported as such, but for those confirmed or changed in the middle.  *)
THEOREM ViewsAlwaysAgree == Spec => []ViewsAgree
<1>1. AssuranceInv => ViewsAgree
  BY QualityTypes, OneCurrent, WorkspaceTypes, MappingsAgree DEF AssuranceInv, QualityRight, ViewsAgree
<1> QED BY <1>1, AssuranceHolds, PTL

(* Every step leaves what was dismissed, and every scan that commits        *)
(* decides.                                                                 *)
LEMMA QualityDecisions == AssuranceInv /\ [Next]_allVars => Sticky /\ Decides
<1> SUFFICES ASSUME AssuranceInv, [Next]_allVars PROVE Sticky /\ Decides
  OBVIOUS
<1>1. QualityRight
  BY DEF AssuranceInv
<1>2. Decides
  BY <1>1, ScansDecide
<1>3. UNCHANGED issue => Sticky
  BY DEF Sticky
<1>4. Sticky
  BY <1>1, <1>3, QualityMoves, DismissedStays DEF qualityVars
<1> QED BY <1>2, <1>4

(* Every step leaves what was decided, and every simulation that commits    *)
(* itemises.                                                                *)
LEMMA WorkspaceDecisions == AssuranceInv /\ [Next]_allVars => FindingsStand /\ Itemises
<1> SUFFICES ASSUME AssuranceInv, [Next]_allVars PROVE FindingsStand /\ Itemises
  OBVIOUS
<1>1. UNCHANGED <<finding, run>> => FindingsStand /\ Itemises
  BY DEF FindingsStand, Itemises, W!Completes, W!Idle
<1>2. CASE focus = "workspace"
  <2>1. WorkspaceRight
    BY <1>2 DEF AssuranceInv
  <2>2. Itemises
    BY <2>1, SimulationsDecide
  <2>3. W!Next \/ UNCHANGED finding
    BY <1>2, WorkspaceMoves DEF workspaceVars
  <2>4. FindingsStand
    BY <2>1, <2>3, FindingsStay DEF FindingsStand
  <2> QED BY <2>2, <2>4
<1>3. CASE focus # "workspace"
  BY <1>1, <1>3, WorkspaceMoves DEF workspaceVars
<1> QED BY <1>2, <1>3

(* What people decide about issues and findings is undone by people only,   *)
(* or by a scan that was under way as they decided; and scans and           *)
(* simulations that commit open and resolve what they should.               *)
THEOREM DecisionsAlwaysStand == Spec => DecisionsStand
<1>1. AssuranceInv /\ [Next]_allVars => [Sticky /\ Decides]_Q!vars /\ [FindingsStand /\ Itemises]_W!vars
  BY QualityDecisions, WorkspaceDecisions
<1>2. Spec => [][Next]_allVars
  BY DEF Spec, allVars
<1>3. Spec => [][Sticky /\ Decides]_Q!vars /\ [][FindingsStand /\ Itemises]_W!vars
  BY <1>1, <1>2, AssuranceHolds, PTL
<1>4. [Sticky /\ Decides]_Q!vars => [Sticky]_Q!vars /\ [Decides]_Q!vars
  OBVIOUS
<1> QED BY <1>3, <1>4, PTL DEF DecisionsStand, Q!DismissedIsSticky, Q!ScanDecides, W!DecisionsStand, W!SimulationDecides, Sticky, Decides, FindingsStand, Itemises

(* Among the filings of a period the versions run from 1 without gap, each  *)
(* superseding the one before, in every reachable state.                    *)
THEOREM FilingsAreNumbered == Spec => [](\A p \in ReportingPeriod : Numbered(filing[p]))
<1>1. AssuranceInv => \A p \in ReportingPeriod : Numbered(filing[p])
  BY DEF AssuranceInv, ChainInv
<1> QED BY <1>1, AssuranceHolds, PTL

(* However many clients draw up filings of a period at a time, its filings  *)
(* are the versions of one chain: each filing that is stored extends the    *)
(* chain by one, and nothing else touches it.                               *)
THEOREM FilingsImplementChain == Spec => FilingsFormChains
<1>1. Init => C!Chain!Init
  BY VersionsOfNone DEF Init, C!Init, C!Chain!Init, C!FilingChain
<1>2. AssuranceInv /\ [Next]_allVars => [C!Chain!Next]_C!FilingChain
  <2>1. UNCHANGED complianceVars => UNCHANGED C!FilingChain
    BY DEF complianceVars, C!FilingChain
  <2> QED BY <2>1, ComplianceMoves, ChainsExtend DEF AssuranceInv
<1>3. Spec => [][Next]_allVars
  BY DEF Spec, allVars
<1> QED BY <1>1, <1>2, <1>3, AssuranceHolds, PTL DEF Spec, FilingsFormChains, C!FilingsFormChains, C!Chain!Spec

(* Evidence never counts against a datapoint, nor does its verification;    *)
(* its removal, rejection, expiry or replacement never counts for one, nor  *)
(* does a new active period; and what befalls one datapoint changes no      *)
(* score but its own: of any number of datapoints and pieces of evidence,   *)
(* whatever their links, and of the rows that Assurance lets be created.    *)
(* FiguresHold asks this among others.                                      *)
THEOREM ScoresMoveAsTheyShould == Spec => D!ScoreIsMonotone
<1>1. AssuranceInv /\ [Next]_allVars => [ScoresMove]_D!trustVars
  BY TrustMoves, ScoresAreMonotone DEF AssuranceInv, trustVars, D!trustVars
<1> QED BY <1>1, AssuranceHolds, PTL
        DEF Spec, allVars, D!ScoreIsMonotone, ScoresMove, Monotone

(* A score is between 0 and 100, and it and the issues agree on the         *)
(* evidence, although each looks at its status and its dates in its own     *)
(* way; a datapoint that no rule finds fault with has evidence and a factor *)
(* that earn points.  FiguresHold asks this, too.                           *)
THEOREM ScoresAgreeWithIssues == Spec => []D!EvidenceIsJudgedAlike
<1>1. AssuranceInv => D!EvidenceIsJudgedAlike
  BY JudgedAlike DEF AssuranceInv
<1> QED BY <1>1, AssuranceHolds, PTL
=============================================================================
