-------------------------- MODULE AuditStreamProofs --------------------------
(***************************************************************************)
(* Proofs about AuditStream: for any number of streams, any filters and    *)
(* edits of them, any batch size and thresholds, no stream has a gap       *)
(* behind its cursor.                                                      *)
(***************************************************************************)
EXTENDS AuditStream, SequenceTheorems, TLAPS

PostRow == [stream : Stream, index : Nat, del : Delivery, entries : SUBSET Nat]
Pass == [on : {TRUE}, todo : SUBSET Stream, snap : [Stream -> Row],
         row : [Stream -> Row], dels : [Stream -> Seq(Delivery)], dead : [Stream -> SUBSET Nat],
         held : SUBSET Stream, share : SUBSET Stream,
         post : {<<>>} \cup {<<p>> : p \in PostRow}]
Types ==
    /\ log \in Seq(Kind)
    /\ row \in [Stream -> Row]
    /\ dels \in [Stream -> Seq(Delivery)]
    /\ born \in [Stream -> Nat]
    /\ dead \in [Stream -> SUBSET Nat] /\ received \in [Stream -> SUBSET Nat]
    /\ always \in [Stream -> SUBSET Nat] /\ ever \in [Stream -> SUBSET Nat]
    /\ pass \in {Idle} \cup Pass
    /\ \A s \in Stream : row[s].cursor <= Len(log) /\ born[s] <= Len(log)

(* Of a stream born at b, the positions A that its filters never excluded   *)
(* and the positions R it has received or that are dead: everything of A up *)
(* to n is in R.                                                            *)
Covered(A, b, R, n) == \A p \in A : b < p /\ p <= n => p \in R

(* The cursor may move backwards, so that it does not say by itself what is *)
(* behind it.  But every delivery starts where everything before it was     *)
(* handled, and ends inside the window a retry will read from there, in a   *)
(* log of N entries.                                                        *)
EndIn(N, n) == IF n + BatchSize <= N THEN n + BatchSize ELSE N
SoundDelivery(A, N, b, R, d) ==
    /\ d.test => d.from = 0 /\ d.to = 0
    /\ ~d.test => /\ b <= d.from /\ d.from <= d.to /\ d.to <= EndIn(N, d.from)
                  /\ Covered(A, b, R, d.from)
Sound(A, N, b, R, ds, n) ==
    /\ b <= n /\ n <= N
    /\ Covered(A, b, R, n)
    /\ \A i \in DOMAIN ds : SoundDelivery(A, N, b, R, ds[i])

(* What the histories say of the filters in use.                            *)
Filtered(s) ==
    \A f \in InUse(s) :
       /\ \A p \in always[s] : log[p] \in f
       /\ \A p \in 1..Len(log) : log[p] \in f => p \in ever[s]

(* A post in flight: its entries are what its window matches, and the       *)
(* delivery it will write is still as the pass has read it.                 *)
SoundPost(p) ==
    LET s == p.stream
        d == p.del
    IN  /\ row[s].status # "absent" /\ s \notin pass.held /\ s \notin pass.todo
        /\ \A q \in p.entries : born[s] < q /\ q <= Len(log) /\ q \in ever[s]
        /\ Exists(s) =>
             /\ SoundDelivery(always[s], Len(log), born[s], received[s] \cup dead[s], d)
             /\ \A q \in always[s] : d.from < q /\ q <= d.to => q \in p.entries
             /\ p.index # 0 =>
                  p.index \in DOMAIN dels[s] /\ dels[s][p.index] = d /\ d.due = "now"

StreamSound(s) ==
    /\ Exists(s) => Sound(always[s], Len(log), born[s], received[s] \cup dead[s], dels[s],
                          row[s].cursor)
    /\ row[s].status = "absent" => received[s] = {}
    /\ ~Exists(s) => dels[s] = <<>>
    /\ \A p \in received[s] : born[s] < p /\ p <= Len(log) /\ p \in ever[s]
    /\ dead[s] \subseteq 1..Len(log)
    /\ Filtered(s)
TodoSound(s) ==
    /\ row[s].status # "absent"
    /\ Exists(s) => pass.snap[s].cursor = row[s].cursor
HeldSound(s) ==
    /\ Exists(s) /\ pass.row[s].status \in {"active", "paused"}
    /\ pass.row[s].filters = row[s].filters /\ pass.dead[s] \subseteq 1..Len(log)
    /\ Sound(always[s], Len(log), born[s], received[s] \cup pass.dead[s], pass.dels[s],
             pass.row[s].cursor)
Taken ==
    PassOn =>
      /\ pass.todo \cap pass.held = {}
      /\ \A s \in pass.todo : TodoSound(s)
      /\ \A s \in pass.held : HeldSound(s)
      /\ pass.post # <<>> => SoundPost(pass.post[1])
StreamInv == Types /\ (\A s \in Stream : StreamSound(s)) /\ Taken

-----------------------------------------------------------------------------
(* What was handled stays handled while the log and what is handled grow,   *)
(* and edits of the filters take positions away.                            *)
Extends(l, k) == Len(l) <= Len(k) /\ \A p \in 1..Len(l) : k[p] = l[p]
Grows(A, N, B, M) == N <= M /\ \A p \in B : p <= N => p \in A
SameWindow(d, e) == d.test = e.test /\ d.from = e.from /\ d.to = e.to
Follows(ds, es) ==
    \A j \in DOMAIN es : \/ es[j].test /\ es[j].from = 0 /\ es[j].to = 0
                         \/ \E i \in DOMAIN ds : SameWindow(es[j], ds[i])

(* What is covered stays so as the log and what is handled grow.            *)
LEMMA CoveredGrows ==
    ASSUME NEW A \in SUBSET Nat, NEW B \in SUBSET Nat, NEW N \in Nat, NEW M \in Nat,
           Grows(A, N, B, M), NEW b \in Nat, NEW R, NEW Q, R \subseteq Q,
           NEW n \in Nat, n <= N, Covered(A, b, R, n)
    PROVE  Covered(B, b, Q, n)
  BY DEF Covered, Grows

(* So does the soundness of a delivery.                                     *)
LEMMA DeliveryGrows ==
    ASSUME NEW A \in SUBSET Nat, NEW B \in SUBSET Nat, NEW N \in Nat, NEW M \in Nat,
           Grows(A, N, B, M), NEW b \in Nat, NEW R, NEW Q, R \subseteq Q,
           NEW d \in Delivery, SoundDelivery(A, N, b, R, d)
    PROVE  SoundDelivery(B, M, b, Q, d)
<1>1. CASE d.test
  BY <1>1 DEF SoundDelivery
<1>2. CASE ~d.test
  <2>1. d.from \in Nat /\ d.to \in Nat /\ N <= M /\ BatchSize \in Nat
    BY StreamAssumption DEF Delivery, Grows
  <2>2. d.to <= EndIn(M, d.from) /\ d.from <= N
    BY <1>2, <2>1 DEF SoundDelivery, EndIn
  <2>3. Covered(B, b, Q, d.from)
    BY <1>2, <2>1, <2>2, CoveredGrows DEF SoundDelivery
  <2> QED BY <1>2, <2>2, <2>3 DEF SoundDelivery
<1> QED BY <1>1, <1>2

(* And that of a stream's cursor.                                           *)
LEMMA SoundGrows ==
    ASSUME NEW A \in SUBSET Nat, NEW B \in SUBSET Nat, NEW N \in Nat, NEW M \in Nat,
           Grows(A, N, B, M), NEW b \in Nat, NEW R, NEW Q, R \subseteq Q,
           NEW ds \in Seq(Delivery), NEW es \in Seq(Delivery), Follows(ds, es),
           NEW n \in Nat, Sound(A, N, b, R, ds, n)
    PROVE  Sound(B, M, b, Q, es, n)
<1>1. n <= N /\ n <= M
  BY DEF Sound, Grows
<1>2. Covered(B, b, Q, n)
  BY <1>1, CoveredGrows DEF Sound
<1>3. ASSUME NEW j \in DOMAIN es PROVE SoundDelivery(B, M, b, Q, es[j])
  <2>1. CASE es[j].test /\ es[j].from = 0 /\ es[j].to = 0
    BY <2>1 DEF SoundDelivery
  <2>2. ASSUME NEW i \in DOMAIN ds, SameWindow(es[j], ds[i])
        PROVE  SoundDelivery(B, M, b, Q, es[j])
    <3>1. ds[i] \in Delivery
      BY <2>2, ElementOfSeq, LenProperties
    <3>2. SoundDelivery(B, M, b, Q, ds[i])
      BY <3>1, DeliveryGrows DEF Sound
    <3> QED BY <2>2, <3>2 DEF SoundDelivery, SameWindow
  <2> QED BY <1>3, <2>1, <2>2 DEF Follows
<1> QED BY <1>1, <1>2, <1>3 DEF Sound

(* Deliveries that did not change follow themselves.                        *)
LEMMA FollowsItself == ASSUME NEW ds PROVE Follows(ds, ds)
  BY DEF Follows, SameWindow

(* What did not change has grown by nothing.                                *)
LEMMA GrowsItself == ASSUME NEW A, NEW N \in Nat PROVE Grows(A, N, A, N)
  BY DEF Grows

(* No stream exists at first: nothing has been delivered or skipped.        *)
LEMMA StreamInit == Init => StreamInv
<1> SUFFICES ASSUME Init PROVE StreamInv
  OBVIOUS
<1>1. log = <<Own>> /\ log \in Seq(Kind) /\ Len(log) = 1
  BY StreamAssumption DEF Init
<1>2. /\ \A s \in Stream : /\ row[s] = [status |-> "absent", cursor |-> 0, failures |-> 0,
                                        filters |-> {}]
                           /\ dels[s] = <<>> /\ received[s] = {} /\ dead[s] = {} /\ always[s] = {}
      /\ pass = Idle
  BY DEF Init
<1>3. Types
  <2>1. row \in [Stream -> Row]
    BY DEF Init, Row
  <2>2. dels \in [Stream -> Seq(Delivery)]
    BY EmptySeq DEF Init
  <2> QED BY <1>1, <1>2, <2>1, <2>2 DEF Init, Types
<1>4. ASSUME NEW s \in Stream PROVE StreamSound(s)
  <2>0. ~PassOn /\ row[s].filters = {}
    BY <1>2 DEF PassOn, Idle
  <2>1. \A f \in InUse(s) : f = {}
    BY <2>0 DEF InUse
  <2>2. Filtered(s)
    BY <1>2, <2>1 DEF Filtered
  <2> QED BY <1>2, <2>2 DEF StreamSound, Exists
<1>5. Taken
  BY <1>2 DEF Taken, PassOn, Idle
<1> QED BY <1>3, <1>4, <1>5 DEF StreamInv

-----------------------------------------------------------------------------
(* Requests leave the pass alone.  A stream that exists keeps its cursor,  *)
(* and a delivery that is due is not changed.                              *)
Untouched(s) ==
    /\ row'[s].cursor = row[s].cursor /\ born'[s] = born[s]
    /\ row'[s].status = "absent" <=> row[s].status = "absent"
    /\ ~Exists(s)' => dels'[s] = <<>>
    /\ Held(s) => Exists(s)' /\ row'[s].filters = row[s].filters
    /\ Exists(s)' =>
         /\ Exists(s) /\ Follows(dels[s], dels'[s]) /\ dead'[s] = dead[s]
         /\ \A i \in DOMAIN dels[s] : dels[s][i].due = "now" =>
              i \in DOMAIN dels'[s] /\ dels'[s][i] = dels[s][i]
Created(s) ==
    /\ row[s].status = "absent" /\ row'[s].status # "absent"
    /\ row'[s].cursor = born'[s] /\ dels'[s] = dels[s]
HistoryGrows(s) ==
    /\ Grows(always[s], Len(log), always'[s], Len(log'))
    /\ ever[s] \subseteq ever'[s]
    /\ Filtered(s)'
    /\ dead'[s] \subseteq dead[s]

(* A request that commits: the log may grow, each stream is created, is     *)
(* changed with its deliveries followed, or stays.                          *)
LEMMA RequestKeeps ==
    ASSUME StreamInv, Types', UNCHANGED <<pass, received>>,
           \A s \in Stream : HistoryGrows(s) /\ (Untouched(s) \/ Created(s))
    PROVE  StreamInv'
<1>1. ASSUME NEW s \in Stream
      PROVE  /\ always[s] \in SUBSET Nat /\ always'[s] \in SUBSET Nat
             /\ Len(log) \in Nat /\ Len(log') \in Nat
             /\ Grows(always[s], Len(log), always'[s], Len(log')) /\ Len(log) <= Len(log')
             /\ born[s] \in Nat /\ born'[s] \in Nat /\ dels[s] \in Seq(Delivery)
             /\ dels'[s] \in Seq(Delivery) /\ row[s].cursor \in Nat /\ row'[s].cursor \in Nat
             /\ row'[s].cursor <= Len(log') /\ received[s] \subseteq Nat /\ dead[s] \subseteq Nat
  BY LenProperties DEF StreamInv, Types, Row, HistoryGrows, Grows
<1>2. \A s \in Stream : Filtered(s)'
  BY DEF HistoryGrows
<1>3. ASSUME NEW s \in Stream PROVE dead'[s] \subseteq 1..Len(log')
  <2>1. dead'[s] \subseteq dead[s] /\ dead[s] \subseteq 1..Len(log)
    BY DEF HistoryGrows, StreamInv, StreamSound
  <2> QED BY <1>1, <2>1
<1>4. ASSUME NEW s \in Stream PROVE StreamSound(s)'
  <2>1. CASE Untouched(s)
    <3>1. ASSUME Exists(s)'
          PROVE  Sound(always'[s], Len(log'), born'[s], received'[s] \cup dead'[s], dels'[s],
                       row'[s].cursor)
      <4>1. Sound(always[s], Len(log), born[s], received[s] \cup dead[s], dels[s], row[s].cursor)
            /\ Follows(dels[s], dels'[s])
        BY <2>1, <3>1 DEF Untouched, StreamInv, StreamSound
      <4>2. Sound(always'[s], Len(log'), born[s], received[s] \cup dead[s], dels'[s],
                  row[s].cursor)
        BY <1>1, <4>1, SoundGrows
      <4> QED BY <2>1, <3>1, <4>2 DEF Untouched
    <3>2. /\ row'[s].status = "absent" => received'[s] = {}
          /\ ~Exists(s)' => dels'[s] = <<>>
      BY <2>1 DEF Untouched, StreamInv, StreamSound
    <3>3. ASSUME NEW p \in received'[s]
          PROVE  born'[s] < p /\ p <= Len(log') /\ p \in ever'[s]
      <4>1. p \in Nat /\ born[s] < p /\ p <= Len(log) /\ p \in ever[s]
        BY <1>1 DEF StreamInv, StreamSound
      <4> QED BY <1>1, <2>1, <4>1 DEF Untouched, HistoryGrows
    <3>4. dead'[s] \subseteq 1..Len(log') /\ Filtered(s)'
      BY <1>2, <1>3
    <3> QED BY <3>1, <3>2, <3>3, <3>4 DEF StreamSound
  <2>2. CASE Created(s)
    <3>1. received'[s] = {} /\ dels'[s] = <<>> /\ row'[s].cursor = born'[s]
      BY <2>2 DEF Created, StreamInv, StreamSound, Exists
    <3>2. Sound(always'[s], Len(log'), born'[s], received'[s] \cup dead'[s], dels'[s],
                row'[s].cursor)
      BY <1>1, <3>1 DEF Sound, Covered
    <3>3. dead'[s] \subseteq 1..Len(log') /\ Filtered(s)'
      BY <1>2, <1>3
    <3> QED BY <2>2, <3>1, <3>2, <3>3 DEF StreamSound, Created
  <2> QED BY <2>1, <2>2
<1>5. ASSUME PassOn PROVE /\ pass \in Pass
                          /\ \A s \in pass.todo \cup pass.held : s \in Stream /\ Untouched(s)
  <2>1. pass \in Pass
    BY <1>5 DEF StreamInv, Types, PassOn, Idle
  <2>2. ASSUME NEW s \in pass.todo \cup pass.held PROVE s \in Stream /\ ~Created(s)
    BY <1>5, <2>1, <2>2 DEF Pass, StreamInv, Taken, TodoSound, HeldSound, Exists, Created
  <2> QED BY <2>1, <2>2
<1>6. ASSUME PassOn, NEW s \in pass.todo PROVE TodoSound(s)'
  BY <1>5, <1>6 DEF StreamInv, Taken, TodoSound, Untouched
<1>7. ASSUME PassOn, NEW s \in pass.held PROVE HeldSound(s)'
  <2>1. s \in Stream /\ Untouched(s) /\ HeldSound(s) /\ Held(s)
    BY <1>5, <1>7 DEF StreamInv, Taken, Held
  <2>2. pass.dels[s] \in Seq(Delivery) /\ pass.row[s].cursor \in Nat
    BY <1>5, <1>7, <2>1 DEF Pass, Row
  <2>3. Sound(always'[s], Len(log'), born[s], received[s] \cup pass.dead[s], pass.dels[s],
              pass.row[s].cursor)
    <3>1. /\ Sound(always[s], Len(log), born[s], received[s] \cup pass.dead[s], pass.dels[s],
                   pass.row[s].cursor)
          /\ Follows(pass.dels[s], pass.dels[s])
      BY <2>1, FollowsItself DEF HeldSound
    <3> DEFINE R == received[s] \cup pass.dead[s]
               ds == pass.dels[s]
               n == pass.row[s].cursor
    <3>2. R \subseteq R /\ ds \in Seq(Delivery) /\ n \in Nat /\ Follows(ds, ds)
          /\ Sound(always[s], Len(log), born[s], R, ds, n) /\ s \in Stream
      BY <2>1, <2>2, <3>1
    <3> HIDE DEF R, ds, n
    <3>3. Sound(always'[s], Len(log'), born[s], R, ds, n)
      BY <1>1, <3>2, SoundGrows
    <3> QED BY <3>3 DEF R, ds, n
  <2>4. pass.dead[s] \subseteq 1..Len(log')
    <3>1. pass.dead[s] \subseteq 1..Len(log)
      BY <2>1 DEF HeldSound
    <3> QED BY <1>1, <2>1, <3>1
  <2> QED BY <2>1, <2>3, <2>4 DEF HeldSound, Untouched
<1>8. ASSUME PassOn, pass.post # <<>> PROVE SoundPost(pass.post[1])'
  <2> DEFINE p == pass.post[1]
             s == p.stream
             d == p.del
  <2>1. p \in PostRow /\ SoundPost(p)
    BY <1>5, <1>8 DEF StreamInv, Taken, Pass
  <2>2. s \in Stream /\ d \in Delivery /\ p.entries \subseteq Nat /\ p.index \in Nat
    BY <2>1 DEF PostRow
  <2>3. Untouched(s)
    BY <2>1, <2>2 DEF SoundPost, Created
  <2>4. d.from \in Nat /\ d.to \in Nat
    BY <2>2 DEF Delivery
  <2> HIDE DEF p, s, d
  <2>5. ASSUME NEW q \in p.entries PROVE born[s] < q /\ q <= Len(log') /\ q \in ever'[s]
    <3>1. born[s] < q /\ q <= Len(log) /\ q \in ever[s] /\ q \in Nat
      BY <2>1, <2>2 DEF SoundPost, s
    <3> QED BY <1>1, <2>2, <3>1 DEF HistoryGrows
  <2>6. ASSUME Exists(s)'
        PROVE  /\ SoundDelivery(always'[s], Len(log'), born[s], received[s] \cup dead'[s], d)
               /\ \A q \in always'[s] : d.from < q /\ q <= d.to => q \in p.entries
               /\ p.index # 0 =>
                    p.index \in DOMAIN dels'[s] /\ dels'[s][p.index] = d /\ d.due = "now"
    <3>1. Exists(s) /\ dead'[s] = dead[s]
      BY <2>3, <2>6 DEF Untouched
    <3>2. SoundDelivery(always[s], Len(log), born[s], received[s] \cup dead[s], d)
      BY <2>1, <3>1 DEF SoundPost, s, d
    <3>3. SoundDelivery(always'[s], Len(log'), born[s], received[s] \cup dead'[s], d)
      BY <1>1, <2>2, <3>1, <3>2, DeliveryGrows
    <3>4. ASSUME NEW q \in always'[s], d.from < q, q <= d.to PROVE q \in p.entries
      <4>1. d.test => d.from = d.to
        BY <3>2 DEF SoundDelivery
      <4>2. q \in Nat /\ d.to <= Len(log)
        BY <1>1, <2>2, <2>4, <3>2, <3>4, <4>1, StreamAssumption DEF SoundDelivery, EndIn
      <4>3. q \in always[s]
        BY <1>1, <2>2, <2>4, <3>4, <4>2 DEF Grows
      <4> QED BY <2>1, <3>1, <3>4, <4>3 DEF SoundPost, s, d
    <3>5. p.index # 0 => p.index \in DOMAIN dels[s] /\ dels[s][p.index] = d /\ d.due = "now"
      BY <2>1, <3>1 DEF SoundPost, s, d
    <3>6. p.index # 0 => p.index \in DOMAIN dels'[s] /\ dels'[s][p.index] = d /\ d.due = "now"
      BY <2>3, <2>6, <3>5 DEF Untouched
    <3> QED BY <3>3, <3>4, <3>6
  <2>7. row[s].status # "absent" /\ s \notin pass.held /\ s \notin pass.todo
    BY <2>1 DEF SoundPost, s
  <2>8. row'[s].status # "absent" /\ born'[s] = born[s]
    BY <2>3, <2>7 DEF Untouched
  <2> QED BY <2>5, <2>6, <2>7, <2>8 DEF SoundPost, p, s, d
<1>9. Taken'
  BY <1>6, <1>7, <1>8 DEF Taken, PassOn, StreamInv
<1> QED BY <1>4, <1>9 DEF StreamInv

(* An entry extends the log by one, and the histories with it.              *)
LEMMA RecordGrows ==
    ASSUME Types, NEW kind \in Kind, Record(kind)
    PROVE  /\ log' \in Seq(Kind) /\ Len(log') = Len(log) + 1 /\ Len(log) \in Nat
           /\ always' \in [Stream -> SUBSET Nat] /\ ever' \in [Stream -> SUBSET Nat]
           /\ \A s \in Stream : /\ Grows(always[s], Len(log), always'[s], Len(log'))
                                /\ ever[s] \subseteq ever'[s] /\ Filtered(s)'
<1>1. log' \in Seq(Kind) /\ Len(log') = Len(log) + 1 /\ Len(log) \in Nat
  BY AppendProperties, LenProperties DEF Types, Record
<1>2. \A s \in Stream : always[s] \in SUBSET Nat /\ ever[s] \in SUBSET Nat
  BY DEF Types
<1>3. ASSUME NEW s \in Stream
      PROVE  /\ always'[s] = {p \in always[s] \cup {Len(log')} : \A f \in InUse(s)' : log'[p] \in f}
             /\ ever'[s] = ever[s] \cup {p \in 1..Len(log') : \E f \in InUse(s)' : log'[p] \in f}
  BY <1>3 DEF Record
<1>4. always' \in [Stream -> SUBSET Nat] /\ ever' \in [Stream -> SUBSET Nat]
  <2>1. always' = [s \in Stream |-> always'[s]] /\ ever' = [s \in Stream |-> ever'[s]]
    BY DEF Record
  <2>2. \A s \in Stream : always'[s] \in SUBSET Nat /\ ever'[s] \in SUBSET Nat
    BY <1>1, <1>2, <1>3
  <2> QED BY <2>1, <2>2
<1>5. ASSUME NEW s \in Stream
      PROVE  /\ Grows(always[s], Len(log), always'[s], Len(log'))
             /\ ever[s] \subseteq ever'[s] /\ Filtered(s)'
  <2>1. Grows(always[s], Len(log), always'[s], Len(log'))
    BY <1>1, <1>3 DEF Grows
  <2>2. Filtered(s)'
    BY <1>3 DEF Filtered
  <2> QED BY <1>3, <2>1, <2>2
<1> QED BY <1>1, <1>4, <1>5

(* Every action that is not the dispatcher's is such a request.             *)
LEMMA RequestStep ==
    ASSUME StreamInv, OtherEntry \/ \E s \in Stream :
                        \/ \E filters \in Filter : CreateAuditStream(s, filters)
                        \/ \E filters \in Filter \cup {row[s].filters} :
                             UpdateAuditStream(s, filters)
                        \/ DeleteAuditStream(s) \/ SendTestAuditStream(s) \/ BackoffElapses(s)
    PROVE  StreamInv'
<1> USE DEF StreamInv
<1>0. /\ log \in Seq(Kind) /\ Len(log) \in Nat /\ Own \in Kind
      /\ \A s \in Stream : /\ row[s] \in Row /\ dels[s] \in Seq(Delivery)
                          /\ row[s].cursor \in Nat /\ born[s] \in Nat
                          /\ row[s].cursor <= Len(log) /\ born[s] <= Len(log)
  BY LenProperties, StreamAssumption DEF Types, Row
<1>1. ASSUME NEW kind \in Kind, Record(kind), dead' = dead
      PROVE  /\ log' \in Seq(Kind) /\ Len(log') = Len(log) + 1
             /\ always' \in [Stream -> SUBSET Nat] /\ ever' \in [Stream -> SUBSET Nat]
             /\ \A s \in Stream : HistoryGrows(s)
  BY <1>1, RecordGrows DEF HistoryGrows
<1>2. ASSUME NEW s \in Stream, row'[s] = row[s], born'[s] = born[s], dels'[s] = dels[s],
             dead'[s] = dead[s]
      PROVE  Untouched(s)
  <2>1. Held(s) => Exists(s)
    BY DEF Taken, Held, HeldSound
  <2>2. ~Exists(s) => dels[s] = <<>>
    BY DEF StreamSound
  <2> QED BY <1>2, <2>1, <2>2, FollowsItself DEF Untouched, Exists
<1>3. CASE OtherEntry
  <2>1. PICK kind \in Kind : Record(kind)
    BY <1>3 DEF OtherEntry
  <2>2. UNCHANGED <<row, dels, pass, dead, born, received>>
    BY <1>3 DEF OtherEntry
  <2>3. Types'
    BY <1>0, <1>1, <2>1, <2>2 DEF Types
  <2>4. \A s \in Stream : Untouched(s)
    BY <1>2, <2>2
  <2> QED BY <1>1, <2>1, <2>2, <2>3, <2>4, RequestKeeps
<1>4. ASSUME NEW s \in Stream, NEW filters \in Filter, CreateAuditStream(s, filters)
      PROVE  StreamInv'
  <2> DEFINE r == [status |-> "active", cursor |-> Len(log) + 1, failures |-> 0,
                   filters |-> filters]
  <2>1. /\ row' = [row EXCEPT ![s] = r] /\ born' = [born EXCEPT ![s] = Len(log) + 1]
        /\ UNCHANGED <<dels, pass, dead, received>> /\ Record(Own) /\ row[s].status = "absent"
    BY <1>4 DEF CreateAuditStream
  <2>2. r \in Row
    BY <1>0, StreamAssumption DEF Row
  <2>3. Types'
    BY <1>0, <1>1, <2>1, <2>2 DEF Types, Row
  <2>4. \A t \in Stream : Untouched(t) \/ Created(t)
    <3>1. Created(s)
      BY <2>1 DEF Types, Created
    <3>2. ASSUME NEW t \in Stream \ {s} PROVE Untouched(t)
      BY <1>2, <2>1 DEF Types
    <3> QED BY <3>1, <3>2
  <2> QED BY <1>0, <1>1, <2>1, <2>3, <2>4, RequestKeeps
<1>5. ASSUME NEW s \in Stream, NEW filters \in Filter \cup {row[s].filters},
             UpdateAuditStream(s, filters)
      PROVE  StreamInv'
  <2>1. PICK q \in {row[s], Reactivated(row[s]), Paused(row[s])} :
           row' = [row EXCEPT ![s] = [q EXCEPT !.filters = filters]]
    BY <1>5 DEF UpdateAuditStream
  <2> DEFINE r == [q EXCEPT !.filters = filters]
  <2>2. UNCHANGED <<dels, pass, dead, born, received>> /\ Record(Own) /\ Exists(s) /\ ~Held(s)
    BY <1>5 DEF UpdateAuditStream
  <2>3. filters \in SUBSET Kind
    BY <1>0, StreamAssumption DEF Row
  <2>4. r \in Row /\ r.cursor = row[s].cursor /\ r.status \in {"active", "paused"}
    <3>1. CASE q = Reactivated(row[s])
      BY <1>0, <2>3, <3>1 DEF Reactivated, Row
    <3>2. CASE q = Paused(row[s])
      BY <1>0, <2>3, <3>2 DEF Paused, Row
    <3>3. CASE q = row[s]
      BY <1>0, <2>2, <2>3, <3>3 DEF Row, Exists
    <3> QED BY <3>1, <3>2, <3>3
  <2> HIDE DEF r
  <2>5. row' = [row EXCEPT ![s] = r]
    BY <2>1 DEF r
  <2>6. Types'
    BY <1>0, <1>1, <2>2, <2>4, <2>5 DEF Types
  <2>7. \A t \in Stream : Untouched(t)
    <3>1. Untouched(s)
      BY <2>2, <2>4, <2>5, FollowsItself DEF Types, Untouched, Exists
    <3>2. ASSUME NEW t \in Stream \ {s} PROVE Untouched(t)
      BY <1>2, <2>2, <2>5 DEF Types
    <3> QED BY <3>1, <3>2
  <2> QED BY <1>0, <1>1, <2>2, <2>6, <2>7, RequestKeeps
<1>6. ASSUME NEW s \in Stream, DeleteAuditStream(s) PROVE StreamInv'
  <2>1. /\ row' = [row EXCEPT ![s].status = "deleted"] /\ dels' = [dels EXCEPT ![s] = <<>>]
        /\ dead' = [dead EXCEPT ![s] = {}]
        /\ UNCHANGED <<pass, born, received>> /\ Record(Own) /\ Exists(s) /\ ~Held(s)
    BY <1>6 DEF DeleteAuditStream
  <2>2. [row[s] EXCEPT !.status = "deleted"] \in Row
    BY <1>0 DEF Row
  <2>3. /\ row'[s].status = "deleted" /\ row'[s].cursor = row[s].cursor
    BY <1>0, <2>1 DEF Types, Row
  <2>4. /\ log' \in Seq(Kind) /\ Len(log') = Len(log) + 1
        /\ always' \in [Stream -> SUBSET Nat] /\ ever' \in [Stream -> SUBSET Nat]
        /\ \A t \in Stream : HistoryGrows(t)
    BY <1>0, <2>1, RecordGrows DEF HistoryGrows, Types
  <2>5. Types'
    <3>1. dels' \in [Stream -> Seq(Delivery)] /\ row' \in [Stream -> Row]
      BY <2>1, <2>2, EmptySeq DEF Types
    <3>2. dead' \in [Stream -> SUBSET Nat]
      BY <2>1 DEF Types
    <3>3. \A t \in Stream : row'[t].cursor = row[t].cursor
      BY <2>1, <2>3 DEF Types
    <3> QED BY <1>0, <2>1, <2>4, <3>1, <3>2, <3>3 DEF Types
  <2>6. \A t \in Stream : Untouched(t)
    <3>1. Untouched(s)
      BY <2>1, <2>3 DEF Types, Untouched, Exists
    <3>2. ASSUME NEW t \in Stream \ {s} PROVE Untouched(t)
      BY <1>2, <2>1 DEF Types
    <3> QED BY <3>1, <3>2
  <2> QED BY <2>1, <2>4, <2>5, <2>6, RequestKeeps
<1>7. ASSUME NEW s \in Stream, SendTestAuditStream(s) PROVE StreamInv'
  <2>1. /\ dels' = [dels EXCEPT ![s] = Append(@, TestDelivery)]
        /\ UNCHANGED <<row, pass, dead, born, received>> /\ Record(Own) /\ Exists(s) /\ ~Held(s)
    BY <1>7 DEF SendTestAuditStream
  <2>2. TestDelivery \in Delivery
    BY DEF TestDelivery, Delivery
  <2> DEFINE ds == dels[s]
             es == Append(ds, TestDelivery)
  <2>3. /\ es \in Seq(Delivery) /\ DOMAIN ds \subseteq DOMAIN es
        /\ \A i \in DOMAIN ds : es[i] = ds[i]
        /\ \A j \in DOMAIN es \ DOMAIN ds : es[j] = TestDelivery
    BY <1>0, <2>2, AppendProperties, LenProperties
  <2>4. Follows(ds, es)
    <3> HIDE DEF es, ds
    <3> QED BY <2>3 DEF Follows, SameWindow, TestDelivery
  <2>5. dels' \in [Stream -> Seq(Delivery)] /\ dels'[s] = es
    BY <2>1, <2>3 DEF Types
  <2>6. Types'
    BY <1>0, <1>1, <2>1, <2>5 DEF Types
  <2>7. Untouched(s)
    <3> HIDE DEF es
    <3> QED BY <2>1, <2>3, <2>4, <2>5 DEF Untouched, Exists
  <2>8. ASSUME NEW t \in Stream \ {s} PROVE Untouched(t)
    BY <1>2, <2>1 DEF Types
  <2> QED BY <1>0, <1>1, <2>1, <2>6, <2>7, <2>8, RequestKeeps
<1>8. ASSUME NEW s \in Stream, BackoffElapses(s) PROVE StreamInv'
  <2>1. PICK i \in DOMAIN dels[s] : dels[s][i].due = "later"
                                    /\ dels' = [dels EXCEPT ![s][i].due = "now"]
    BY <1>8 DEF BackoffElapses
  <2> DEFINE ds == dels[s]
             d == [ds[i] EXCEPT !.due = "now"]
             es == [ds EXCEPT ![i] = d]
  <2>2. ds \in Seq(Delivery) /\ ds[i] \in Delivery
    BY <1>0, ElementOfSeq, LenProperties
  <2>3. d \in Delivery /\ SameWindow(d, ds[i])
    BY <2>2 DEF Delivery, SameWindow
  <2>4. es \in Seq(Delivery)
    BY <2>2, <2>3, ExceptSeq
  <2>5. DOMAIN es = DOMAIN ds /\ es[i] = d /\ \A j \in DOMAIN ds \ {i} : es[j] = ds[j]
    OBVIOUS
  <2>6. Follows(ds, es)
    <3> HIDE DEF es, ds, d
    <3> QED BY <2>3, <2>5 DEF Follows, SameWindow
  <2>7. dels' = [dels EXCEPT ![s] = es]
    BY <2>1
  <2>8. dels' \in [Stream -> Seq(Delivery)] /\ dels'[s] = es
    BY <2>4, <2>7 DEF Types
  <2>9. UNCHANGED <<log, row, pass, dead, born, always, ever, received>> /\ ~Held(s)
    BY <1>8 DEF BackoffElapses, filtered
  <2>10. Types' /\ \A t \in Stream : HistoryGrows(t)
    <3>1. Types'
      BY <1>0, <2>8, <2>9 DEF Types
    <3>2. ASSUME NEW t \in Stream PROVE HistoryGrows(t)
      BY <1>0, <2>9, GrowsItself DEF HistoryGrows, StreamSound, Filtered, InUse, PassOn
    <3> QED BY <3>1, <3>2
  <2>11. Untouched(s)
    <3> HIDE DEF es, d
    <3>1. ~Exists(s) => ds = <<>>
      BY DEF StreamSound
    <3>2. Exists(s)
      BY <2>1, <3>1
    <3> QED BY <2>1, <2>5, <2>6, <2>8, <2>9, <3>2 DEF Untouched, Exists
  <2>12. ASSUME NEW t \in Stream \ {s} PROVE Untouched(t)
    BY <1>2, <2>7, <2>9 DEF Types
  <2> QED BY <2>9, <2>10, <2>11, <2>12, RequestKeeps
<1> QED BY <1>3, <1>4, <1>5, <1>6, <1>7, <1>8

-----------------------------------------------------------------------------
(* The pass.  What it takes and writes is private until it commits.        *)
LEMMA WindowFacts ==
    ASSUME StreamInv, PassOn, NEW s \in Stream, NEW c \in Nat, c <= Len(log)
    PROVE  /\ WindowEnd(c) \in Nat /\ c <= WindowEnd(c) /\ WindowEnd(c) <= Len(log)
           /\ WindowEnd(c) = EndIn(Len(log), c)
           /\ Matching(s, c) \in SUBSET Nat
           /\ \A q \in Matching(s, c) : c < q /\ q <= Len(log) /\ q \in ever[s]
           /\ \A q \in always[s] : c < q /\ q <= WindowEnd(c) => q \in Matching(s, c)
<1>1. Len(log) \in Nat /\ BatchSize \in Nat \ {0} /\ always[s] \in SUBSET Nat
  BY LenProperties, StreamAssumption DEF StreamInv, Types
<1>2. WindowEnd(c) \in Nat /\ c <= WindowEnd(c) /\ WindowEnd(c) <= Len(log)
  BY <1>1 DEF WindowEnd
<1> DEFINE f == pass.snap[s].filters
<1>3. /\ \A p \in always[s] : log[p] \in f
      /\ \A p \in 1..Len(log) : log[p] \in f => p \in ever[s]
  BY DEF StreamInv, StreamSound, Filtered, InUse
<1>4. Matching(s, c) = {p \in (c + 1)..WindowEnd(c) : log[p] \in f}
  BY DEF Matching
<1>5. WindowEnd(c) = EndIn(Len(log), c)
  BY DEF WindowEnd, EndIn
<1> HIDE DEF f
<1> QED BY <1>1, <1>2, <1>3, <1>4, <1>5

(* A step that changes only the pass keeps what is committed.              *)
LEMMA PassOnly ==
    ASSUME StreamInv, UNCHANGED <<log, row, dels, dead, born, always, ever, received>>,
           pass' \in {Idle} \cup Pass, Taken', \A s \in Stream : InUse(s)' \subseteq InUse(s)
    PROVE  StreamInv'
<1>1. Types'
  BY DEF StreamInv, Types
<1>2. ASSUME NEW s \in Stream PROVE StreamSound(s)'
  <2>1. Filtered(s)'
    BY DEF StreamInv, StreamSound, Filtered
  <2> QED BY <2>1 DEF StreamInv, StreamSound, Exists
<1> QED BY <1>1, <1>2 DEF StreamInv

(* A pass that goes on has read the rows before.                            *)
LEMMA InUseStays ==
    ASSUME PassOn, PassOn', pass'.snap = pass.snap, UNCHANGED row
    PROVE  \A s \in Stream : InUse(s)' \subseteq InUse(s)
  BY DEF InUse

(* A pass takes the streams that exist.                                     *)
LEMMA BeginKeeps == ASSUME StreamInv, BeginPass PROVE StreamInv'
<1> DEFINE P == [on |-> TRUE, todo |-> {s \in Stream : row[s].status = "active"},
                 snap |-> row, row |-> row, dels |-> dels, dead |-> dead,
                 held |-> {}, share |-> {}, post |-> <<>>]
<1>1. pass' = P /\ UNCHANGED <<log, row, dels, dead, born, always, ever, received>>
  BY DEF BeginPass, filtered
<1>2. P \in Pass
  BY DEF Pass, StreamInv, Types
<1>3. Taken'
  BY <1>1 DEF Taken, TodoSound, Exists
<1>4. \A s \in Stream : InUse(s)' \subseteq InUse(s)
  BY <1>1 DEF InUse
<1> QED BY <1>1, <1>2, <1>3, <1>4, PassOnly

(* The pass goes to a stream's post.                                       *)
LEMMA PostKeeps ==
    ASSUME StreamInv, UNCHANGED <<log, row, dels, dead, born, always, ever, received>>,
           pass \in Pass, NEW s \in pass.todo, NEW p \in PostRow, p.stream = s,
           NEW h \in SUBSET Stream,
           pass' = [pass EXCEPT !.todo = @ \ {s}, !.share = h, !.post = <<p>>],
           \A q \in p.entries : born[s] < q /\ q <= Len(log) /\ q \in ever[s],
           Exists(s) =>
             /\ SoundDelivery(always[s], Len(log), born[s], received[s] \cup dead[s], p.del)
             /\ \A q \in always[s] : p.del.from < q /\ q <= p.del.to => q \in p.entries
             /\ p.index # 0 => /\ p.index \in DOMAIN dels[s]
                               /\ dels[s][p.index] = p.del /\ p.del.due = "now"
    PROVE  StreamInv'
<1>1. pass' \in Pass
  BY DEF Pass
<1>2. /\ pass'.todo = pass.todo \ {s} /\ pass'.held = pass.held /\ pass'.post = <<p>>
      /\ pass'.snap = pass.snap /\ pass'.row = pass.row /\ pass'.dels = pass.dels
      /\ pass'.dead = pass.dead /\ pass'.on
  BY DEF Pass
<1>3. pass.on /\ s \notin pass.held /\ row[s].status # "absent"
  BY DEF Pass, StreamInv, Taken, PassOn, TodoSound
<1>4. \A t \in pass'.todo : TodoSound(t)'
  BY <1>2, <1>3 DEF StreamInv, Taken, PassOn, TodoSound, Exists
<1>5. ASSUME NEW t \in pass.held PROVE HeldSound(t)'
  <2>1. HeldSound(t)
    BY <1>3 DEF StreamInv, Taken, PassOn
  <2> QED BY <1>2, <2>1 DEF HeldSound, Exists
<1>6. SoundPost(p)'
  BY <1>2, <1>3 DEF SoundPost, Exists
<1>7. pass'.post[1] = p
  BY <1>2
<1>8. SoundPost(pass.post[1])'
  BY <1>6, <1>7 DEF SoundPost, Exists
<1>9. Taken'
  BY <1>2, <1>3, <1>4, <1>5, <1>8 DEF StreamInv, Taken, PassOn
<1>10. \A t \in Stream : InUse(t)' \subseteq InUse(t)
  BY <1>2, <1>3, InUseStays DEF PassOn
<1> QED BY <1>1, <1>9, <1>10, PassOnly

(* It repeats a due delivery: its window is read again.                     *)
LEMMA RetryKeeps ==
    ASSUME StreamInv, NEW s \in Stream, TakeStream(s), Retry(s)
    PROVE  StreamInv'
<1>1. PICK i \in DueIndexes(s) :
        LET d == dels[s][i]
        IN  pass' = [pass EXCEPT !.todo = @ \ {s},
                                 !.post = Post(s, i, d, IF d.test THEN {} ELSE Matching(s, d.from))]
  BY DEF Retry
<1> DEFINE d == dels[s][i]
           E == IF d.test THEN {} ELSE Matching(s, d.from)
           p == [stream |-> s, index |-> i, del |-> d, entries |-> E]
<1>2. /\ i \in DOMAIN dels[s] /\ d.due = "now"
  BY DEF DueIndexes
<1>3. dels[s] \in Seq(Delivery) /\ d \in Delivery /\ i \in Nat \ {0}
  BY <1>2, ElementOfSeq, LenProperties DEF StreamInv, Types
<1>4. Exists(s)
  <2>1. ~Exists(s) => dels[s] = <<>>
    BY DEF StreamInv, StreamSound
  <2> QED BY <1>2, <2>1
<1>5. SoundDelivery(always[s], Len(log), born[s], received[s] \cup dead[s], d)
  BY <1>2, <1>4 DEF StreamInv, StreamSound, Sound
<1>6. d.from \in Nat /\ d.to \in Nat /\ born[s] \in Nat /\ Len(log) \in Nat /\ BatchSize \in Nat
      /\ always[s] \in SUBSET Nat
  BY <1>3, LenProperties, StreamAssumption DEF Delivery, StreamInv, Types
<1>7. ~d.test => d.from <= Len(log)
  BY <1>5, <1>6 DEF SoundDelivery, EndIn
<1>8. /\ E \in SUBSET Nat
      /\ \A q \in E : born[s] < q /\ q <= Len(log) /\ q \in ever[s]
      /\ \A q \in always[s] : d.from < q /\ q <= d.to => q \in E
  <2>1. CASE d.test
    BY <1>5, <1>6, <2>1 DEF SoundDelivery
  <2>2. CASE ~d.test
    <3>1. born[s] <= d.from /\ d.from <= Len(log) /\ d.to <= EndIn(Len(log), d.from)
      BY <1>5, <1>7, <2>2 DEF SoundDelivery
    <3>2. /\ WindowEnd(d.from) = EndIn(Len(log), d.from) /\ WindowEnd(d.from) \in Nat
          /\ Matching(s, d.from) \in SUBSET Nat
          /\ \A q \in Matching(s, d.from) : d.from < q /\ q <= Len(log) /\ q \in ever[s]
          /\ \A q \in always[s] : d.from < q /\ q <= WindowEnd(d.from)
                                   => q \in Matching(s, d.from)
      BY <1>6, <3>1, WindowFacts DEF TakeStream
    <3>3. E = Matching(s, d.from)
      BY <2>2
    <3> HIDE DEF E, d
    <3> QED BY <1>6, <3>1, <3>2, <3>3
  <2> QED BY <2>1, <2>2
<1>9. p \in PostRow
  <2> HIDE DEF d, E
  <2> QED BY <1>3, <1>8 DEF PostRow
<1>10. pass \in Pass /\ s \in pass.todo
       /\ UNCHANGED <<log, row, dels, dead, born, always, ever, received>>
  BY DEF TakeStream, StreamInv, Types, PassOn, Idle, filtered
<1>11. pass' = [pass EXCEPT !.todo = @ \ {s}, !.share = pass.share, !.post = <<p>>]
  BY <1>1, <1>10 DEF Post, Pass
<1>12. pass.share \in SUBSET Stream
  BY <1>10 DEF Pass
<1>13. p.stream = s /\ p.index = i /\ p.del = d /\ p.entries = E
  OBVIOUS
<1>14. i \in DOMAIN dels[s] /\ dels[s][i] = d
  BY <1>2
<1> HIDE DEF d, E, p
<1>15. /\ SoundDelivery(always[s], Len(log), born[s], received[s] \cup dead[s], p.del)
       /\ \A q \in always[s] : p.del.from < q /\ q <= p.del.to => q \in p.entries
       /\ p.index # 0 => p.index \in DOMAIN dels[s] /\ dels[s][p.index] = p.del /\ p.del.due = "now"
  BY <1>2, <1>5, <1>8, <1>13, <1>14
<1>16. \A q \in p.entries : born[s] < q /\ q <= Len(log) /\ q \in ever[s]
  BY <1>8, <1>13
<1> QED BY <1>9, <1>10, <1>11, <1>12, <1>13, <1>15, <1>16, PostKeeps

(* It opens a delivery: the window starts at the cursor.                    *)
LEMMA OpenKeeps ==
    ASSUME StreamInv, NEW s \in Stream, TakeStream(s), OpenWindow(s)
    PROVE  StreamInv'
<1> DEFINE c == pass.snap[s].cursor
           d == NewDelivery(c)
           E == Matching(s, c)
           p == [stream |-> s, index |-> 0, del |-> d, entries |-> E]
           R == received[s] \cup dead[s]
<1>1. /\ pass \in Pass /\ s \in pass.todo /\ PassOn
      /\ UNCHANGED <<log, row, dels, dead, born, always, ever, received>>
  BY DEF TakeStream, StreamInv, Types, PassOn, Idle, filtered
<1>2. /\ Exists(s)
      /\ pass' = [pass EXCEPT !.todo = @ \ {s}, !.share = @ \cup {s}, !.post = <<p>>]
  BY DEF OpenWindow, Post
<1>3. c = row[s].cursor /\ Sound(always[s], Len(log), born[s], R, dels[s], c)
  BY <1>1, <1>2 DEF StreamInv, StreamSound, Taken, TodoSound, PassOn, Pass
<1>4. c \in Nat /\ c <= Len(log) /\ born[s] \in Nat /\ born[s] <= c /\ Len(log) \in Nat
  BY <1>3, LenProperties DEF StreamInv, Types, Row, Sound
<1> HIDE DEF c, R
<1>5. /\ WindowEnd(c) \in Nat /\ c <= WindowEnd(c) /\ WindowEnd(c) <= Len(log)
      /\ WindowEnd(c) = EndIn(Len(log), c) /\ E \in SUBSET Nat
      /\ \A q \in E : c < q /\ q <= Len(log) /\ q \in ever[s]
      /\ \A q \in always[s] : c < q /\ q <= WindowEnd(c) => q \in E
  BY <1>1, <1>4, WindowFacts
<1>6. /\ d \in Delivery /\ ~d.test /\ d.from = c /\ d.to = WindowEnd(c)
  BY <1>4, <1>5 DEF NewDelivery, Delivery
<1> HIDE DEF E
<1>7. SoundDelivery(always[s], Len(log), born[s], R, d)
  BY <1>3, <1>4, <1>5, <1>6 DEF SoundDelivery, Sound
<1>8. \A q \in E : born[s] < q /\ q <= Len(log) /\ q \in ever[s]
  BY <1>4, <1>5
<1> HIDE DEF d
<1>9. p \in PostRow /\ p.stream = s /\ p.index = 0 /\ p.del = d /\ p.entries = E
  BY <1>5, <1>6 DEF PostRow
<1>10. pass' = [pass EXCEPT !.todo = @ \ {s}, !.share = pass.share \cup {s}, !.post = <<p>>]
       /\ pass.share \cup {s} \in SUBSET Stream
  BY <1>1, <1>2 DEF Pass
<1> HIDE DEF p
<1>11. /\ SoundDelivery(always[s], Len(log), born[s], received[s] \cup dead[s], p.del)
       /\ \A q \in always[s] : p.del.from < q /\ q <= p.del.to => q \in p.entries
       /\ p.index = 0
  BY <1>5, <1>6, <1>7, <1>9 DEF R
<1>12. \A q \in p.entries : born[s] < q /\ q <= Len(log) /\ q \in ever[s]
  BY <1>8, <1>9
<1> QED BY <1>1, <1>9, <1>10, <1>11, <1>12, PostKeeps

(* It moves the cursor over entries that no filter matches.                 *)
LEMMA SkipKeeps ==
    ASSUME StreamInv, NEW s \in Stream, TakeStream(s), SkipWindow(s)
    PROVE  StreamInv'
<1> DEFINE c == pass.snap[s].cursor
           r == [row[s] EXCEPT !.cursor = WindowEnd(c)]
           R == received[s] \cup dead[s]
<1>1. /\ pass \in Pass /\ s \in pass.todo /\ PassOn
      /\ UNCHANGED <<log, row, dels, dead, born, always, ever, received>>
  BY DEF TakeStream, StreamInv, Types, PassOn, Idle, filtered
<1>2. /\ Exists(s) /\ Matching(s, c) = {}
      /\ pass' = [pass EXCEPT !.todo = @ \ {s}, !.held = @ \cup {s},
                              !.row[s] = r, !.dels[s] = dels[s], !.dead[s] = dead[s]]
  BY DEF SkipWindow
<1>3. c = row[s].cursor /\ Sound(always[s], Len(log), born[s], R, dels[s], c)
  BY <1>1, <1>2 DEF StreamInv, StreamSound, Taken, TodoSound, PassOn, Pass
<1>4. c \in Nat /\ c <= Len(log) /\ born[s] \in Nat /\ born[s] <= c /\ Len(log) \in Nat
  BY <1>3, LenProperties DEF StreamInv, Types, Row, Sound
<1>5. row[s] \in Row /\ dels[s] \in Seq(Delivery) /\ dead[s] \in SUBSET Nat
      /\ always[s] \in SUBSET Nat /\ dead[s] \subseteq 1..Len(log)
  BY DEF StreamInv, Types, StreamSound
<1> HIDE DEF c, R
<1>6. /\ WindowEnd(c) \in Nat /\ c <= WindowEnd(c) /\ WindowEnd(c) <= Len(log)
      /\ \A q \in always[s] : c < q /\ q <= WindowEnd(c) => q \in Matching(s, c)
  BY <1>1, <1>4, WindowFacts
<1>7. r \in Row /\ r.cursor = WindowEnd(c) /\ r.status \in {"active", "paused"}
      /\ r.filters = row[s].filters
  BY <1>2, <1>5, <1>6 DEF Row, Exists
<1>8. Covered(always[s], born[s], R, WindowEnd(c))
  BY <1>2, <1>3, <1>4, <1>5, <1>6 DEF Sound, Covered
<1>9. Sound(always[s], Len(log), born[s], R, dels[s], WindowEnd(c))
  BY <1>3, <1>4, <1>6, <1>8 DEF Sound
<1> HIDE DEF r
<1>10. /\ pass' \in Pass /\ pass'.on /\ pass'.post = pass.post /\ pass'.snap = pass.snap
       /\ pass'.todo = pass.todo \ {s} /\ pass'.held = pass.held \cup {s}
       /\ pass'.row = [pass.row EXCEPT ![s] = r]
       /\ pass'.dels = [pass.dels EXCEPT ![s] = dels[s]]
       /\ pass'.dead = [pass.dead EXCEPT ![s] = dead[s]]
  BY <1>1, <1>2, <1>5, <1>7 DEF Pass
<1>11. /\ pass.on /\ s \notin pass.held /\ pass.post = <<>>
       /\ pass.row \in [Stream -> Row] /\ pass.dels \in [Stream -> Seq(Delivery)]
       /\ pass.dead \in [Stream -> SUBSET Nat] /\ pass.held \in SUBSET Stream
  BY <1>1 DEF Pass, StreamInv, Taken, PassOn, TakeStream, Posting
<1>12. HeldSound(s)'
  <2>1. pass'.row[s] = r /\ pass'.dels[s] = dels[s] /\ pass'.dead[s] = dead[s]
    BY <1>10, <1>11
  <2>2. Sound(always[s], Len(log), born[s], received[s] \cup dead[s], dels[s], r.cursor)
    BY <1>7, <1>9 DEF R
  <2> QED BY <1>1, <1>2, <1>5, <1>7, <2>1, <2>2 DEF HeldSound, Exists
<1>13. ASSUME NEW t \in pass.held PROVE HeldSound(t)'
  <2>1. t \in Stream /\ t # s /\ HeldSound(t)
    BY <1>11, <1>13 DEF StreamInv, Taken, PassOn
  <2>2. /\ pass'.row[t] = pass.row[t] /\ pass'.dels[t] = pass.dels[t]
        /\ pass'.dead[t] = pass.dead[t]
    BY <1>10, <1>11, <2>1
  <2> QED BY <1>1, <2>1, <2>2 DEF HeldSound, Exists
<1>14. \A t \in pass'.todo : TodoSound(t)'
  BY <1>1, <1>10, <1>11 DEF StreamInv, Taken, PassOn, TodoSound, Exists
<1>15. Taken'
  BY <1>10, <1>11, <1>12, <1>13, <1>14 DEF StreamInv, Taken, PassOn
<1>16. \A t \in Stream : InUse(t)' \subseteq InUse(t)
  BY <1>1, <1>10, InUseStays DEF PassOn
<1> QED BY <1>1, <1>10, <1>15, <1>16, PassOnly

(* It has nothing to do for the stream.                                     *)
LEMMA CaughtUpKeeps ==
    ASSUME StreamInv, NEW s \in Stream, TakeStream(s), CaughtUp(s)
    PROVE  StreamInv'
<1>1. /\ pass \in Pass /\ s \in pass.todo
      /\ UNCHANGED <<log, row, dels, dead, born, always, ever, received>>
      /\ pass.on /\ pass.post = <<>>
  BY DEF TakeStream, StreamInv, Types, PassOn, Posting, Idle, filtered
<1>2. /\ pass' \in Pass /\ pass'.on /\ pass'.post = <<>> /\ pass'.snap = pass.snap
      /\ pass'.todo = pass.todo \ {s} /\ pass'.held = pass.held
      /\ pass'.row = pass.row /\ pass'.dels = pass.dels /\ pass'.dead = pass.dead
  BY <1>1 DEF CaughtUp, Pass
<1>3. Taken'
  <2>1. ASSUME NEW t \in pass.held PROVE HeldSound(t)'
    <3>1. HeldSound(t)
      BY <1>1, <2>1 DEF StreamInv, Taken, PassOn
    <3> QED BY <1>1, <1>2, <3>1 DEF HeldSound, Exists
  <2> QED BY <1>1, <1>2, <2>1 DEF StreamInv, Taken, PassOn, TodoSound, Exists
<1>4. \A t \in Stream : InUse(t)' \subseteq InUse(t)
  BY <1>1, <1>2, InUseStays DEF PassOn
<1> QED BY <1>1, <1>2, <1>3, <1>4, PassOnly

(* What is posted is a typed delivery.                                      *)
LEMMA PostTyped ==
    ASSUME Types, Posting PROVE pass \in Pass /\ pass.post[1] \in PostRow
<1>1. pass \in Pass /\ pass.post # <<>>
  BY DEF Types, Posting, PassOn, Idle
<1>2. PICK p \in PostRow : pass.post = <<p>>
  BY <1>1 DEF Pass
<1> QED BY <1>1, <1>2

(* A stream that is handed more stays sound.                                *)
LEMMA MoreReceived ==
    ASSUME StreamInv, NEW t \in Stream, NEW taken \in SUBSET Nat,
           taken # {} => row[t].status # "absent",
           \A q \in taken : born[t] < q /\ q <= Len(log) /\ q \in ever[t],
           UNCHANGED <<log, row, dels, dead, born, always, ever>>,
           received'[t] = received[t] \cup taken,
           InUse(t)' \subseteq InUse(t)
    PROVE  StreamSound(t)'
<1> DEFINE R == received[t] \cup dead[t]
           Q == received'[t] \cup dead[t]
<1>1. /\ born[t] \in Nat /\ dels[t] \in Seq(Delivery) /\ row[t].cursor \in Nat
      /\ Len(log) \in Nat /\ always[t] \in SUBSET Nat /\ StreamSound(t)
  BY LenProperties DEF StreamInv, Types, Row
<1>2. R \subseteq Q /\ Grows(always[t], Len(log), always[t], Len(log))
      /\ Follows(dels[t], dels[t])
  BY <1>1, GrowsItself, FollowsItself
<1>3. ASSUME Exists(t) PROVE Sound(always[t], Len(log), born[t], Q, dels[t], row[t].cursor)
  <2>1. Sound(always[t], Len(log), born[t], R, dels[t], row[t].cursor)
    BY <1>1, <1>3 DEF StreamSound
  <2> HIDE DEF R, Q
  <2> QED BY <1>1, <1>2, <2>1, SoundGrows
<1>4. Filtered(t)'
  BY <1>1 DEF StreamSound, Filtered
<1> QED BY <1>1, <1>3, <1>4 DEF StreamSound, Exists

(* A pass that is lost leaves the committed rows; what its post has handed *)
(* over is handed over.                                                    *)
LEMMA LostKeeps ==
    ASSUME StreamInv, SlowAnswer \/ StreamGone \/ Crash
    PROVE  StreamInv'
<1> USE DEF StreamInv
<1>0. /\ pass' = Idle /\ UNCHANGED <<log, row, dels, dead, born, always, ever>>
  BY DEF SlowAnswer, StreamGone, Crash, RollBack, filtered
<1>1. Taken' /\ \A s \in Stream : InUse(s)' \subseteq InUse(s)
  BY <1>0 DEF Taken, PassOn, Idle, InUse
<1>2. CASE UNCHANGED received
  BY <1>0, <1>1, <1>2, PassOnly
<1>3. ASSUME Posting, NEW taken \in {{}, pass.post[1].entries},
             received' = [received EXCEPT ![pass.post[1].stream] = @ \cup taken]
      PROVE  StreamInv'
  <2> DEFINE p == pass.post[1]
             s == p.stream
  <2>1. p \in PostRow /\ SoundPost(p)
    BY <1>3, PostTyped DEF Taken, Posting
  <2>2. s \in Stream /\ taken \in SUBSET Nat /\ taken \subseteq p.entries
    BY <2>1 DEF PostRow
  <2> HIDE DEF p
  <2>3. received' = [received EXCEPT ![s] = @ \cup taken]
    BY <1>3 DEF p
  <2>4. received' \in [Stream -> SUBSET Nat]
    BY <2>2, <2>3 DEF Types
  <2>5. Types'
    BY <1>0, <2>4 DEF Types
  <2>6. /\ row[s].status # "absent"
        /\ \A q \in taken : born[s] < q /\ q <= Len(log) /\ q \in ever[s]
    BY <2>1, <2>2 DEF SoundPost, s
  <2> HIDE DEF s
  <2>7. ASSUME NEW t \in Stream PROVE StreamSound(t)'
    <3> DEFINE T == IF t = s THEN taken ELSE {}
    <3>1. /\ received'[t] = received[t] \cup T /\ T \in SUBSET Nat
          /\ T # {} => row[t].status # "absent"
          /\ \A q \in T : born[t] < q /\ q <= Len(log) /\ q \in ever[t]
      BY <2>2, <2>3, <2>6 DEF Types
    <3> HIDE DEF T
    <3> QED BY <1>0, <1>1, <3>1, MoreReceived
  <2> QED BY <1>1, <2>5, <2>7
<1>4. CASE SlowAnswer
  BY <1>3, <1>4 DEF SlowAnswer
<1>5. CASE StreamGone
  BY <1>2, <1>5 DEF StreamGone
<1>6. CASE Crash
  BY <1>2, <1>3, <1>6 DEF Crash
<1> QED BY <1>4, <1>5, <1>6

(* The pass commits: what it holds becomes the rows.                        *)
LEMMA CommitKeeps == ASSUME StreamInv, CommitPass PROVE StreamInv'
<1> USE DEF StreamInv
<1>1. /\ row' = [s \in Stream |-> IF s \in pass.held THEN pass.row[s] ELSE row[s]]
      /\ dels' = [s \in Stream |-> IF s \in pass.held THEN pass.dels[s] ELSE dels[s]]
      /\ dead' = [s \in Stream |-> IF s \in pass.held THEN pass.dead[s] ELSE dead[s]]
      /\ pass' = Idle /\ UNCHANGED <<log, born, always, ever, received>> /\ PassOn
  BY DEF CommitPass, filtered
<1>2. pass \in Pass
  BY <1>1 DEF Types, PassOn, Idle
<1>3. Taken'
  BY <1>1 DEF Taken, PassOn, Idle
<1>4. ASSUME NEW s \in Stream
      PROVE  StreamSound(s)' /\ row'[s] \in Row /\ dels'[s] \in Seq(Delivery)
             /\ row'[s].cursor <= Len(log) /\ dead'[s] \in SUBSET Nat
  <2>0. row[s].filters = row'[s].filters => Filtered(s)'
    <3>1. ~PassOn'
      BY <1>1 DEF PassOn, Idle
    <3> QED BY <1>1, <3>1 DEF StreamSound, Filtered, InUse
  <2>1. CASE s \in pass.held
    <3>1. HeldSound(s) /\ row'[s] = pass.row[s] /\ dels'[s] = pass.dels[s]
          /\ dead'[s] = pass.dead[s]
      BY <1>1, <2>1 DEF Taken
    <3>2. row'[s] \in Row /\ dels'[s] \in Seq(Delivery) /\ row'[s].status \in {"active", "paused"}
          /\ dead'[s] \in SUBSET Nat
      BY <1>2, <3>1 DEF Pass, HeldSound
    <3>3. Sound(always[s], Len(log), born[s], received[s] \cup dead'[s], dels'[s],
                row'[s].cursor)
          /\ dead'[s] \subseteq 1..Len(log) /\ row[s].filters = row'[s].filters
      BY <3>1 DEF HeldSound
    <3> QED BY <1>1, <2>0, <3>2, <3>3 DEF StreamSound, Exists, Sound
  <2>2. CASE s \notin pass.held
    BY <1>1, <2>0, <2>2 DEF Types, StreamSound, Exists
  <2> QED BY <2>1, <2>2
<1>5. Types'
  BY <1>1, <1>4 DEF Types
<1> QED BY <1>3, <1>4, <1>5

(* What an answer leaves of the deliveries: those that were there, without  *)
(* the one that is settled, and the one that failed in its place or added.  *)
After(ds, i, e, settled) ==
    IF i = 0 THEN IF settled THEN ds ELSE Append(ds, e)
    ELSE IF settled THEN RemoveAt(ds, i) ELSE [ds EXCEPT ![i] = e]
(* Each is the failed one, or was there.                                    *)
LEMMA AfterFacts ==
    ASSUME NEW ds \in Seq(Delivery), NEW i \in Nat, NEW e \in Delivery, NEW settled \in BOOLEAN,
           i # 0 => i \in DOMAIN ds
    PROVE  LET es == After(ds, i, e, settled)
           IN  /\ es \in Seq(Delivery)
               /\ \A j \in DOMAIN es : \/ ~settled /\ es[j] = e
                                       \/ \E k \in DOMAIN ds : es[j] = ds[k]
<1> DEFINE es == After(ds, i, e, settled)
<1>0. Len(ds) \in Nat /\ DOMAIN ds = 1..Len(ds)
  BY LenProperties
<1>1. CASE i = 0 /\ settled
  BY <1>1 DEF After
<1>2. CASE i = 0 /\ ~settled
  BY <1>2, AppendProperties, LenProperties DEF After
<1>3. CASE i # 0 /\ ~settled
  BY <1>3, ExceptSeq DEF After
<1>4. CASE i # 0 /\ settled
  <2> DEFINE a == SubSeq(ds, 1, i - 1)
             b == SubSeq(ds, i + 1, Len(ds))
  <2>1. i \in 1..Len(ds) /\ i - 1 \in Int /\ i + 1 \in Int
    BY <1>0, <1>4
  <2>2. \A j \in 1..Len(ds) : ds[j] \in Delivery
    BY ElementOfSeq
  <2>3. /\ a \in Seq(Delivery) /\ Len(a) = i - 1
        /\ \A j \in 1..(i - 1) : a[j] = ds[j]
    <3>1. \A j \in 1..(i - 1) : ds[j] \in Delivery
      BY <1>0, <2>1, <2>2
    <3>2. /\ a \in Seq(Delivery)
          /\ Len(a) = IF 1 <= i - 1 THEN (i - 1) - 1 + 1 ELSE 0
          /\ \A j \in 1..((i - 1) - 1 + 1) : a[j] = ds[1 + j - 1]
      BY <2>1, <3>1, SubSeqProperties
    <3> HIDE DEF a
    <3> QED BY <1>0, <2>1, <3>2
  <2>4. /\ b \in Seq(Delivery) /\ Len(b) = Len(ds) - i
        /\ \A j \in 1..(Len(ds) - i) : b[j] = ds[i + j]
    <3>1. \A j \in (i + 1)..Len(ds) : ds[j] \in Delivery
      BY <1>0, <2>1, <2>2
    <3>2. /\ b \in Seq(Delivery)
          /\ Len(b) = IF i + 1 <= Len(ds) THEN Len(ds) - (i + 1) + 1 ELSE 0
          /\ \A j \in 1..(Len(ds) - (i + 1) + 1) : b[j] = ds[(i + 1) + j - 1]
      BY <1>0, <2>1, <3>1, SubSeqProperties
    <3> HIDE DEF b
    <3>3. Len(b) = Len(ds) - i /\ Len(ds) - (i + 1) + 1 = Len(ds) - i
      <4>1. i \in Nat /\ Len(ds) \in Nat /\ i <= Len(ds)
        BY <1>0, <2>1
      <4>2. Len(b) = IF i + 1 <= Len(ds) THEN Len(ds) - (i + 1) + 1 ELSE 0
        BY <3>2
      <4> QED BY <4>1, <4>2
    <3>4. ASSUME NEW j \in 1..(Len(ds) - i) PROVE b[j] = ds[i + j]
      <4>1. (i + 1) + j - 1 = i + j
        BY <1>0, <2>1
      <4>2. b[j] = ds[(i + 1) + j - 1]
        BY <3>2, <3>3
      <4> QED BY <4>1, <4>2
    <3> QED BY <3>2, <3>3, <3>4
  <2>5. es = a \o b
    BY <1>4 DEF After, RemoveAt
  <2> HIDE DEF a, b, es
  <2>6. /\ es \in Seq(Delivery) /\ Len(es) = (i - 1) + (Len(ds) - i)
        /\ \A j \in 1..((i - 1) + (Len(ds) - i)) :
             es[j] = IF j <= i - 1 THEN a[j] ELSE b[j - (i - 1)]
    <3>1. /\ a \o b \in Seq(Delivery) /\ Len(a \o b) = Len(a) + Len(b)
          /\ \A j \in 1..Len(a) + Len(b) :
               (a \o b)[j] = IF j <= Len(a) THEN a[j] ELSE b[j - Len(a)]
      BY <2>3, <2>4, ConcatProperties
    <3>2. Len(a) = i - 1 /\ Len(b) = Len(ds) - i
      BY <2>3, <2>4
    <3> QED BY <2>5, <3>1, <3>2
  <2>7. ASSUME NEW j \in DOMAIN es PROVE \E k \in DOMAIN ds : es[j] = ds[k]
    <3>1. j \in 1..((i - 1) + (Len(ds) - i))
      BY <1>0, <2>1, <2>6, LenProperties
    <3>2. CASE j <= i - 1
      <4>1. es[j] = ds[j] /\ j \in 1..Len(ds)
        BY <1>0, <2>1, <2>3, <2>6, <3>1, <3>2
      <4> QED BY <1>0, <4>1
    <3>3. CASE ~(j <= i - 1)
      <4>1. j - (i - 1) \in 1..(Len(ds) - i) /\ i + (j - (i - 1)) = j + 1 /\ j + 1 \in 1..Len(ds)
        BY <1>0, <2>1, <3>1, <3>3
      <4>2. es[j] = ds[j + 1]
        BY <2>4, <2>6, <3>1, <3>3, <4>1
      <4> QED BY <1>0, <4>1, <4>2
    <3> QED BY <3>2, <3>3
  <2> QED BY <2>6, <2>7 DEF es
<1> QED BY <1>1, <1>2, <1>3, <1>4

OneOf(es, e, ds) == \A j \in DOMAIN es : es[j] = e \/ \E k \in DOMAIN ds : es[j] = ds[k]
Settled(A, Q, d) == \A q \in A : d.from < q /\ q <= d.to => q \in Q
(* Whatever the answer, the cursor stays sound: it moves past the window    *)
(* only if the window is delivered or dead.                                 *)
LEMMA AnswerSound ==
    ASSUME NEW A \in SUBSET Nat, NEW N \in Nat, NEW b \in Nat, NEW R, NEW Q, R \subseteq Q,
           NEW ds \in Seq(Delivery), NEW n \in Nat, Sound(A, N, b, R, ds, n),
           NEW d \in Delivery, NEW e \in Delivery, SameWindow(e, d),
           SoundDelivery(A, N, b, R, d), NEW es \in Seq(Delivery),
           OneOf(es, e, ds), NEW m \in Nat, m = n \/ (m = d.to /\ ~d.test /\ Settled(A, Q, d))
    PROVE  Sound(A, N, b, Q, es, m)
<1>1. Grows(A, N, A, N) /\ d.from \in Nat /\ d.to \in Nat /\ BatchSize \in Nat
  BY GrowsItself, StreamAssumption DEF Delivery
<1>2. SoundDelivery(A, N, b, Q, d)
  BY <1>1, DeliveryGrows
<1>3. ASSUME NEW j \in DOMAIN es PROVE SoundDelivery(A, N, b, Q, es[j])
  <2>1. CASE es[j] = e
    BY <1>2, <2>1 DEF SoundDelivery, SameWindow
  <2>2. ASSUME NEW k \in DOMAIN ds, es[j] = ds[k] PROVE SoundDelivery(A, N, b, Q, es[j])
    <3>1. ds[k] \in Delivery /\ SoundDelivery(A, N, b, R, ds[k])
      BY <2>2, ElementOfSeq, LenProperties DEF Sound
    <3>2. SoundDelivery(A, N, b, Q, ds[k])
      BY <1>1, <3>1, DeliveryGrows
    <3> QED BY <2>2, <3>2
  <2> QED BY <1>3, <2>1, <2>2 DEF OneOf
<1>4. b <= n /\ n <= N /\ Covered(A, b, Q, n)
  BY <1>1, CoveredGrows DEF Sound
<1>5. CASE m = n
  BY <1>3, <1>4, <1>5 DEF Sound
<1>6. CASE m = d.to /\ ~d.test /\ Settled(A, Q, d)
  <2>1. b <= d.from /\ d.from <= d.to /\ d.to <= EndIn(N, d.from) /\ Covered(A, b, Q, d.from)
    BY <1>2, <1>6 DEF SoundDelivery
  <2>2. d.to <= N
    BY <1>1, <2>1 DEF EndIn
  <2>3. Covered(A, b, Q, m)
    BY <1>1, <1>6, <2>1 DEF Covered, Settled
  <2> QED BY <1>1, <1>3, <1>6, <2>1, <2>2, <2>3 DEF Sound
<1> QED BY <1>5, <1>6

(* A failed delivery is typed and keeps its window.                         *)
LEMMA FailedFacts ==
    ASSUME NEW d \in Delivery PROVE Failed(d) \in Delivery /\ SameWindow(Failed(d), d)
<1> DEFINE a == d.attempts + 1
           due == DueAfter(a)
<1>1. Failed(d) = [d EXCEPT !.attempts = a, !.status = "failed", !.due = due]
  BY DEF Failed
<1>2. a \in Nat /\ due \in {"now", "later", "never"}
  BY DEF DueAfter, Delivery
<1> HIDE DEF a, due
<1> QED BY <1>1, <1>2 DEF Delivery, SameWindow

(* What an answer writes into the stream's row.                             *)
LEMMA RowFacts ==
    ASSUME StreamInv, NEW s \in Stream, NEW d \in Delivery, NEW o, pass \in Pass, Exists(s)
    PROVE  LET r == RowAfter(s, d, o)
           IN  /\ r \in Row /\ r.status \in {"active", "paused"} /\ r.filters = row[s].filters
               /\ \/ r.cursor = row[s].cursor
                  \/ r.cursor = d.to /\ ~d.test /\ Settles(d, o)
               /\ r.status = "active" =>
                    r.failures < PauseThreshold \/ (o = "ok" /\ r.failures = 0)
<1> DEFINE x == row[s]
           k == pass.snap[s].failures
           moved == IF ~d.test /\ Settles(d, o) THEN d.to ELSE x.cursor
           failures == k + 1
           status == IF failures >= PauseThreshold THEN "paused" ELSE x.status
           r == RowAfter(s, d, o)
<1>1. x \in Row /\ x.status \in {"active", "paused"}
  BY DEF StreamInv, Types, Exists
<1>2. d.to \in Nat /\ k \in Nat /\ PauseThreshold \in Nat
  BY StreamAssumption DEF Pass, Row, Delivery
<1>3. r = IF o = "ok" THEN [x EXCEPT !.cursor = moved, !.failures = 0]
          ELSE [x EXCEPT !.cursor = moved, !.failures = failures, !.status = status]
  BY DEF RowAfter
<1>4. moved \in Nat /\ (moved = x.cursor \/ (moved = d.to /\ ~d.test /\ Settles(d, o)))
  <2>1. x.cursor \in Nat
    BY <1>1 DEF Row
  <2> HIDE DEF x, k
  <2> QED BY <1>2, <2>1
<1>5. /\ failures \in Nat /\ status \in {"active", "paused"}
      /\ status = "active" => failures < PauseThreshold
  <2> HIDE DEF x, k
  <2> QED BY <1>1, <1>2
<1> HIDE DEF moved, failures, status, r, k, x
<1>6. CASE o = "ok"
  <2>1. r = [x EXCEPT !.cursor = moved, !.failures = 0]
    BY <1>3, <1>6
  <2>2. /\ r \in Row /\ r.status = x.status /\ r.cursor = moved /\ r.filters = x.filters
        /\ r.failures = 0
    BY <1>1, <1>4, <2>1 DEF Row
  <2> QED BY <1>1, <1>4, <1>6, <2>2 DEF r, x
<1>7. CASE o # "ok"
  <2>1. r = [x EXCEPT !.cursor = moved, !.failures = failures, !.status = status]
    BY <1>3, <1>7
  <2>2. /\ r \in Row /\ r.status = status /\ r.cursor = moved /\ r.filters = x.filters
        /\ r.failures = failures
    BY <1>1, <1>4, <1>5, <2>1 DEF Row
  <2> QED BY <1>4, <1>5, <2>2 DEF r, x
<1> QED BY <1>6, <1>7

(* A post is answered.                                                      *)
LEMMA AnswerKeeps == ASSUME StreamInv, NEW o \in Outcome, Answer(o) PROVE StreamInv'
<1> USE DEF StreamInv
<1>0. Posting /\ pass.post[1] \in PostRow
  BY PostTyped DEF Answer
<1> SUFFICES ASSUME NEW p \in PostRow, p = pass.post[1] PROVE StreamInv'
  BY <1>0
<1> DEFINE s == p.stream
           d == p.del
           r == RowAfter(s, d, o)
           es == DelsAfter(s, p.index, d, o)
           D == DeadAfter(s, d, o)
           got == IF o = "ok" THEN p.entries ELSE {}
           R == received[s] \cup dead[s]
           Q == received'[s] \cup D
<1>1. /\ pass \in Pass /\ p \in PostRow /\ SoundPost(p) /\ pass.on
  BY PostTyped DEF Answer, Taken, Posting, PassOn
<1>2. /\ s \in Stream /\ d \in Delivery /\ p.index \in Nat /\ p.entries \in SUBSET Nat
  BY <1>1 DEF PostRow
<1>3. /\ Exists(s)
      /\ pass' = [pass EXCEPT !.post = <<>>, !.held = @ \cup {s}, !.row[s] = r,
                              !.dels[s] = es, !.dead[s] = D]
      /\ received' = [received EXCEPT ![s] = @ \cup got]
      /\ UNCHANGED <<log, row, dels, dead, born, always, ever>>
  BY DEF Answer, filtered
<1>4. /\ row[s].status # "absent" /\ s \notin pass.held /\ s \notin pass.todo
      /\ \A q \in p.entries : born[s] < q /\ q <= Len(log) /\ q \in ever[s]
      /\ SoundDelivery(always[s], Len(log), born[s], R, d)
      /\ \A q \in always[s] : d.from < q /\ q <= d.to => q \in p.entries
      /\ p.index # 0 => p.index \in DOMAIN dels[s]
  BY <1>1, <1>3 DEF SoundPost
<1>5. /\ Len(log) \in Nat /\ always[s] \in SUBSET Nat /\ born[s] \in Nat
      /\ dels[s] \in Seq(Delivery) /\ row[s].cursor \in Nat /\ d.from \in Nat /\ d.to \in Nat
      /\ received[s] \in SUBSET Nat /\ dead[s] \in SUBSET Nat /\ dead[s] \subseteq 1..Len(log)
      /\ Sound(always[s], Len(log), born[s], R, dels[s], row[s].cursor)
  BY <1>2, <1>3, LenProperties DEF Types, StreamSound, Row, Delivery
<1>6. got \in SUBSET p.entries /\ (o = "ok" => got = p.entries)
  OBVIOUS
<1>7. /\ r \in Row /\ r.status \in {"active", "paused"} /\ r.filters = row[s].filters
      /\ \/ r.cursor = row[s].cursor
         \/ r.cursor = d.to /\ ~d.test /\ Settles(d, o)
  BY <1>1, <1>2, <1>3, RowFacts
<1>8. /\ es \in Seq(Delivery)
      /\ \A j \in DOMAIN es : es[j] = Failed(d) \/ \E k \in DOMAIN dels[s] : es[j] = dels[s][k]
  <2>1. es = After(dels[s], p.index, Failed(d), Settles(d, o)) /\ Settles(d, o) \in BOOLEAN
    BY DEF DelsAfter, After, Settles
  <2> DEFINE ds == dels[s]
             e == Failed(d)
             k == Settles(d, o)
             i == p.index
  <2>2. /\ ds \in Seq(Delivery) /\ i \in Nat /\ e \in Delivery /\ k \in BOOLEAN
        /\ i # 0 => i \in DOMAIN ds
    BY <1>2, <1>4, <1>5, <2>1, FailedFacts
  <2> HIDE DEF es, s, d, ds, e, k, i
  <2>3. LET x == After(ds, i, e, k)
        IN  /\ x \in Seq(Delivery)
            /\ \A j \in DOMAIN x : \/ ~k /\ x[j] = e
                                   \/ \E l \in DOMAIN ds : x[j] = ds[l]
    BY <2>2, AfterFacts
  <2>4. /\ es \in Seq(Delivery)
        /\ \A j \in DOMAIN es : es[j] = e \/ \E l \in DOMAIN ds : es[j] = ds[l]
    BY <2>1, <2>3 DEF ds, e, k, i
  <2> QED BY <2>4 DEF ds, e
<1>9. /\ D \in SUBSET Nat /\ D \subseteq 1..Len(log) /\ dead[s] \subseteq D
      /\ (o # "ok" /\ ~d.test /\ Settles(d, o)) =>
            \A q \in Nat : d.from < q /\ q <= d.to => q \in D
  <2>1. ~d.test => d.to <= Len(log)
    BY <1>4, <1>5, StreamAssumption DEF SoundDelivery, EndIn
  <2>2. D = dead[s] \cup IF o # "ok" /\ ~d.test /\ Settles(d, o) THEN (d.from + 1)..d.to ELSE {}
    BY DEF DeadAfter, Window
  <2> HIDE DEF D, d, s
  <2> QED BY <1>5, <2>1, <2>2
<1> HIDE DEF d, s, r, es, got, D, R, Q
<1>10. /\ received'[s] = received[s] \cup got /\ received' \in [Stream -> SUBSET Nat]
       /\ \A t \in Stream \ {s} : received'[t] = received[t]
  BY <1>2, <1>3, <1>6 DEF Types
<1>11. R \subseteq Q
  BY <1>9, <1>10 DEF R, Q
<1>12. Sound(always[s], Len(log), born[s], Q, es, r.cursor)
  <2>1. r.cursor \in Nat
    BY <1>7 DEF Row
  <2>2. \/ r.cursor = row[s].cursor
        \/ r.cursor = d.to /\ ~d.test /\ \A q \in always[s] : d.from < q /\ q <= d.to => q \in Q
    <3>1. CASE o = "ok"
      BY <1>4, <1>6, <1>7, <1>10, <3>1 DEF Q
    <3>2. CASE o # "ok"
      BY <1>5, <1>7, <1>9, <3>2 DEF Q
    <3> QED BY <3>1, <3>2
  <2>3. Failed(d) \in Delivery /\ SameWindow(Failed(d), d)
    BY <1>2, FailedFacts
  <2> DEFINE A == always[s]
             N == Len(log)
             b == born[s]
             ds == dels[s]
             n == row[s].cursor
             e == Failed(d)
             m == r.cursor
  <2>4. /\ A \in SUBSET Nat /\ N \in Nat /\ b \in Nat /\ R \subseteq Q /\ ds \in Seq(Delivery)
        /\ n \in Nat /\ Sound(A, N, b, R, ds, n) /\ d \in Delivery /\ e \in Delivery
        /\ SameWindow(e, d) /\ SoundDelivery(A, N, b, R, d) /\ es \in Seq(Delivery) /\ m \in Nat
    BY <1>2, <1>4, <1>5, <1>8, <1>11, <2>1, <2>3
  <2>5. OneOf(es, e, ds)
    BY <1>8 DEF OneOf
  <2>6. m = n \/ (m = d.to /\ ~d.test /\ Settled(A, Q, d))
    BY <2>2 DEF Settled
  <2> HIDE DEF A, N, b, ds, n, e, m
  <2>7. Sound(A, N, b, Q, es, m)
    BY <2>4, <2>5, <2>6, AnswerSound
  <2> QED BY <2>7 DEF A, N, b, m
<1>13. /\ pass' \in Pass /\ pass'.on /\ pass'.post = <<>> /\ pass'.snap = pass.snap
       /\ pass'.todo = pass.todo /\ pass'.held = pass.held \cup {s}
       /\ pass'.row = [pass.row EXCEPT ![s] = r]
       /\ pass'.dels = [pass.dels EXCEPT ![s] = es]
       /\ pass'.dead = [pass.dead EXCEPT ![s] = D]
  BY <1>1, <1>2, <1>3, <1>7, <1>8, <1>9 DEF Pass
<1>14. /\ pass.row \in [Stream -> Row] /\ pass.dels \in [Stream -> Seq(Delivery)]
       /\ pass.dead \in [Stream -> SUBSET Nat]
       /\ pass.held \in SUBSET Stream /\ pass.todo \in SUBSET Stream
  BY <1>1 DEF Pass
<1>15. HeldSound(s)'
  <2>1. pass'.row[s] = r /\ pass'.dels[s] = es /\ pass'.dead[s] = D
    BY <1>2, <1>13, <1>14
  <2>2. Sound(always[s], Len(log), born[s], received'[s] \cup D, es, r.cursor)
    BY <1>12 DEF Q
  <2> QED BY <1>3, <1>7, <1>9, <2>1, <2>2 DEF HeldSound, Exists
<1>16. ASSUME NEW t \in pass.held PROVE HeldSound(t)'
  <2>1. t \in Stream /\ t # s /\ HeldSound(t) /\ received'[t] = received[t]
    BY <1>1, <1>4, <1>10, <1>14, <1>16 DEF Taken, PassOn
  <2>2. /\ pass'.row[t] = pass.row[t] /\ pass'.dels[t] = pass.dels[t]
        /\ pass'.dead[t] = pass.dead[t]
    BY <1>13, <1>14, <2>1
  <2> QED BY <1>3, <2>1, <2>2 DEF HeldSound, Exists
<1>17. \A t \in pass'.todo : TodoSound(t)'
  BY <1>1, <1>3, <1>13 DEF Taken, PassOn, TodoSound, Exists
<1>18. Taken'
  <2>1. pass'.todo \cap pass'.held = {}
    BY <1>1, <1>4, <1>13 DEF Taken, PassOn
  <2>2. \A t \in pass'.held : HeldSound(t)'
    BY <1>13, <1>15, <1>16
  <2> QED BY <1>13, <1>17, <2>1, <2>2 DEF Taken
<1>19. Types'
  BY <1>3, <1>10, <1>13 DEF Types
<1>20. ASSUME NEW t \in Stream PROVE StreamSound(t)'
  <2> DEFINE T == IF t = s THEN got ELSE {}
  <2>1. /\ received'[t] = received[t] \cup T /\ T \in SUBSET Nat
        /\ T # {} => row[t].status # "absent"
        /\ \A q \in T : born[t] < q /\ q <= Len(log) /\ q \in ever[t]
    BY <1>2, <1>4, <1>6, <1>10
  <2>2. InUse(t)' \subseteq InUse(t)
    BY <1>1, <1>3, <1>13, InUseStays DEF PassOn
  <2> HIDE DEF T
  <2> QED BY <1>3, <2>1, <2>2, MoreReceived
<1> QED BY <1>18, <1>19, <1>20

(* Every step keeps the invariant.                                          *)
LEMMA StreamStep == StreamInv /\ [Next]_vars => StreamInv'
<1> SUFFICES ASSUME StreamInv, [Next]_vars PROVE StreamInv'
  OBVIOUS
<1>1. ASSUME NEW s \in Stream, TakeStream(s) PROVE StreamInv'
  BY <1>1, RetryKeeps, CaughtUpKeeps, SkipKeeps, OpenKeeps DEF TakeStream, NextWindow
<1>2. CASE UNCHANGED vars
  <2>1. Taken'
    BY <1>2 DEF vars, StreamInv, Exists, Taken, PassOn, TodoSound, HeldSound, SoundPost
  <2>2. pass' \in {Idle} \cup Pass /\ \A s \in Stream : InUse(s)' \subseteq InUse(s)
    BY <1>2 DEF vars, StreamInv, Types, InUse, PassOn
  <2> QED BY <1>2, <2>1, <2>2, PassOnly DEF vars
<1> QED BY <1>1, <1>2, RequestStep, BeginKeeps, AnswerKeeps, CommitKeeps, LostKeeps
        DEF Next, AdministratorNext

(* So it holds always.                                                      *)
LEMMA StreamInvariant == Spec => []StreamInv
  BY StreamInit, StreamStep, PTL DEF Spec

(* At least once and nothing before its time, whatever edits of the filters *)
(* and the status race with the pass: behind the cursor of every stream     *)
(* each entry that the filters in use never excluded was handed over or is  *)
(* kept as dead, and none was sent that is older than the stream or that    *)
(* they always excluded.                                                    *)
THEOREM NeverAGap == Spec => []NoSilentGap
<1>1. StreamInv => NoSilentGap
  <2> SUFFICES ASSUME StreamInv PROVE NoSilentGap
    OBVIOUS
  <2>1. NoBackfill
    BY DEF StreamInv, StreamSound, NoBackfill
  <2>2. ASSUME NEW s \in Stream, Exists(s), NEW p \in (born[s] + 1)..row[s].cursor,
               p \in always[s]
        PROVE  Handled(s, p)
    <3>1. /\ p \in Nat /\ born[s] < p /\ p <= row[s].cursor
      BY <2>2 DEF StreamInv, Types, Row
    <3>2. Covered(always[s], born[s], received[s] \cup dead[s], row[s].cursor)
      BY <2>2 DEF StreamInv, StreamSound, Sound
    <3> QED BY <2>2, <3>1, <3>2 DEF Covered, Handled
  <2> QED BY <2>1, <2>2 DEF NoSilentGap, NoGap
<1> QED BY <1>1, StreamInvariant, PTL

-----------------------------------------------------------------------------
(* What the rows say together: retries have a date while attempts are left, *)
(* and an active stream has not used up its failures, in what is committed *)
(* and in what a pass has written so far.                                  *)
Scheduled(d) == d.due # "never" /\ d.attempts < MaxAttempts
Steady(r, ds) ==
    /\ r.status = "active" => r.failures < PauseThreshold
    /\ \A i \in DOMAIN ds : Scheduled(ds[i])
SteadyInv ==
    /\ \A s \in Stream : Steady(row[s], dels[s])
    /\ PassOn => \A s \in pass.held : Steady(pass.row[s], pass.dels[s])

(* There are no rows at first.                                              *)
LEMMA SteadyInit == Init => SteadyInv
  BY DEF Init, SteadyInv, Steady, PassOn, Idle

(* A request that changes one stream leaves the others steady.              *)
LEMMA SteadyRequest ==
    ASSUME StreamInv, SteadyInv, UNCHANGED pass, NEW s \in Stream,
           \A t \in Stream \ {s} : row'[t] = row[t] /\ dels'[t] = dels[t],
           Steady(row'[s], dels'[s])
    PROVE  SteadyInv'
  BY DEF SteadyInv, PassOn

(* A failed delivery that is kept has a date, and attempts are left.        *)
LEMMA FailedScheduled ==
    ASSUME NEW d \in Delivery, NEW o \in Outcome, ~Settles(d, o) PROVE Scheduled(Failed(d))
<1> DEFINE a == d.attempts + 1
           due == DueAfter(a)
<1>1. Failed(d) = [d EXCEPT !.attempts = a, !.status = "failed", !.due = due]
  BY DEF Failed
<1>2. due # "never" /\ a < MaxAttempts
  BY DEF Settles, CanRetry, DueAfter
<1> HIDE DEF a, due
<1> QED BY <1>1, <1>2 DEF Delivery, Scheduled

(* An answer leaves what the pass holds steady.                             *)
LEMMA SteadyAnswer ==
    ASSUME StreamInv, SteadyInv, NEW o \in Outcome, Answer(o) PROVE SteadyInv'
<1>0. Posting /\ pass.post[1] \in PostRow /\ pass \in Pass
  BY PostTyped DEF Answer, StreamInv
<1> SUFFICES ASSUME NEW p \in PostRow, p = pass.post[1] PROVE SteadyInv'
  BY <1>0
<1> DEFINE s == p.stream
           d == p.del
           r == RowAfter(s, d, o)
           es == DelsAfter(s, p.index, d, o)
           D == DeadAfter(s, d, o)
<1>1. s \in Stream /\ d \in Delivery /\ p.index \in Nat /\ dels[s] \in Seq(Delivery)
  BY DEF PostRow, StreamInv, Types
<1>2. /\ pass' = [pass EXCEPT !.post = <<>>, !.held = @ \cup {s}, !.row[s] = r,
                              !.dels[s] = es, !.dead[s] = D]
      /\ UNCHANGED <<row, dels>> /\ PassOn /\ Exists(s)
  BY DEF Answer, Posting
<1>3. p.index # 0 => p.index \in DOMAIN dels[s]
  BY <1>2, <1>0 DEF StreamInv, Taken, SoundPost, Posting
<1>4. r.status = "active" => r.failures < PauseThreshold
  <2>1. r.status = "active" => r.failures < PauseThreshold \/ (o = "ok" /\ r.failures = 0)
    BY <1>0, <1>1, <1>2, RowFacts
  <2>2. 0 < PauseThreshold
    BY StreamAssumption
  <2> HIDE DEF r
  <2> QED BY <2>1, <2>2
<1>5. \A j \in DOMAIN es : Scheduled(es[j])
  <2> DEFINE ds == dels[s]
             e == Failed(d)
             k == Settles(d, o)
             i == p.index
  <2>1. es = After(ds, i, e, k) /\ k \in BOOLEAN
    BY DEF DelsAfter, After, Settles
  <2>2. /\ ds \in Seq(Delivery) /\ i \in Nat /\ e \in Delivery
        /\ i # 0 => i \in DOMAIN ds
    BY <1>1, <1>3, FailedFacts
  <2>3. ~k => Scheduled(e)
    BY <1>1, FailedScheduled
  <2>4. \A l \in DOMAIN ds : Scheduled(ds[l])
    BY <1>1 DEF SteadyInv, Steady
  <2> HIDE DEF es, s, d, ds, e, k, i
  <2>5. LET x == After(ds, i, e, k)
        IN  \A j \in DOMAIN x : (~k /\ x[j] = e) \/ \E l \in DOMAIN ds : x[j] = ds[l]
    BY <2>1, <2>2, AfterFacts
  <2> QED BY <2>1, <2>3, <2>4, <2>5
<1> HIDE DEF r, s, d, es, D
<1>6. /\ pass'.held = pass.held \cup {s}
      /\ pass'.row = [pass.row EXCEPT ![s] = r] /\ pass'.dels = [pass.dels EXCEPT ![s] = es]
      /\ pass.row \in [Stream -> Row] /\ pass.dels \in [Stream -> Seq(Delivery)]
  BY <1>0, <1>2 DEF Pass
<1>7. Steady(pass'.row[s], pass'.dels[s])
  BY <1>1, <1>4, <1>5, <1>6 DEF Steady
<1>8. ASSUME NEW t \in pass.held, t # s PROVE Steady(pass'.row[t], pass'.dels[t])
  <2>1. t \in Stream /\ pass'.row[t] = pass.row[t] /\ pass'.dels[t] = pass.dels[t]
    BY <1>0, <1>6, <1>8 DEF Pass
  <2> QED BY <1>2, <1>8, <2>1 DEF SteadyInv
<1> QED BY <1>2, <1>6, <1>7, <1>8 DEF SteadyInv

(* So does taking a stream: its cursor may move, nothing else.              *)
LEMMA SteadyTake ==
    ASSUME StreamInv, SteadyInv, NEW s \in Stream, TakeStream(s) PROVE SteadyInv'
<1>1. pass \in Pass /\ PassOn /\ UNCHANGED <<row, dels>>
  BY DEF TakeStream, StreamInv, Types, PassOn, Idle
<1>2. CASE UNCHANGED <<pass.held, pass.row, pass.dels>>
  BY <1>1, <1>2 DEF SteadyInv
<1>3. CASE Retry(s) \/ CaughtUp(s) \/ OpenWindow(s)
  BY <1>1, <1>2, <1>3 DEF Retry, CaughtUp, OpenWindow, Pass
<1>4. CASE SkipWindow(s)
  <2> DEFINE r == [row[s] EXCEPT !.cursor = WindowEnd(pass.snap[s].cursor)]
  <2>1. /\ pass'.held = pass.held \cup {s}
        /\ pass'.row = [pass.row EXCEPT ![s] = r] /\ pass'.dels = [pass.dels EXCEPT ![s] = dels[s]]
        /\ pass.row \in [Stream -> Row] /\ pass.dels \in [Stream -> Seq(Delivery)]
    BY <1>1, <1>4 DEF SkipWindow, Pass
  <2>2. Steady(r, dels[s])
    BY DEF SteadyInv, Steady, StreamInv, Types, Row
  <2> HIDE DEF r
  <2>3. ASSUME NEW t \in pass.held, t # s PROVE Steady(pass'.row[t], pass'.dels[t])
    <3>1. t \in Stream /\ pass'.row[t] = pass.row[t] /\ pass'.dels[t] = pass.dels[t]
      BY <1>1, <2>1, <2>3 DEF Pass
    <3> QED BY <1>1, <2>3, <3>1 DEF SteadyInv
  <2> QED BY <1>1, <2>1, <2>2, <2>3 DEF SteadyInv
<1> QED BY <1>3, <1>4 DEF TakeStream, NextWindow

(* Every step keeps the schedule.                                           *)
LEMMA SteadyStep == StreamInv /\ SteadyInv /\ [Next]_vars => SteadyInv'
<1> SUFFICES ASSUME StreamInv, SteadyInv, [Next]_vars PROVE SteadyInv'
  OBVIOUS
<1>0. \A s \in Stream : /\ row[s] \in Row /\ dels[s] \in Seq(Delivery)
                        /\ Steady(row[s], dels[s])
  BY DEF StreamInv, Types, SteadyInv
<1>1. CASE UNCHANGED <<row, dels, pass>>
  BY <1>1 DEF SteadyInv, PassOn
<1>2. ASSUME NEW s \in Stream, NEW filters, CreateAuditStream(s, filters) PROVE SteadyInv'
  <2>1. row'[s].failures = 0 /\ dels' = dels /\ UNCHANGED pass
        /\ \A t \in Stream \ {s} : row'[t] = row[t]
    BY <1>2 DEF CreateAuditStream, StreamInv, Types
  <2>2. Steady(row'[s], dels'[s])
    BY <1>0, <2>1, StreamAssumption DEF Steady
  <2> QED BY <2>1, <2>2, SteadyRequest
<1>3. ASSUME NEW s \in Stream, NEW filters, UpdateAuditStream(s, filters) PROVE SteadyInv'
  <2>1. PICK q \in {row[s], Reactivated(row[s]), Paused(row[s])} :
           row' = [row EXCEPT ![s] = [q EXCEPT !.filters = filters]]
    BY <1>3 DEF UpdateAuditStream
  <2>2. q.status = "active" => q.failures < PauseThreshold
    <3>1. CASE q = Reactivated(row[s])
      BY <1>0, <3>1, StreamAssumption DEF Reactivated, Row
    <3>2. CASE q = Paused(row[s])
      BY <1>0, <3>2 DEF Paused, Row
    <3>3. CASE q = row[s]
      BY <1>0, <3>3 DEF Steady
    <3> QED BY <3>1, <3>2, <3>3
  <2> DEFINE x == [q EXCEPT !.filters = filters]
  <2>3. x.status = q.status /\ x.failures = q.failures
    BY <1>0, <2>1 DEF Reactivated, Paused, Row
  <2> HIDE DEF x
  <2>4. row'[s] = x /\ dels' = dels /\ UNCHANGED pass /\ \A t \in Stream \ {s} : row'[t] = row[t]
    BY <1>3, <2>1 DEF UpdateAuditStream, StreamInv, Types, x
  <2>5. Steady(row'[s], dels'[s])
    BY <1>0, <2>2, <2>3, <2>4 DEF Steady
  <2> QED BY <2>4, <2>5, SteadyRequest
<1>4. ASSUME NEW s \in Stream, DeleteAuditStream(s) PROVE SteadyInv'
  <2>1. /\ row'[s].status = "deleted" /\ dels'[s] = <<>> /\ UNCHANGED pass
        /\ \A t \in Stream \ {s} : row'[t] = row[t] /\ dels'[t] = dels[t]
    BY <1>4 DEF DeleteAuditStream, StreamInv, Types, Row
  <2>2. Steady(row'[s], dels'[s])
    BY <2>1 DEF Steady
  <2> QED BY <2>1, <2>2, SteadyRequest
<1>5. ASSUME NEW s \in Stream, SendTestAuditStream(s) PROVE SteadyInv'
  <2>1. /\ dels'[s] = Append(dels[s], TestDelivery) /\ UNCHANGED <<row, pass>>
        /\ \A t \in Stream \ {s} : dels'[t] = dels[t]
    BY <1>5 DEF SendTestAuditStream, StreamInv, Types
  <2>2. Scheduled(TestDelivery) /\ TestDelivery \in Delivery
    BY StreamAssumption DEF Scheduled, TestDelivery, Delivery
  <2>3. \A i \in DOMAIN dels'[s] : \/ i \in DOMAIN dels[s] /\ dels'[s][i] = dels[s][i]
                                  \/ dels'[s][i] = TestDelivery
    BY <1>0, <2>1, <2>2, AppendProperties, LenProperties
  <2>4. Steady(row'[s], dels'[s])
    BY <1>0, <2>1, <2>2, <2>3 DEF Steady
  <2> QED BY <2>1, <2>4, SteadyRequest
<1>6. ASSUME NEW s \in Stream, BackoffElapses(s) PROVE SteadyInv'
  <2>1. PICK i \in DOMAIN dels[s] : dels[s][i].due = "later"
                                    /\ dels' = [dels EXCEPT ![s][i].due = "now"]
    BY <1>6 DEF BackoffElapses
  <2>2. dels[s][i] \in Delivery
    BY <1>0, ElementOfSeq, LenProperties
  <2>3. /\ DOMAIN dels'[s] = DOMAIN dels[s] /\ dels'[s][i] = [dels[s][i] EXCEPT !.due = "now"]
        /\ \A j \in DOMAIN dels[s] \ {i} : dels'[s][j] = dels[s][j]
        /\ \A t \in Stream \ {s} : dels'[t] = dels[t]
    BY <2>1 DEF StreamInv, Types
  <2>4. Scheduled(dels'[s][i])
    BY <1>0, <2>1, <2>2, <2>3 DEF Steady, Scheduled, Delivery
  <2>5. UNCHANGED <<row, pass>>
    BY <1>6 DEF BackoffElapses
  <2>6. Steady(row'[s], dels'[s])
    BY <1>0, <2>3, <2>4, <2>5 DEF Steady
  <2> QED BY <2>3, <2>5, <2>6, SteadyRequest
<1>7. CASE BeginPass
  BY <1>7 DEF BeginPass, SteadyInv
<1>8. CASE CommitPass
  BY <1>8 DEF CommitPass, SteadyInv, PassOn, Idle
<1>9. CASE SlowAnswer \/ StreamGone \/ Crash
  BY <1>9 DEF SlowAnswer, StreamGone, Crash, RollBack, SteadyInv, PassOn, Idle
<1>10. CASE OtherEntry \/ UNCHANGED vars
  BY <1>1, <1>10 DEF OtherEntry, vars
<1> QED BY <1>2, <1>3, <1>4, <1>5, <1>6, <1>7, <1>8, <1>9, <1>10, SteadyAnswer, SteadyTake
        DEF Next, AdministratorNext

(* Types, a date for each retry that is left, and no active stream with a  *)
(* full count of failures, for any thresholds and numbers of streams.      *)
THEOREM StreamsConsistent == Spec => []Consistent
<1>1. StreamInv /\ SteadyInv => Consistent
  <2> SUFFICES ASSUME StreamInv, SteadyInv PROVE Consistent
    OBVIOUS
  <2>1. TypeOK
    <3>1. \A s \in Stream : \A i \in DOMAIN dels[s] : dels[s][i] \in Delivery
      BY ElementOfSeq, LenProperties DEF StreamInv, Types
    <3>2. PassOn => pass.held \subseteq Stream /\ pass.todo \cap pass.held = {}
      <4> SUFFICES ASSUME PassOn PROVE pass.held \subseteq Stream /\ pass.todo \cap pass.held = {}
        OBVIOUS
      <4>1. pass \in Pass
        BY DEF StreamInv, Types, PassOn, Idle
      <4> QED BY <4>1 DEF StreamInv, Taken, Pass
    <3>3. Len(log) \in Nat
      BY LenProperties DEF StreamInv, Types
    <3>4. born \in [Stream -> 0..Len(log)]
      BY <3>3 DEF StreamInv, Types
    <3>5. ASSUME NEW s \in Stream PROVE received[s] \cup dead[s] \subseteq 1..Len(log)
      <4>1. ASSUME NEW p \in received[s] PROVE p \in 1..Len(log)
        <5>1. p \in Nat /\ born[s] \in Nat /\ born[s] < p /\ p <= Len(log)
          BY DEF StreamInv, Types, StreamSound
        <5> QED BY <3>3, <5>1
      <4>2. dead[s] \subseteq 1..Len(log)
        BY DEF StreamInv, StreamSound
      <4> QED BY <4>1, <4>2
    <3> QED BY <3>1, <3>2, <3>4, <3>5 DEF TypeOK, StreamInv, Types
  <2>2. RetryableIsScheduled /\ FailingStreamIsPaused
    BY DEF SteadyInv, Steady, Scheduled, RetryableIsScheduled, FailingStreamIsPaused
  <2> QED BY <2>1, <2>2 DEF Consistent
<1>2. Spec => []SteadyInv
  BY SteadyInit, SteadyStep, StreamInvariant, PTL DEF Spec
<1> QED BY <1>1, <1>2, StreamInvariant, PTL
=============================================================================
