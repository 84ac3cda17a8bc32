--------------------------- MODULE AuditLogProofs ---------------------------
(* Proofs that the audit log stays well typed and one linear hash chain,   *)
(* for any number of transactions, endpoints and appends.                  *)
EXTENDS AuditLog, TLAPS, SequenceTheorems, FiniteSetTheorems, WellFoundedInduction

(* Types are preserved by every statement, commit and rollback.            *)
LEMMA TypeStep == TypeOK /\ [Next]_vars => TypeOK'
<1> SUFFICES ASSUME TypeOK, [Next]_vars PROVE TypeOK'
  OBVIOUS
<1> USE DEF TypeOK, TxnState, Lockable, HEAD
<1>1. ASSUME NEW t \in Txn, Begin(t) PROVE TypeOK'
  <2> DEFINE N == [tx[t] EXCEPT !.status = "open"]
  <2>1. N \in TxnState
    OBVIOUS
  <2>2. tx' = [tx EXCEPT ![t] = N]
    BY <1>1 DEF Begin
  <2>3. UNCHANGED <<log, head, epStatus, deliveries, holder, now>>
    BY <1>1 DEF Begin
  <2>4. tx' \in [Txn -> TxnState]
    <3> HIDE DEF N, TxnState
    <3> QED BY <2>1, <2>2
  <2> QED BY <2>3, <2>4
<1>2. ASSUME NEW t \in Txn, NEW l \in Lockable, Request(t, l) PROVE TypeOK'
  <2> DEFINE N == [tx[t] EXCEPT !.want = l]
  <2>1. N \in TxnState
    <3> HIDE DEF Lockable
    <3> QED OBVIOUS
  <2>2. tx' = [tx EXCEPT ![t] = N]
    BY <1>2 DEF Request
  <2>3. UNCHANGED <<log, head, epStatus, deliveries, holder, now>>
    BY <1>2 DEF Request
  <2>4. tx' \in [Txn -> TxnState]
    <3> HIDE DEF N, TxnState
    <3> QED BY <2>1, <2>2
  <2> QED BY <2>3, <2>4
<1>3. ASSUME NEW t \in Txn, NEW e \in Endpoint, WriteEndpoint(t, e) PROVE TypeOK'
  <2>0. PICK asked \in Asked :
          tx' = [tx EXCEPT ![t].want = NoTxn,
                           ![t].set = [@ EXCEPT ![e] = Written(epStatus[e], asked)]]
    BY <1>3 DEF WriteEndpoint
  <2> DEFINE S == [tx[t].set EXCEPT ![e] = Written(epStatus[e], asked)]
  <2>1. S \in [Endpoint -> EpStatus]
    BY DEF Written, Asked, EpStatus
  <2>2. tx' = [tx EXCEPT ![t] = [tx[t] EXCEPT !.want = NoTxn, !.set = S]]
    BY <2>0
  <2>3. tx' \in [Txn -> TxnState]
    <3> HIDE DEF S
    <3>1. [tx[t] EXCEPT !.want = NoTxn, !.set = S] \in TxnState
      BY <2>1
    <3> QED BY <2>2, <3>1
  <2> QED BY <1>3, <2>3 DEF WriteEndpoint
<1>4. ASSUME NEW t \in Txn, WriteAuditLog(t) PROVE TypeOK'
  <2>1. PICK id \in Id \ UsedIds, at \in {x \in 0..now : x + Skew >= now} :
          LET row == NewRow(id, t, at, SeenHead(t))
          IN  /\ holder' = [holder EXCEPT ![HEAD] = t]
              /\ tx' = [tx EXCEPT ![t].want = NoTxn,
                                  ![t].head = row.hash,
                                  ![t].rows = Append(@, row),
                                  ![t].queued = @ \cup FanOut(t, id)]
    BY <1>4 DEF WriteAuditLog
  <2> DEFINE row == NewRow(id, t, at, SeenHead(t))
  <2>2. SeenHead(t) \in Hash
    BY DEF SeenHead, Hash
  <2>3. at \in 0..MaxTime
    BY BoundAssumption
  <2>4. row \in Row
    <3>1. [by |-> t, at |-> at] \in Payload
      BY <2>3 DEF Payload, Author
    <3>2. Append(SeenHead(t), [by |-> t, at |-> at]) \in Hash
      BY <2>2, <3>1 DEF Hash
    <3> QED BY <2>2, <2>3, <3>2 DEF NewRow, Row, HashOf, Author
  <2>5. row.hash \in Hash /\ Append(tx[t].rows, row) \in Seq(Row)
    <3>1. tx[t].rows \in Seq(Row)
      OBVIOUS
    <3>2. Append(tx[t].rows, row) \in Seq(Row)
      BY <3>1, <2>4, AppendProperties
    <3> QED BY <2>4, <3>2 DEF Row
  <2>6. FanOut(t, id) \in SUBSET Delivery
    BY DEF FanOut, Delivery, SeenActive
  <2>7. tx' \in [Txn -> TxnState]
    <3> HIDE DEF row
    <3> QED BY <2>1, <2>5, <2>6 DEF row
  <2> QED BY <1>4, <2>1, <2>7 DEF WriteAuditLog
<1>5. ASSUME NEW t \in Txn, Commit(t) PROVE TypeOK'
  <2>1. log \o tx[t].rows \in Seq(Row)
    BY ConcatProperties
  <2>2. log' \in Seq(Row) /\ head' \in Hash /\ deliveries' \in SUBSET Delivery
    BY <1>5, <2>1 DEF Commit
  <2>3. epStatus' \in [Endpoint -> EpStatus]
    BY <1>5 DEF Commit
  <2>4. holder' \in [Lockable -> Txn \cup {NoTxn}] /\ now' = now
    BY <1>5 DEF Commit, Released
  <2> DEFINE N == [tx[t] EXCEPT !.status = "committed"]
  <2>5. N \in TxnState
    OBVIOUS
  <2>6. tx' = [tx EXCEPT ![t] = N]
    BY <1>5 DEF Commit
  <2>7. tx' \in [Txn -> TxnState]
    <3> HIDE DEF N, TxnState
    <3> QED BY <2>5, <2>6
  <2> QED BY <2>2, <2>3, <2>4, <2>7
<1>6. ASSUME NEW t \in Txn, Abort(t) PROVE TypeOK'
  <2>1. holder' \in [Lockable -> Txn \cup {NoTxn}]
    BY <1>6 DEF Abort, Released
  <2>2. <<>> \in Seq(Row) /\ {} \in SUBSET Delivery
    OBVIOUS
  <2>3. tx' \in [Txn -> TxnState]
    <3> DEFINE N == [tx[t] EXCEPT !.status = "aborted", !.want = NoTxn,
                                  !.rows = <<>>, !.queued = {}]
    <3>1. N \in TxnState
      BY <2>2
    <3>2. tx' = [tx EXCEPT ![t] = N]
      BY <1>6 DEF Abort
    <3> HIDE DEF N, TxnState
    <3> QED BY <3>1, <3>2
  <2> QED BY <1>6, <2>1, <2>3 DEF Abort
<1>7. CASE Tick
  BY <1>7, BoundAssumption DEF Tick
<1>8. CASE UNCHANGED vars
  BY <1>8 DEF vars
<1> QED BY <1>1, <1>2, <1>3, <1>4, <1>5, <1>6, <1>7, <1>8 DEF Next

(* The initial state is typed.                                              *)
LEMMA TypeInit == Init => TypeOK
<1> SUFFICES ASSUME Init PROVE TypeOK
  OBVIOUS
<1>1. FirstRow \in Row
  BY BoundAssumption DEF FirstRow, NewRow, Row, HashOf, Genesis, Hash, Payload, Author
<1>2. Genesis \in Hash /\ FirstRow.hash \in Hash
  BY <1>1 DEF Row, Genesis, Hash
<1>3. log \in Seq(Row) /\ head \in Hash
  BY <1>1, <1>2 DEF Init
<1> QED BY <1>2, <1>3, BoundAssumption DEF Init, TypeOK, TxnState, Lockable, EpStatus

(* Every state of the audit log is well typed.                             *)
THEOREM TypeCorrect == Spec => []TypeOK
BY TypeInit, TypeStep, PTL DEF Spec

-----------------------------------------------------------------------------
(* Two chains join when the second starts where the first ends.            *)
LEMMA ChainsJoin ==
  ASSUME NEW a \in Seq(Row), NEW b \in Seq(Row), NEW h \in Hash,
         LinkedFrom(a, h), LinkedFrom(b, EndHash(a, h))
  PROVE  /\ LinkedFrom(a \o b, h)
         /\ EndHash(a \o b, h) = EndHash(b, EndHash(a, h))
<1> DEFINE c == a \o b
<1>1. /\ Len(a) \in Nat /\ DOMAIN a = 1..Len(a)
      /\ Len(b) \in Nat /\ DOMAIN b = 1..Len(b)
  BY LenProperties
<1>2. /\ Len(c) = Len(a) + Len(b)
      /\ DOMAIN c = 1..(Len(a) + Len(b))
      /\ \A i \in 1..Len(a) : c[i] = a[i]
      /\ \A i \in (Len(a) + 1)..(Len(a) + Len(b)) : c[i] = b[i - Len(a)]
  BY <1>1, ConcatProperties, LenProperties
<1>3. /\ a = <<>> <=> Len(a) = 0
      /\ b = <<>> <=> Len(b) = 0
      /\ c = <<>> <=> Len(c) = 0
  BY EmptySeq, ConcatProperties
<1> HIDE DEF c
<1>4. LinkedFrom(c, h)
  <2>1. SUFFICES ASSUME NEW i \in 1..(Len(a) + Len(b))
                 PROVE  /\ c[i].prev = IF i = 1 THEN h ELSE c[i - 1].hash
                        /\ c[i].hash = HashOf(c[i].prev, PayloadOf(c[i]))
    BY <1>2 DEF LinkedFrom
  <2>2. CASE i \in 1..Len(a)
    BY <2>2, <1>1, <1>2 DEF LinkedFrom
  <2>3. CASE i \in (Len(a) + 1)..(Len(a) + Len(b))
    <3>1. /\ i - Len(a) \in DOMAIN b
          /\ c[i] = b[i - Len(a)]
      BY <2>3, <1>1, <1>2
    <3>2. b[i - Len(a)].prev
            = IF i - Len(a) = 1 THEN EndHash(a, h) ELSE b[i - Len(a) - 1].hash
      BY <3>1 DEF LinkedFrom
    <3>3. CASE i = Len(a) + 1
      <4>1. c[i].prev = EndHash(a, h)
        BY <3>1, <3>2, <3>3, <1>1
      <4>2. EndHash(a, h) = IF i = 1 THEN h ELSE c[i - 1].hash
        BY <3>3, <1>1, <1>2, <1>3 DEF EndHash
      <4> QED BY <4>1, <4>2, <3>1 DEF LinkedFrom
    <3>4. CASE i # Len(a) + 1
      <4>1. i - 1 \in (Len(a) + 1)..(Len(a) + Len(b)) /\ i # 1
        BY <3>4, <2>3, <1>1
      <4>2. c[i - 1] = b[i - 1 - Len(a)]
        BY <4>1, <1>2
      <4>3. i - 1 - Len(a) = i - Len(a) - 1
        BY <1>1, <2>3
      <4>4. c[i].prev = c[i - 1].hash
        BY <3>1, <3>2, <3>4, <4>2, <4>3, <1>1, <2>3
      <4> QED BY <4>1, <4>4, <3>1 DEF LinkedFrom
    <3> QED BY <3>3, <3>4
  <2> QED BY <2>1, <2>2, <2>3, <1>1
<1>5. EndHash(c, h) = EndHash(b, EndHash(a, h))
  <2>1. CASE b = <<>>
    BY <2>1, <1>1, <1>2, <1>3 DEF EndHash
  <2>2. CASE b # <<>>
    <3>1. Len(c) \in (Len(a) + 1)..(Len(a) + Len(b)) /\ c # <<>>
      BY <2>2, <1>1, <1>2, <1>3
    <3>2. c[Len(c)] = b[Len(b)]
      BY <3>1, <1>1, <1>2
    <3> QED BY <3>1, <3>2, <2>2 DEF EndHash
  <2> QED BY <2>1, <2>2
<1> QED BY <1>4, <1>5 DEF c

(* Appending a row made by NewRow from the chain's end extends the chain.  *)
LEMMA ChainGrows ==
  ASSUME NEW a \in Seq(Row), NEW h \in Hash, LinkedFrom(a, h),
         NEW id, NEW t, NEW at,
         NewRow(id, t, at, EndHash(a, h)) \in Row
  PROVE  LET row == NewRow(id, t, at, EndHash(a, h))
         IN  /\ LinkedFrom(Append(a, row), h)
             /\ EndHash(Append(a, row), h) = row.hash
<1> DEFINE row == NewRow(id, t, at, EndHash(a, h))
<1>1. /\ row.prev = EndHash(a, h)
      /\ row.hash = HashOf(row.prev, PayloadOf(row))
  BY DEF NewRow, PayloadOf
<1> HIDE DEF row
<1>2. row \in Row
  BY DEF row
<1>3. /\ Len(Append(a, row)) = Len(a) + 1
      /\ Len(a) \in Nat /\ DOMAIN a = 1..Len(a)
      /\ DOMAIN Append(a, row) = 1..(Len(a) + 1)
      /\ \A i \in 1..Len(a) : Append(a, row)[i] = a[i]
      /\ Append(a, row)[Len(a) + 1] = row
  BY <1>2, AppendProperties, LenProperties
<1>4. a = <<>> <=> Len(a) = 0
  BY EmptySeq
<1>5. LinkedFrom(Append(a, row), h)
  <2>1. SUFFICES ASSUME NEW i \in 1..(Len(a) + 1)
                 PROVE  LET c == Append(a, row)
                        IN  /\ c[i].prev = IF i = 1 THEN h ELSE c[i - 1].hash
                            /\ c[i].hash = HashOf(c[i].prev, PayloadOf(c[i]))
    BY <1>3 DEF LinkedFrom
  <2>2. CASE i \in 1..Len(a)
    BY <2>2, <1>3 DEF LinkedFrom
  <2>3. CASE i = Len(a) + 1
    <3>1. Append(a, row)[i] = row
      BY <2>3, <1>3
    <3>2. CASE Len(a) = 0
      <4>1. i = 1 /\ EndHash(a, h) = h
        BY <2>3, <3>2, <1>4 DEF EndHash
      <4> QED BY <3>1, <4>1, <1>1
    <3>3. CASE Len(a) # 0
      <4>1. i # 1 /\ i - 1 = Len(a) /\ Len(a) \in 1..Len(a)
        BY <2>3, <3>3, <1>3
      <4>2. Append(a, row)[i - 1] = a[Len(a)]
        BY <4>1, <1>3
      <4>3. EndHash(a, h) = a[Len(a)].hash
        BY <3>3, <1>4 DEF EndHash
      <4> QED BY <3>1, <4>1, <4>2, <4>3, <1>1
    <3> QED BY <3>2, <3>3
  <2> QED BY <2>1, <2>2, <2>3, <1>3
<1>6. EndHash(Append(a, row), h) = row.hash
  BY <1>3, EmptySeq, AppendProperties, <1>2 DEF EndHash
<1> QED BY <1>5, <1>6 DEF row

-----------------------------------------------------------------------------
(* ChainLinear alone is not inductive: a commit appends the transaction's  *)
(* rows, so those must continue the committed chain.  They do because only *)
(* the holder of the audit_head lock has uncommitted rows, and the         *)
(* committed head cannot move while that lock is held.                     *)
OpenChain(t) ==
    /\ holder[HEAD] = t =>
         /\ tx[t].status = "open"
         /\ LinkedFrom(tx[t].rows, head)
         /\ tx[t].head = EndHash(tx[t].rows, head)
    /\ holder[HEAD] # t /\ tx[t].status \in {"idle", "open"} => tx[t].rows = <<>>
ChainInv == TypeOK /\ ChainLinear /\ \A t \in Txn : OpenChain(t)

(* An empty log is a chain.                                                 *)
LEMMA ChainInit == Init => ChainInv
<1> SUFFICES ASSUME Init PROVE ChainInv
  OBVIOUS
<1>1. TypeOK
  BY TypeInit
<1>2. ChainLinear
  BY DEF Init, ChainLinear, LinkedFrom, EndHash, FirstRow, NewRow, PayloadOf, HashOf
<1>3. ASSUME NEW t \in Txn PROVE OpenChain(t)
  BY TxnAssumption DEF Init, OpenChain, Lockable
<1> QED BY <1>1, <1>2, <1>3 DEF ChainInv

(* Every step keeps the chain.                                              *)
LEMMA ChainStep == ChainInv /\ [Next]_vars => ChainInv'
<1> SUFFICES ASSUME ChainInv, [Next]_vars PROVE ChainInv'
  OBVIOUS
<1>1. TypeOK /\ TypeOK'
  BY TypeStep DEF ChainInv
<1>2. /\ log \in Seq(Row) /\ head \in Hash
      /\ HEAD \in Lockable
      /\ holder \in [Lockable -> Txn \cup {NoTxn}]
      /\ tx \in [Txn -> TxnState]
      /\ \A t \in Txn : tx[t].rows \in Seq(Row)
  BY <1>1 DEF TypeOK, TxnState, Lockable
<1>3. ChainLinear /\ \A t \in Txn : OpenChain(t)
  BY DEF ChainInv
<1> SUFFICES ChainLinear' /\ \A u \in Txn : OpenChain(u)'
  BY <1>1 DEF ChainInv
<1>a. ASSUME log' = log, head' = head, holder'[HEAD] = holder[HEAD],
             \A u \in Txn : /\ tx'[u].rows = tx[u].rows
                            /\ tx'[u].head = tx[u].head
                            /\ tx[u].status = "open" => tx'[u].status = "open"
                            /\ tx'[u].status \in {"idle", "open"}
                                 => tx[u].status \in {"idle", "open"}
      PROVE  ChainLinear' /\ \A u \in Txn : OpenChain(u)'
  BY <1>a, <1>3 DEF ChainLinear, OpenChain, LinkedFrom, EndHash
<1>4. ASSUME NEW t \in Txn, Begin(t)
      PROVE  ChainLinear' /\ \A u \in Txn : OpenChain(u)'
  <2>1. \A u \in Txn : /\ tx'[u].rows = tx[u].rows
                       /\ tx'[u].head = tx[u].head
                       /\ tx[u].status = "open" => tx'[u].status = "open"
                       /\ tx'[u].status \in {"idle", "open"}
                            => tx[u].status \in {"idle", "open"}
    BY <1>4, <1>2 DEF Begin, TxnState
  <2> QED BY <1>4, <2>1, <1>a DEF Begin
<1>5. ASSUME NEW t \in Txn, NEW l \in Lockable, Request(t, l)
      PROVE  ChainLinear' /\ \A u \in Txn : OpenChain(u)'
  <2>1. \A u \in Txn : /\ tx'[u].rows = tx[u].rows
                       /\ tx'[u].head = tx[u].head
                       /\ tx'[u].status = tx[u].status
    BY <1>5, <1>2 DEF Request, TxnState
  <2> QED BY <1>5, <2>1, <1>a DEF Request
<1>6. ASSUME NEW t \in Txn, NEW e \in Endpoint, WriteEndpoint(t, e)
      PROVE  ChainLinear' /\ \A u \in Txn : OpenChain(u)'
  <2>1. \A u \in Txn : /\ tx'[u].rows = tx[u].rows
                       /\ tx'[u].head = tx[u].head
                       /\ tx'[u].status = tx[u].status
    BY <1>6, <1>2 DEF WriteEndpoint, TxnState
  <2>2. holder'[HEAD] = holder[HEAD]
    BY <1>6, <1>2, LockAssumption DEF WriteEndpoint, HEAD
  <2> QED BY <1>6, <2>1, <2>2, <1>a DEF WriteEndpoint
<1>7. ASSUME NEW t \in Txn, WriteAuditLog(t)
      PROVE  ChainLinear' /\ \A u \in Txn : OpenChain(u)'
  <2>1. PICK id \in Id \ UsedIds, at \in {x \in 0..now : x + Skew >= now} :
          LET row == NewRow(id, t, at, SeenHead(t))
          IN  /\ holder' = [holder EXCEPT ![HEAD] = t]
              /\ tx' = [tx EXCEPT ![t].want = NoTxn,
                                  ![t].head = row.hash,
                                  ![t].rows = Append(@, row),
                                  ![t].queued = @ \cup FanOut(t, id)]
    BY <1>7 DEF WriteAuditLog
  <2> DEFINE row == NewRow(id, t, at, SeenHead(t))
  <2>2. /\ LinkedFrom(tx[t].rows, head)
        /\ SeenHead(t) = EndHash(tx[t].rows, head)
        /\ tx[t].status = "open"
    <3>1. CASE holder[HEAD] = t
      BY <3>1, <1>3 DEF OpenChain, SeenHead
    <3>2. CASE holder[HEAD] # t
      BY <3>2, <1>3, <1>7 DEF OpenChain, SeenHead, WriteAuditLog, LinkedFrom, EndHash
    <3> QED BY <3>1, <3>2
  <2>3. /\ holder'[HEAD] = t
        /\ log' = log /\ head' = head
        /\ tx'[t].status = tx[t].status
        /\ tx'[t].head = row.hash
        /\ tx'[t].rows = Append(tx[t].rows, row)
        /\ \A u \in Txn \ {t} : tx'[u] = tx[u]
    <3> HIDE DEF row
    <3> QED BY <1>7, <2>1, <1>2 DEF WriteAuditLog, TxnState, row
  <2>4. row \in Row
    <3>1. tx'[t].rows \in Seq(Row)
      BY <1>1 DEF TypeOK, TxnState
    <3>2. Append(tx[t].rows, row)[Len(tx[t].rows) + 1] = row
      BY <1>2, LenProperties DEF row
    <3>3. Append(tx[t].rows, row) \in Seq(Row)
      BY <3>1, <2>3
    <3>4. Len(tx[t].rows) + 1 \in 1..Len(Append(tx[t].rows, row))
      BY <1>2, LenProperties
    <3> QED BY <3>2, <3>3, <3>4, ElementOfSeq
  <2>5. /\ LinkedFrom(tx'[t].rows, head')
        /\ tx'[t].head = EndHash(tx'[t].rows, head')
    <3>1. row = NewRow(id, t, at, EndHash(tx[t].rows, head))
      BY <2>2
    <3> HIDE DEF row
    <3> QED BY <2>2, <2>3, <2>4, <1>2, <3>1, ChainGrows
  <2>6. OpenChain(t)'
    BY <2>2, <2>3, <2>5 DEF OpenChain
  <2>7. ASSUME NEW u \in Txn \ {t} PROVE OpenChain(u)'
    <3>1. holder[HEAD] # u
      BY <1>7, TxnAssumption DEF WriteAuditLog, LockHead
    <3> QED BY <3>1, <2>3, <1>3 DEF OpenChain
  <2>8. ChainLinear'
    BY <2>3, <1>3 DEF ChainLinear, LinkedFrom, EndHash
  <2> QED BY <2>6, <2>7, <2>8
<1>8. ASSUME NEW t \in Txn, Commit(t)
      PROVE  ChainLinear' /\ \A u \in Txn : OpenChain(u)'
  <2>1. /\ tx[t].status = "open"
        /\ log' = log \o tx[t].rows
        /\ head' = IF holder[HEAD] = t THEN tx[t].head ELSE head
        /\ holder'[HEAD] = IF holder[HEAD] = t THEN NoTxn ELSE holder[HEAD]
        /\ tx'[t].status = "committed"
        /\ \A u \in Txn \ {t} : tx'[u] = tx[u]
    BY <1>8, <1>2 DEF Commit, Ready, Released, TxnState
  <2>2. CASE holder[HEAD] = t
    <3>1. LinkedFrom(tx[t].rows, EndHash(log, Genesis)) /\ LinkedFrom(log, Genesis)
      BY <2>2, <1>3 DEF OpenChain, ChainLinear
    <3>2. Genesis \in Hash
      BY DEF Genesis, Hash
    <3>3. ChainLinear'
      BY <2>1, <2>2, <3>1, <3>2, <1>2, <1>3, ChainsJoin DEF ChainLinear, OpenChain
    <3>4. \A u \in Txn : OpenChain(u)'
      BY <2>1, <2>2, <1>3, TxnAssumption DEF OpenChain
    <3> QED BY <3>3, <3>4
  <2>3. CASE holder[HEAD] # t
    <3>1. log' = log /\ head' = head /\ holder'[HEAD] = holder[HEAD]
      BY <2>1, <2>3, <1>2, <1>3, ConcatEmptySeq DEF OpenChain
    <3>2. ChainLinear'
      BY <3>1, <1>3 DEF ChainLinear, LinkedFrom, EndHash
    <3>3. \A u \in Txn : OpenChain(u)'
      BY <2>1, <2>3, <3>1, <1>3 DEF OpenChain
    <3> QED BY <3>2, <3>3
  <2> QED BY <2>2, <2>3
<1>9. ASSUME NEW t \in Txn, Abort(t)
      PROVE  ChainLinear' /\ \A u \in Txn : OpenChain(u)'
  <2>1. /\ log' = log /\ head' = head
        /\ holder'[HEAD] = IF holder[HEAD] = t THEN NoTxn ELSE holder[HEAD]
        /\ tx'[t].status = "aborted"
        /\ \A u \in Txn \ {t} : tx'[u] = tx[u]
    BY <1>9, <1>2 DEF Abort, Released, TxnState
  <2>2. \A u \in Txn : OpenChain(u)'
    BY <2>1, <1>3, TxnAssumption DEF OpenChain
  <2> QED BY <2>1, <2>2, <1>3 DEF ChainLinear, LinkedFrom, EndHash
<1>10. CASE Tick
  BY <1>10, <1>a DEF Tick
<1>11. CASE UNCHANGED vars
  BY <1>11, <1>a DEF vars
<1> QED BY <1>4, <1>5, <1>6, <1>7, <1>8, <1>9, <1>10, <1>11 DEF Next

(* Appends to the organization's scope serialize: the committed log is one *)
(* linear hash chain from genesis and audit_head names its last row, for   *)
(* every number of concurrent transactions, commits and rollbacks.         *)
THEOREM ChainAlwaysLinear == Spec => []ChainLinear
<1>1. ChainInv => ChainLinear
  BY DEF ChainInv
<1> QED BY <1>1, ChainInit, ChainStep, PTL DEF Spec

-----------------------------------------------------------------------------
(* All or nothing.  What an open transaction has not committed is its own,   *)
(* in the order it wrote it, and no other row of it is in the log.           *)
Own(t) ==
    /\ \A i \in DOMAIN tx[t].rows : tx[t].rows[i].by = t
    /\ tx[t].status \in {"idle", "aborted"} => tx[t].rows = <<>> /\ tx[t].queued = {}
    /\ \A d \in tx[t].queued :
         t \in EventTxn /\ \E i \in DOMAIN tx[t].rows : tx[t].rows[i].id = d.entry
AllInv == TypeOK /\ AllOrNothing /\ \A t \in Txn : Own(t)

(* At first the log has the entry of the provisioning alone.                *)
LEMMA AllInit == Init => AllInv
<1> SUFFICES ASSUME Init PROVE AllInv
  OBVIOUS
<1>1. \A t \in Txn : tx[t].status = "idle" /\ tx[t].rows = <<>> /\ tx[t].queued = {}
  BY DEF Init
<1>2. \A t \in Txn : Own(t)
  BY <1>1 DEF Own
<1>3. AllOrNothing
  <2>1. \A i \in DOMAIN log : log[i].by = "provision"
    BY DEF Init, FirstRow, NewRow
  <2> QED BY <1>1, <2>1, TxnAssumption DEF Init, AllOrNothing
<1> QED BY <1>2, <1>3, TypeInit DEF AllInv

(* Rows of others at the end of the log leave a committed block in place.   *)
LEMMA BlockStays ==
    ASSUME NEW t \in Txn, NEW k \in 0..Len(log), Block(t, k), NEW more \in Seq(Row),
           log \in Seq(Row), log' = log \o more, tx'[t].rows = tx[t].rows,
           tx[t].rows \in Seq(Row), \A i \in DOMAIN more : more[i].by # t
    PROVE  Block(t, k)' /\ k \in 0..Len(log')
<1>1. /\ Len(log) \in Nat /\ Len(more) \in Nat /\ Len(log') = Len(log) + Len(more)
      /\ DOMAIN log = 1..Len(log) /\ DOMAIN more = 1..Len(more)
      /\ DOMAIN log' = 1..(Len(log) + Len(more))
      /\ \A i \in 1..Len(log) : log'[i] = log[i]
      /\ \A i \in (Len(log) + 1)..(Len(log) + Len(more)) : log'[i] = more[i - Len(log)]
      /\ Len(tx[t].rows) \in Nat /\ DOMAIN tx[t].rows = 1..Len(tx[t].rows)
  BY ConcatProperties, LenProperties
<1>2. k + Len(tx[t].rows) <= Len(log)
  <2>1. CASE Len(tx[t].rows) = 0
    BY <1>1, <2>1
  <2>2. CASE Len(tx[t].rows) # 0
    <3>1. Len(tx[t].rows) \in DOMAIN tx[t].rows
      BY <1>1, <2>2
    <3>2. k + Len(tx[t].rows) \in DOMAIN log
      BY <3>1 DEF Block
    <3> QED BY <1>1, <3>2
  <2> QED BY <2>1, <2>2
<1>3. ASSUME NEW i \in DOMAIN log' PROVE log'[i].by = t <=> i \in (k + 1)..(k + Len(tx[t].rows))
  <2>1. CASE i \in 1..Len(log)
    BY <1>1, <2>1 DEF Block
  <2>2. CASE i \in (Len(log) + 1)..(Len(log) + Len(more))
    <3>1. i - Len(log) \in DOMAIN more /\ log'[i].by # t
      BY <1>1, <2>2
    <3> QED BY <1>1, <1>2, <2>2, <3>1
  <2> QED BY <1>1, <1>3, <2>1, <2>2
<1>4. \A i \in DOMAIN tx[t].rows : k + i \in DOMAIN log' /\ log'[k + i] = tx[t].rows[i]
  BY <1>1, <1>2 DEF Block
<1> QED BY <1>1, <1>3, <1>4 DEF Block

(* A step that leaves the log leaves what is in it.                         *)
LEMMA AllKeeps ==
    ASSUME AllInv, TypeOK', UNCHANGED <<log, deliveries>>,
           \A t \in Txn : \/ tx'[t].rows = tx[t].rows /\ tx'[t].status = tx[t].status
                          \/ tx[t].status # "committed" /\ tx'[t].status # "committed",
           \A t \in Txn : Own(t)'
    PROVE  AllInv'
<1>1. ASSUME NEW t \in Txn
      PROVE  (IF tx[t].status = "committed" THEN \E k \in 0..Len(log) : Block(t, k)
              ELSE \A i \in DOMAIN log : log[i].by # t)'
  <2>1. CASE tx[t].status = "committed"
    BY <2>1 DEF AllInv, AllOrNothing, Block
  <2>2. CASE tx[t].status # "committed"
    BY <2>2 DEF AllInv, AllOrNothing
  <2> QED BY <2>1, <2>2
<1> QED BY <1>1 DEF AllInv, AllOrNothing

(* Every step keeps all or nothing.                                         *)
LEMMA AllStep == AllInv /\ [Next]_vars => AllInv'
<1> SUFFICES ASSUME AllInv, [Next]_vars PROVE AllInv'
  OBVIOUS
<1>1. /\ TypeOK' /\ \A t \in Txn : Own(t)
      /\ log \in Seq(Row) /\ tx \in [Txn -> TxnState]
      /\ \A t \in Txn : tx[t].rows \in Seq(Row)
  BY TypeStep DEF AllInv, TypeOK, TxnState
<1>2. ASSUME UNCHANGED <<log, deliveries>>,
             \A u \in Txn : /\ tx'[u].rows = tx[u].rows /\ tx'[u].queued = tx[u].queued
                            /\ \/ tx'[u].status = tx[u].status
                               \/ tx[u].status = "idle" /\ tx'[u].status = "open"
      PROVE  AllInv'
  <2>1. \A u \in Txn : Own(u)'
    BY <1>1, <1>2 DEF Own
  <2>2. \A u \in Txn : \/ tx'[u].rows = tx[u].rows /\ tx'[u].status = tx[u].status
                       \/ tx[u].status # "committed" /\ tx'[u].status # "committed"
    BY <1>2
  <2> QED BY <1>1, <1>2, <2>1, <2>2, AllKeeps
<1>3. ASSUME NEW t \in Txn, Begin(t) PROVE AllInv'
  <2>1. \A u \in Txn : /\ tx'[u].rows = tx[u].rows /\ tx'[u].queued = tx[u].queued
                       /\ \/ tx'[u].status = tx[u].status
                          \/ tx[u].status = "idle" /\ tx'[u].status = "open"
    BY <1>1, <1>3 DEF Begin, TxnState
  <2> QED BY <1>2, <1>3, <2>1 DEF Begin
<1>4. ASSUME NEW t \in Txn, NEW l \in Lockable, Request(t, l) PROVE AllInv'
  <2>1. \A u \in Txn : /\ tx'[u].rows = tx[u].rows /\ tx'[u].queued = tx[u].queued
                       /\ tx'[u].status = tx[u].status
    BY <1>1, <1>4 DEF Request, TxnState
  <2> QED BY <1>2, <1>4, <2>1 DEF Request
<1>5. ASSUME NEW t \in Txn, NEW e \in Endpoint, WriteEndpoint(t, e) PROVE AllInv'
  <2>1. \A u \in Txn : /\ tx'[u].rows = tx[u].rows /\ tx'[u].queued = tx[u].queued
                       /\ tx'[u].status = tx[u].status
    BY <1>1, <1>5 DEF WriteEndpoint, TxnState
  <2> QED BY <1>2, <1>5, <2>1 DEF WriteEndpoint
<1>6. ASSUME NEW t \in Txn, WriteAuditLog(t) PROVE AllInv'
  <2>1. PICK id \in Id \ UsedIds, at \in {x \in 0..now : x + Skew >= now} :
          LET row == NewRow(id, t, at, SeenHead(t))
          IN  /\ holder' = [holder EXCEPT ![HEAD] = t]
              /\ tx' = [tx EXCEPT ![t].want = NoTxn,
                                  ![t].head = row.hash,
                                  ![t].rows = Append(@, row),
                                  ![t].queued = @ \cup FanOut(t, id)]
    BY <1>6 DEF WriteAuditLog
  <2> DEFINE row == NewRow(id, t, at, SeenHead(t))
  <2>2. row.by = t /\ row.id = id
    BY DEF NewRow
  <2>3. /\ tx[t].status = "open" /\ UNCHANGED <<log, deliveries>>
        /\ tx'[t].status = "open" /\ tx'[t].rows = Append(tx[t].rows, row)
        /\ tx'[t].queued = tx[t].queued \cup FanOut(t, id)
        /\ \A u \in Txn \ {t} : tx'[u] = tx[u]
    <3>1. tx[t].status = "open" /\ UNCHANGED <<log, deliveries>>
      BY <1>6 DEF WriteAuditLog
    <3>2. tx' = [tx EXCEPT ![t].want = NoTxn, ![t].head = row.hash,
                           ![t].rows = Append(@, row), ![t].queued = @ \cup FanOut(t, id)]
      BY <2>1
    <3>3. DOMAIN tx = Txn /\ tx[t] = [f \in {"status", "want", "head", "rows", "queued", "set"} |-> tx[t][f]]
      BY <1>1 DEF TxnState
    <3> HIDE DEF row
    <3> QED BY <3>1, <3>2, <3>3
  <2> HIDE DEF row
  <2>4. /\ DOMAIN tx'[t].rows = 1..(Len(tx[t].rows) + 1) /\ Len(tx[t].rows) \in Nat
        /\ DOMAIN tx[t].rows = 1..Len(tx[t].rows)
        /\ \A i \in DOMAIN tx[t].rows : tx'[t].rows[i] = tx[t].rows[i]
        /\ tx'[t].rows[Len(tx[t].rows) + 1] = row
    BY <1>1, <2>3, LenProperties
  <2>5. \A d \in FanOut(t, id) : t \in EventTxn /\ d.entry = id
    BY DEF FanOut
  <2>6. Own(t)'
    <3>1. \A i \in DOMAIN tx'[t].rows : tx'[t].rows[i].by = t
      <4>1. \A i \in DOMAIN tx[t].rows : tx[t].rows[i].by = t
        BY <1>1 DEF Own
      <4>2. ASSUME NEW i \in DOMAIN tx'[t].rows PROVE tx'[t].rows[i].by = t
        <5>1. i \in DOMAIN tx[t].rows \/ i = Len(tx[t].rows) + 1
          BY <2>4
        <5> QED BY <2>2, <2>4, <4>1, <5>1
      <4> QED BY <4>2
    <3>2. ASSUME NEW d \in tx'[t].queued
          PROVE  t \in EventTxn /\ \E i \in DOMAIN tx'[t].rows : tx'[t].rows[i].id = d.entry
      <4>1. CASE d \in FanOut(t, id)
        BY <2>2, <2>4, <2>5, <4>1
      <4>2. CASE d \in tx[t].queued
        <5>1. t \in EventTxn /\ \E i \in DOMAIN tx[t].rows : tx[t].rows[i].id = d.entry
          BY <1>1, <4>2 DEF Own
        <5>2. PICK i \in DOMAIN tx[t].rows : tx[t].rows[i].id = d.entry
          BY <5>1
        <5>3. i \in DOMAIN tx'[t].rows /\ tx'[t].rows[i].id = d.entry
          BY <2>4, <5>2
        <5> QED BY <5>1, <5>3
      <4> QED BY <2>3, <3>2, <4>1, <4>2
    <3> QED BY <2>3, <3>1, <3>2 DEF Own
  <2>7. ASSUME NEW u \in Txn PROVE Own(u)'
    <3>1. CASE u # t
      <4>1. tx'[u] = tx[u] /\ Own(u)
        BY <1>1, <2>3, <3>1
      <4> QED BY <4>1 DEF Own
    <3> QED BY <2>6, <3>1
  <2>8. \A u \in Txn : \/ tx'[u].rows = tx[u].rows /\ tx'[u].status = tx[u].status
                       \/ tx[u].status # "committed" /\ tx'[u].status # "committed"
    BY <2>3
  <2> QED BY <1>1, <2>3, <2>7, <2>8, AllKeeps
<1>7. ASSUME NEW t \in Txn, Commit(t) PROVE AllInv'
  <2>1. /\ tx[t].status = "open" /\ log' = log \o tx[t].rows
        /\ deliveries' = deliveries \cup tx[t].queued
        /\ tx'[t].status = "committed" /\ tx'[t].rows = tx[t].rows
        /\ tx'[t].queued = tx[t].queued
        /\ \A u \in Txn \ {t} : tx'[u] = tx[u]
    BY <1>1, <1>7 DEF Commit, Ready, TxnState
  <2>2. /\ Len(log) \in Nat /\ Len(tx[t].rows) \in Nat
        /\ DOMAIN log = 1..Len(log) /\ DOMAIN tx[t].rows = 1..Len(tx[t].rows)
        /\ DOMAIN log' = 1..(Len(log) + Len(tx[t].rows))
        /\ Len(log') = Len(log) + Len(tx[t].rows)
        /\ \A i \in 1..Len(log) : log'[i] = log[i]
        /\ \A i \in (Len(log) + 1)..(Len(log) + Len(tx[t].rows)) :
             log'[i] = tx[t].rows[i - Len(log)]
    BY <1>1, <2>1, ConcatProperties, LenProperties
  <2>3. ASSUME NEW u \in Txn PROVE Own(u)'
    <3>1. tx'[u].rows = tx[u].rows /\ tx'[u].queued = tx[u].queued /\ Own(u)
          /\ (tx'[u].status \in {"idle", "aborted"} => tx[u].status = tx'[u].status)
      BY <1>1, <2>1
    <3> QED BY <3>1 DEF Own
  <2>4. PICK n \in Nat : n = Len(log)
    BY <2>2
  <2>5. \A i \in DOMAIN tx[t].rows : tx[t].rows[i].by = t
    BY <1>1 DEF Own
  <2>6. \A i \in DOMAIN log : log[i].by # t
    BY <2>1 DEF AllInv, AllOrNothing
  <2>7. Block(t, n)' /\ n \in 0..Len(log')
    <3>1. ASSUME NEW i \in DOMAIN log'
          PROVE  log'[i].by = t <=> i \in (n + 1)..(n + Len(tx[t].rows))
      <4>1. CASE i \in 1..Len(log)
        BY <2>2, <2>4, <2>6, <4>1
      <4>2. CASE i \in (Len(log) + 1)..(Len(log) + Len(tx[t].rows))
        <5>1. i - Len(log) \in DOMAIN tx[t].rows
          BY <2>2, <4>2
        <5> QED BY <2>2, <2>4, <2>5, <4>2, <5>1
      <4> QED BY <2>2, <3>1, <4>1, <4>2
    <3>2. ASSUME NEW i \in DOMAIN tx[t].rows
          PROVE  n + i \in DOMAIN log' /\ log'[n + i] = tx[t].rows[i]
      <4>1. n + i \in (Len(log) + 1)..(Len(log) + Len(tx[t].rows)) /\ n + i - Len(log) = i
        BY <2>2, <2>4
      <4>2. log'[n + i] = tx[t].rows[n + i - Len(log)]
        BY <2>2, <4>1
      <4>3. n + i \in DOMAIN log'
        BY <2>2, <2>4
      <4> QED BY <4>1, <4>2, <4>3
    <3> QED BY <2>1, <2>2, <2>4, <3>1, <3>2 DEF Block
  <2>8. ASSUME NEW u \in Txn
        PROVE  (IF tx[u].status = "committed" THEN \E k \in 0..Len(log) : Block(u, k)
                ELSE \A i \in DOMAIN log : log[i].by # u)'
    <3>1. CASE u = t
      BY <2>1, <2>7, <3>1
    <3>2. CASE u # t /\ tx[u].status = "committed"
      <4>1. PICK k \in 0..Len(log) : Block(u, k)
        BY <3>2 DEF AllInv, AllOrNothing
      <4>2. \A i \in DOMAIN tx[t].rows : tx[t].rows[i].by # u
        BY <2>5, <3>2
      <4>3. tx'[u] = tx[u]
        BY <2>1, <3>2
      <4>4. Block(u, k)' /\ k \in 0..Len(log')
        BY <1>1, <2>1, <4>1, <4>2, <4>3, BlockStays
      <4> QED BY <3>2, <4>3, <4>4
    <3>3. CASE u # t /\ tx[u].status # "committed"
      <4>1. \A i \in DOMAIN log : log[i].by # u
        BY <3>3 DEF AllInv, AllOrNothing
      <4>2. ASSUME NEW i \in DOMAIN log' PROVE log'[i].by # u
        <5>1. CASE i \in 1..Len(log)
          BY <2>2, <4>1, <5>1
        <5>2. CASE i \in (Len(log) + 1)..(Len(log) + Len(tx[t].rows))
          <6>1. i - Len(log) \in DOMAIN tx[t].rows
            BY <2>2, <5>2
          <6> QED BY <2>2, <2>5, <3>3, <5>2, <6>1
        <5> QED BY <2>2, <4>2, <5>1, <5>2
      <4>3. tx'[u].status # "committed"
        BY <2>1, <3>3
      <4> QED BY <4>2, <4>3
    <3> QED BY <3>1, <3>2, <3>3
  <2>9. ASSUME NEW d \in deliveries'
        PROVE  \E i \in DOMAIN log' : log'[i].id = d.entry /\ log'[i].by \in EventTxn
    <3>1. CASE d \in deliveries
      BY <2>2, <3>1 DEF AllInv, AllOrNothing
    <3>2. CASE d \in tx[t].queued
      <4>1. t \in EventTxn
        BY <1>1, <3>2 DEF Own
      <4>2. PICK i \in DOMAIN tx[t].rows : tx[t].rows[i].id = d.entry
        BY <1>1, <3>2 DEF Own
      <4>3. n + i \in DOMAIN log' /\ log'[n + i] = tx[t].rows[i]
        BY <2>1, <2>7 DEF Block
      <4> QED BY <2>5, <4>1, <4>2, <4>3
    <3> QED BY <2>1, <2>9, <3>1, <3>2
  <2>10. AllOrNothing'
    BY <2>8, <2>9 DEF AllOrNothing
  <2> QED BY <1>1, <2>3, <2>10 DEF AllInv
<1>8. ASSUME NEW t \in Txn, Abort(t) PROVE AllInv'
  <2>1. /\ tx[t].status = "open" /\ UNCHANGED <<log, deliveries>>
        /\ tx'[t].status = "aborted" /\ tx'[t].rows = <<>> /\ tx'[t].queued = {}
        /\ \A u \in Txn \ {t} : tx'[u] = tx[u]
    BY <1>1, <1>8 DEF Abort, TxnState
  <2>2. ASSUME NEW u \in Txn PROVE Own(u)'
    <3>1. CASE u = t
      BY <2>1, <3>1 DEF Own
    <3>2. CASE u # t
      <4>1. tx'[u] = tx[u] /\ Own(u)
        BY <1>1, <2>1, <3>2
      <4> QED BY <4>1 DEF Own
    <3> QED BY <3>1, <3>2
  <2>3. \A u \in Txn : \/ tx'[u].rows = tx[u].rows /\ tx'[u].status = tx[u].status
                       \/ tx[u].status # "committed" /\ tx'[u].status # "committed"
    BY <2>1
  <2> QED BY <1>1, <2>1, <2>2, <2>3, AllKeeps
<1>9. CASE Tick \/ UNCHANGED vars
  BY <1>2, <1>9 DEF Tick, vars
<1> QED BY <1>3, <1>4, <1>5, <1>6, <1>7, <1>8, <1>9 DEF Next

(* A transaction's entries reach the log together, adjacent and in order, or *)
(* not at all, and so do the deliveries they announce, for any number of     *)
(* transactions and appends.                                                 *)
THEOREM CommitsAsAWhole == Spec => []AllOrNothing
<1>1. AllInv => AllOrNothing
  BY DEF AllInv
<1> QED BY <1>1, AllInit, AllStep, PTL DEF Spec

-----------------------------------------------------------------------------
(* Verification.  Every set of numbers has a least one: the principle that   *)
(* stands in for an induction over the positions of the log.                 *)
LEMMA LeastOf ==
    ASSUME NEW T \in SUBSET Nat, T # {}
    PROVE  \E m \in T : \A n \in T : m <= n
<1> DEFINE R == OpToRel(<, Nat)
<1>1. IsWellFoundedOn(R, Nat)
  BY NatLessThanWellFounded
<1>2. \A x, y \in Nat : <<x, y>> \in R <=> x < y
  BY DEF OpToRel
<1> HIDE DEF R
<1>3. PICK m \in T : \A n \in T : ~ (<<n, m>> \in R)
  BY <1>1, WFMin
<1>4. \A n \in T : ~ (n < m)
  BY <1>2, <1>3, Zenon
<1>5. \A n \in T : m <= n
  BY <1>4
<1> QED BY <1>5

(* The rows of a log have numbers for ids and stamps.                       *)
LEMMA RowsAreTyped ==
    ASSUME NEW rows \in Seq(Row)
    PROVE  /\ Len(rows) \in Nat /\ DOMAIN rows = 1..Len(rows)
           /\ \A k \in 1..Len(rows) : rows[k].at \in Nat /\ rows[k].id \in Nat
<1>1. Len(rows) \in Nat /\ DOMAIN rows = 1..Len(rows)
  BY LenProperties
<1>2. ASSUME NEW k \in 1..Len(rows) PROVE rows[k].at \in Nat /\ rows[k].id \in Nat
  <2>1. rows[k] \in Row
    BY ElementOfSeq
  <2>2. rows[k].at \in 0..MaxTime /\ rows[k].id \in Id
    BY <2>1 DEF Row
  <2>3. rows[k].id \in Nat
    BY <2>2, BoundAssumption, Zenon
  <2> QED BY <2>2, <2>3, BoundAssumption
<1> QED BY <1>1, <1>2

(* Stamps that increase from each row to the next increase throughout.      *)
LEMMA StampsGrow ==
    ASSUME NEW rows \in Seq(Row), \A i \in 1..(Len(rows) - 1) : rows[i].at < rows[i + 1].at,
           NEW i \in 1..Len(rows), NEW j \in 1..Len(rows), i < j
    PROVE  rows[i].at < rows[j].at
<1> DEFINE T == {k \in 1..Len(rows) : i < k /\ ~ (rows[i].at < rows[k].at)}
<1>1. Len(rows) \in Nat /\ \A k \in 1..Len(rows) : rows[k].at \in Nat
  BY RowsAreTyped
<1>2. CASE T = {}
  BY <1>2
<1>3. CASE T # {}
  <2>1. PICK m \in T : \A n \in T : m <= n
    <3>1. T \in SUBSET Nat
      BY <1>1
    <3> HIDE DEF T
    <3> QED BY <1>3, <3>1, LeastOf
  <2>2. m - 1 \in 1..(Len(rows) - 1) /\ m - 1 \notin T
    BY <1>1, <2>1
  <2>3. rows[m - 1].at < rows[m].at
    BY <1>1, <2>2
  <2>4. m - 1 = i \/ rows[i].at < rows[m - 1].at
    BY <1>1, <2>2
  <2>5. rows[i].at < rows[m].at
    BY <1>1, <2>2, <2>3, <2>4
  <2> QED BY <2>5
<1> QED BY <1>2, <1>3

(* Rows whose stamps increase are read in the order they were written.      *)
LEMMA ReadInOrder ==
    ASSUME NEW rows \in Seq(Row), \A i \in 1..(Len(rows) - 1) : rows[i].at < rows[i + 1].at
    PROVE  OrderedRows(rows) = rows
<1>1. /\ Len(rows) \in Nat /\ DOMAIN rows = 1..Len(rows)
      /\ \A k \in 1..Len(rows) : rows[k].at \in Nat /\ rows[k].id \in Nat
  BY RowsAreTyped
<1>2. ASSUME NEW i \in 1..Len(rows) PROVE Rank(rows, i) = i
  <2>1. {j \in DOMAIN rows : OrderBefore(rows[j], rows[i])} = 1..(i - 1)
    <3>1. ASSUME NEW j \in 1..Len(rows) PROVE OrderBefore(rows[j], rows[i]) <=> j < i
      <4>1. CASE j < i
        BY <4>1, StampsGrow DEF OrderBefore
      <4>2. CASE i < j
        <5>1. rows[i].at < rows[j].at
          BY <4>2, StampsGrow
        <5> QED BY <1>1, <4>2, <5>1 DEF OrderBefore
      <4>3. CASE i = j
        BY <1>1, <4>3 DEF OrderBefore
      <4> QED BY <4>1, <4>2, <4>3
    <3> QED BY <1>1, <3>1
  <2>2. Cardinality(1..(i - 1)) = i - 1
    BY FS_Interval
  <2>3. Rank(rows, i) = 1 + Cardinality(1..(i - 1))
    BY <2>1, Zenon DEF Rank
  <2> QED BY <1>1, <2>2, <2>3
<1>3. ASSUME NEW n \in DOMAIN rows
      PROVE  rows[CHOOSE i \in DOMAIN rows : Rank(rows, i) = n] = rows[n]
  BY <1>1, <1>2
<1>4. rows = [n \in DOMAIN rows |-> rows[n]]
  BY <1>1
<1> QED BY <1>3, <1>4 DEF OrderedRows

(* An altered payload no longer matches its hash.                           *)
LEMMA AppendTells ==
    ASSUME NEW S, NEW s \in Seq(S), NEW a \in S, NEW b \in S, a # b
    PROVE  Append(s, a) # Append(s, b)
<1>1. Append(s, a)[Len(s) + 1] = a /\ Append(s, b)[Len(s) + 1] = b
  BY AppendProperties
<1> QED BY <1>1

(* An altered row of a chain is the first one that is broken.               *)
LEMMA TamperShows ==
    ASSUME TypeOK, ChainLinear, NEW i \in DOMAIN log
    PROVE  LET v == VerifyChain(Tampered(i)) IN ~v.intact /\ v.brokenAt = i - 1
<1> DEFINE rows == Tampered(i)
           author == IF log[i].by = "provision" THEN "tamper" ELSE "provision"
<1>1. /\ log \in Seq(Row) /\ Len(log) \in Nat /\ DOMAIN log = 1..Len(log)
      /\ log[i] \in Row /\ author # log[i].by
  BY LenProperties, ElementOfSeq DEF TypeOK
<1>2. rows = [log EXCEPT ![i].by = author]
  BY DEF Tampered
<1> HIDE DEF author
<1>3. /\ DOMAIN rows = DOMAIN log /\ \A j \in DOMAIN log \ {i} : rows[j] = log[j]
      /\ rows[i] = [log[i] EXCEPT !.by = author]
  BY <1>2
<1> HIDE DEF rows
<1>4. /\ rows[i].by = author /\ rows[i].at = log[i].at
      /\ rows[i].prev = log[i].prev /\ rows[i].hash = log[i].hash
  BY <1>1, <1>3 DEF Row
<1>5. i \in Broken(rows)
  <2> DEFINE mine == PayloadOf(log[i])
             theirs == PayloadOf(rows[i])
  <2>1. mine # theirs
    BY <1>1, <1>4 DEF PayloadOf
  <2>2. log[i].prev \in Seq(Payload \cup {mine, theirs})
    BY <1>1 DEF Row, Hash
  <2>3. HashOf(log[i].prev, mine) # HashOf(log[i].prev, theirs)
    <3> HIDE DEF mine, theirs
    <3> QED BY <2>1, <2>2, AppendTells DEF HashOf
  <2>4. log[i].hash = HashOf(log[i].prev, mine)
    BY DEF ChainLinear, LinkedFrom
  <2>5. rows[i].hash # HashOf(rows[i].prev, PayloadOf(rows[i]))
    BY <1>4, <2>3, <2>4
  <2> QED BY <1>3, <2>5 DEF Broken
<1>6. ASSUME NEW j \in DOMAIN log, j < i PROVE j \notin Broken(rows)
  <2>1. rows[j] = log[j] /\ (j # 1 => rows[j - 1] = log[j - 1])
    BY <1>1, <1>3, <1>6
  <2>2. /\ log[j].prev = IF j = 1 THEN Genesis ELSE log[j - 1].hash
        /\ log[j].hash = HashOf(log[j].prev, PayloadOf(log[j]))
    BY DEF ChainLinear, LinkedFrom
  <2> QED BY <2>1, <2>2 DEF Broken
<1>7. Broken(rows) \subseteq 1..Len(log)
  BY <1>1, <1>3 DEF Broken
<1>8. \A j \in Broken(rows) : i <= j
  BY <1>1, <1>6, <1>7
<1>9. (CHOOSE k \in Broken(rows) : \A j \in Broken(rows) : k <= j) = i
  <2> DEFINE c == CHOOSE k \in Broken(rows) : \A j \in Broken(rows) : k <= j
  <2>1. c \in Broken(rows) /\ \A j \in Broken(rows) : c <= j
    BY <1>5, <1>8
  <2>2. c \in 1..Len(log) /\ c <= i /\ i <= c
    BY <1>5, <1>7, <1>8, <2>1
  <2> HIDE DEF c
  <2>3. c = i
    BY <1>1, <2>2
  <2> QED BY <2>3 DEF c
<1>10. VerifyChain(rows) = [intact |-> FALSE, brokenAt |-> i - 1]
  BY <1>5, <1>9 DEF VerifyChain
<1> QED BY <1>10 DEF rows

(* A log of increasing stamps that nobody altered verifies as intact, and    *)
(* one altered row is named, however the entries came to be committed.       *)
THEOREM VerifiesSoundly == Spec => []VerificationIsSound
<1>1. ChainInv => VerificationIsSound
  <2> SUFFICES ASSUME TypeOK, ChainLinear PROVE VerificationIsSound
    BY DEF ChainInv
  <2>1. ASSUME StampsIncrease PROVE VerifyAuditChain.intact
    <3>1. log \in Seq(Row)
      BY DEF TypeOK
    <3>2. OrderedRows(log) = log
      BY <2>1, <3>1, ReadInOrder DEF StampsIncrease
    <3>3. Broken(log) = {}
      BY DEF Broken, ChainLinear, LinkedFrom
    <3> QED BY <3>2, <3>3 DEF VerifyAuditChain, VerifyChain
  <2>2. \A i \in DOMAIN log :
          LET v == VerifyChain(Tampered(i)) IN ~v.intact /\ v.brokenAt = i - 1
    BY TamperShows
  <2> QED BY <2>1, <2>2 DEF VerificationIsSound
<1> QED BY <1>1, ChainInit, ChainStep, PTL DEF Spec
=============================================================================
