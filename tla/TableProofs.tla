---------------------------- MODULE TableProofs -----------------------------
(***************************************************************************)
(* Proofs about the table model of module Table, for every value of its   *)
(* constants: type correctness of every handler of table.cpp, and that no *)
(* INSERT or UPDATE ever leaves an illegal cell in the heap.              *)
(***************************************************************************)
EXTENDS Table, WellFoundedInduction, SequenceTheorems, TLAPS

(* A non-empty set of naturals has a least element, and Min picks it: the  *)
(* slot insert_record takes (the first free one) is a slot of the heap.    *)
LEMMA MinNat ==
    ASSUME NEW T \in SUBSET Nat, T # {}
    PROVE  Min(T) \in T /\ \A y \in T : Min(T) <= y
<1>1. \E x \in T : \A y \in T : ~(<<y, x>> \in OpToRel(<, Nat))
    BY NatLessThanWellFounded, WFMin
<1>2. ASSUME NEW x \in T, NEW y \in T, ~(<<y, x>> \in OpToRel(<, Nat))
      PROVE  x <= y
    <2>1. <<y, x>> \in Nat \X Nat
        OBVIOUS
    <2>. QED
        BY <2>1, <1>2 DEF OpToRel
<1>3. \E x \in T : \A y \in T : x <= y
    BY <1>1, <1>2
<1>. QED
    BY <1>3 DEF Min

(* A function over the positions of the index list is again an index list. *)
LEMMA IndexListFcn ==
    ASSUME NEW s \in Seq(Index), NEW g \in [DOMAIN s -> Index]
    PROVE  g \in Seq(Index)
<1>1. DOMAIN s = 1..Len(s) /\ Len(s) \in Nat
    BY LenProperties
<1>. QED
    BY <1>1

(* Every record a scan hands over is a visible record of the heap.         *)
LEMMA ScanVisible ==
    ASSUME NEW t \in Trx, NEW cond \in Cond
    PROVE  scan_record(t, cond) \subseteq {r \in Rids : is_visible(t, r)}
BY DEF scan_record, scan_record_by_index

(* A visible record is a record.                                           *)
LEMMA VisibleIsRecord ==
    ASSUME TypeOK, NEW t \in Trx, NEW r \in Rids, is_visible(t, r)
    PROVE  heap[r] \in Record
BY DEF TypeOK, is_visible

(* What a scan hands over: occupied slots holding visible records.        *)
LEMMA ScanFacts ==
    ASSUME TypeOK, NEW t \in Trx, NEW cond \in Cond
    PROVE  \A r \in scan_record(t, cond) :
              /\ r \in Rids /\ heap[r] \in Record /\ heap[r] # NoRecord
              /\ ~heap[r].deleted /\ heap[r].owner \in {0, t}
BY ScanVisible, VisibleIsRecord DEF is_visible

(* The RIDs a log names with operation o, when the log grows by M: those  *)
(* of the old log and those of M (Inserted and Deleted of a longer log).   *)
LEMMA RidsOfUnion ==
    ASSUME NEW L, NEW M, NEW o
    PROVE  {e.rid : e \in {e \in L \cup M : e.op = o}} =
             {e.rid : e \in {e \in L : e.op = o}} \cup {e.rid : e \in {e \in M : e.op = o}}
BY Zenon

(* Log entries made of the RIDs of R with operation p name exactly R with  *)
(* p, and nothing with another operation.                                  *)
LEMMA RidsOfEntries ==
    ASSUME NEW R, NEW p
    PROVE  {e.rid : e \in {e \in {[op |-> p, rid |-> r] : r \in R} : e.op = p}} = R
<1>1. {e \in {[op |-> p, rid |-> r] : r \in R} : e.op = p} = {[op |-> p, rid |-> r] : r \in R}
    OBVIOUS
<1>2. ASSUME NEW x \in R PROVE x \in {e.rid : e \in {[op |-> p, rid |-> r] : r \in R}}
    <2>1. [op |-> p, rid |-> x] \in {[op |-> p, rid |-> r] : r \in R}
        OBVIOUS
    <2>2. [op |-> p, rid |-> x].rid = x
        OBVIOUS
    <2>. QED
        BY <2>1, <2>2, Zenon
<1>3. ASSUME NEW y \in {e.rid : e \in {[op |-> p, rid |-> r] : r \in R}} PROVE y \in R
    OBVIOUS
<1>. QED
    BY <1>1, <1>2, <1>3

LEMMA RidsOfOtherEntries ==
    ASSUME NEW R
    PROVE  /\ {e.rid : e \in {e \in {[op |-> "INSERT", rid |-> r] : r \in R} : e.op = "DELETE"}} = {}
           /\ {e.rid : e \in {e \in {[op |-> "DELETE", rid |-> r] : r \in R} : e.op = "INSERT"}} = {}
OBVIOUS

(* delete_entry_of_indexes only removes entries: the list stays well typed. *)
LEMMA DeleteEntriesType ==
    ASSUME TypeOK, NEW R
    PROVE  delete_entry_of_indexes(R) \in Seq(Index)
<1>1. delete_entry_of_indexes(R) \in [DOMAIN indexes -> Index]
    <2>1. \A i \in DOMAIN indexes : indexes[i] \in Index
        BY LenProperties DEF TypeOK
    <2>. QED
        BY <2>1 DEF delete_entry_of_indexes, Index
<1>. QED
    BY <1>1, IndexListFcn DEF TypeOK

-----------------------------------------------------------------------------
(* Type correctness: every handler keeps the heap, the index list, the     *)
(* transaction table, the logs and the failure counter well typed.         *)
LEMMA TypeInit == Init => TypeOK
BY FailuresAssumption DEF Init, TypeOK

LEMMA TypeNext == TypeOK /\ [Next]_vars => TypeOK'
<1>. SUFFICES ASSUME TypeOK, [Next]_vars PROVE TypeOK'
    OBVIOUS
<1>. USE FieldsAssumption, LegalAssumption, NullAssumption, TrxAssumption,
         MaxRidAssumption, FailuresAssumption, InputsAssumption
<1>1. ASSUME NEW t \in Trx, NEW row \in InsertRows, insert_record(t, row)
      PROVE  TypeOK'
    <2>. DEFINE free == {s \in Rids : heap[s] = NoRecord}
                r == Min(free)
                rec == [owner |-> t, deleted |-> FALSE, val |-> row]
    <2>0. free \subseteq Nat /\ free # {}
        BY <1>1 DEF insert_record, Rids
    <2>1. r \in Rids
        BY <2>0, MinNat
    <2>2. rec \in Record
        BY DEF Record, Row
    <2>3. \A i \in DOMAIN indexes : indexes[i] \in Index
        BY LenProperties DEF TypeOK
    <2>4. heap' \in [Rids -> Record \cup {NoRecord}]
        BY <1>1, <2>1, <2>2 DEF insert_record, TypeOK
    <2>5. indexes' \in Seq(Index)
        <3>1. insert_entry_of_indexes(rec, r) \in [DOMAIN indexes -> Index]
            BY <2>1, <2>3 DEF insert_entry_of_indexes, Index, Key, Record, Row, Entry, Cells
        <3>2. [i \in DOMAIN indexes |->
                 [indexes[i] EXCEPT !.entries = @ \ {<<Key(indexes[i], rec), r>>}]]
                \in [DOMAIN indexes -> Index]
            BY <2>3 DEF Index
        <3>. QED
            BY <1>1, <3>1, <3>2, IndexListFcn DEF insert_record, TypeOK
    <2>6. log' \in [Trx -> SUBSET LogEntry]
        <3>1. log' = [log EXCEPT ![t] = @ \cup {[op |-> "INSERT", rid |-> r]}]
            BY <1>1 DEF insert_record
        <3>2. [op |-> "INSERT", rid |-> r] \in LogEntry
            BY <2>1 DEF LogEntry
        <3>. QED
            BY <3>1, <3>2 DEF TypeOK
    <2>7. failures' \in 0..MaxIndexFailures /\ status' = status
        BY <1>1 DEF insert_record, TypeOK
    <2>. QED
        BY <2>4, <2>5, <2>6, <2>7 DEF TypeOK
<1>2. ASSUME NEW t \in Trx, NEW cond \in Cond, delete_record(t, cond)
      PROVE  TypeOK'
    <2>0. scan_record(t, cond) \subseteq Rids
        BY ScanVisible
    <2>1. \A r \in scan_record(t, cond) : heap[r] \in Record
        BY ScanVisible, VisibleIsRecord
    <2>2. heap' \in [Rids -> Record \cup {NoRecord}]
        BY <1>2, <2>1 DEF delete_record, TypeOK, Record
    <2>3. log' \in [Trx -> SUBSET LogEntry]
        <3>1. {[op |-> "DELETE", rid |-> r] : r \in scan_record(t, cond)} \subseteq LogEntry
            BY <2>0 DEF LogEntry
        <3>. QED
            BY <1>2, <3>1 DEF delete_record, TypeOK
    <2>. QED
        BY <1>2, <2>2, <2>3 DEF delete_record, TypeOK
<1>3. ASSUME NEW t \in Trx, NEW f \in Fields, NEW v \in UpdateVals,
             NEW cond \in Cond, update_record(t, f, v, cond)
      PROVE  TypeOK'
    <2>. DEFINE Done == UpdateDone(t, f, v, cond)
    <2>1. Done \subseteq scan_record(t, cond)
        BY DEF UpdateDone
    <2>2. \A r \in Done : r \in Rids /\ Updated(r, f, v) \in Record
        BY <2>1, ScanVisible, VisibleIsRecord DEF Updated, Record, Row, Cells
    <2>3. \A i \in DOMAIN indexes : indexes[i] \in Index
        BY LenProperties DEF TypeOK
    <2>4. ASSUME NEW i \in DOMAIN indexes, NEW D \in SUBSET Done
          PROVE  {<<Key(indexes[i], Updated(r, f, v)), r>> : r \in D} \subseteq Entry
        <3>1. indexes[i].field \in Fields
            BY <2>3 DEF Index
        <3>. QED
            BY <2>2, <3>1 DEF Key, Record, Row, Entry
    <2>5. failures' \in 0..MaxIndexFailures /\ status' = status /\ log' = log
        BY <1>3 DEF update_record, TypeOK
    <2>6. heap' \in [Rids -> Record \cup {NoRecord}]
        <3>1. CASE heap' = [r \in Rids |-> IF r \in Done THEN Updated(r, f, v) ELSE heap[r]]
            BY <3>1, <2>2 DEF TypeOK
        <3>2. CASE \E x \in Done :
                     heap' = [r \in Rids |->
                               IF r \in {s \in Done : s < x} THEN Updated(r, f, v)
                               ELSE IF r = x THEN NoRecord ELSE heap[r]]
            BY <3>2, <2>2 DEF TypeOK
        <3>. QED
            BY <1>3, <3>1, <3>2 DEF update_record
    <2>7. ASSUME NEW D \in SUBSET Done, NEW U
          PROVE  update_index_entries(f, v, D, U) \in [DOMAIN indexes -> Index]
        BY <2>3, <2>4 DEF update_index_entries, Index
    <2>8. indexes' \in [DOMAIN indexes -> Index]
        <3>1. CASE indexes' = update_index_entries(f, v, Done, UpdateUnindexed(t, f, v, cond))
            BY <3>1, <2>7
        <3>2. CASE \E x \in Done :
                     LET Moved == update_index_entries(f, v, {r \in Done : r < x},
                                                       {r \in Done : r < x} \cup {x})
                     IN  indexes' = [i \in DOMAIN indexes |->
                                      [Moved[i] EXCEPT !.entries =
                                          @ \ {<<Key(indexes[i], Updated(x, f, v)), x>>}]]
            <4>1. PICK x \in Done :
                     LET Moved == update_index_entries(f, v, {r \in Done : r < x},
                                                       {r \in Done : r < x} \cup {x})
                     IN  indexes' = [i \in DOMAIN indexes |->
                                      [Moved[i] EXCEPT !.entries =
                                          @ \ {<<Key(indexes[i], Updated(x, f, v)), x>>}]]
                BY <3>2
            <4>2. update_index_entries(f, v, {r \in Done : r < x}, {r \in Done : r < x} \cup {x})
                    \in [DOMAIN indexes -> Index]
                BY <2>7
            <4>. QED
                BY <4>1, <4>2 DEF Index
        <3>. QED
            BY <1>3, <3>1, <3>2 DEF update_record
    <2>. QED
        BY <2>5, <2>6, <2>8, IndexListFcn DEF TypeOK
<1>4. ASSUME NEW t \in Trx, NEW n \in IndexNames, NEW f \in Fields,
             create_index(t, n, f)
      PROVE  TypeOK'
    <2>1. \A r \in {r \in Rids : is_visible(t, r)} : heap[r].val[f] \in Cells
        BY VisibleIsRecord DEF Record, Row
    <2>2. [name |-> n, field |-> f,
           entries |-> {<<heap[r].val[f], r>> : r \in {r \in Rids : is_visible(t, r)}}]
            \in Index
        BY <2>1 DEF Index, Entry
    <2>. QED
        BY <1>4, <2>2 DEF create_index, TypeOK
<1>5. ASSUME NEW t \in Trx, commit(t) PROVE TypeOK'
    <2>1. heap' \in [Rids -> Record \cup {NoRecord}]
        BY <1>5 DEF commit, commit_insert, TypeOK, Record
    <2>. QED
        BY <1>5, <2>1, DeleteEntriesType DEF commit, commit_insert, TypeOK
<1>6. ASSUME NEW t \in Trx, rollback(t) PROVE TypeOK'
    <2>1. heap' \in [Rids -> Record \cup {NoRecord}]
        BY <1>6 DEF rollback, rollback_delete, TypeOK, Record
    <2>. QED
        BY <1>6, <2>1, DeleteEntriesType DEF rollback, rollback_delete, TypeOK
<1>7. CASE Finished \/ UNCHANGED vars
    BY <1>7 DEF Finished, vars, TypeOK
<1>. QED
    BY <1>1, <1>2, <1>3, <1>4, <1>5, <1>6, <1>7 DEF Next

(* Theorem: every reachable state of the table is well typed.              *)
THEOREM TypeCorrect == Spec => []TypeOK
BY TypeInit, TypeNext, PTL DEF Spec

-----------------------------------------------------------------------------
(* A record is the record literal of its header and its cells.            *)
LEMMA RecordEta ==
    ASSUME NEW x \in Record
    PROVE  x = [owner |-> x.owner, deleted |-> x.deleted, val |-> x.val]
BY DEF Record

(* Rewriting the owner, the whole header, or one cell of a record gives    *)
(* the record literal with that part replaced (commit_insert,              *)
(* rollback_delete, the delete stamp of Trx::delete_record, Updated).      *)
LEMMA SetOwner ==
    ASSUME NEW x \in Record, NEW o
    PROVE  [x EXCEPT !.owner = o] = [owner |-> o, deleted |-> x.deleted, val |-> x.val]
<1>. DEFINE y == [owner |-> x.owner, deleted |-> x.deleted, val |-> x.val]
<1>1. x = y
    BY RecordEta
<1>2. [y EXCEPT !.owner = o] = [owner |-> o, deleted |-> x.deleted, val |-> x.val]
    OBVIOUS
<1>3. [x EXCEPT !.owner = o] = [y EXCEPT !.owner = o]
    BY <1>1, Zenon
<1>. QED
    BY <1>2, <1>3

LEMMA SetHeader ==
    ASSUME NEW x \in Record, NEW o, NEW d
    PROVE  [x EXCEPT !.owner = o, !.deleted = d] = [owner |-> o, deleted |-> d, val |-> x.val]
<1>. DEFINE z == [owner |-> o, deleted |-> x.deleted, val |-> x.val]
<1>1. [x EXCEPT !.owner = o, !.deleted = d] = [[x EXCEPT !.owner = o] EXCEPT !.deleted = d]
    OBVIOUS
<1>2. [[x EXCEPT !.owner = o] EXCEPT !.deleted = d] = [z EXCEPT !.deleted = d]
    BY SetOwner, Zenon
<1>3. [z EXCEPT !.deleted = d] = [owner |-> o, deleted |-> d, val |-> x.val]
    OBVIOUS
<1>. QED
    BY <1>1, <1>2, <1>3

LEMMA SetCell ==
    ASSUME NEW x \in Record, NEW f, NEW v
    PROVE  [x EXCEPT !.val[f] = v] =
             [owner |-> x.owner, deleted |-> x.deleted, val |-> [x.val EXCEPT ![f] = v]]
<1>. DEFINE y == [owner |-> x.owner, deleted |-> x.deleted, val |-> x.val]
<1>1. x = y
    BY RecordEta
<1>2. [y EXCEPT !.val[f] = v] =
        [owner |-> x.owner, deleted |-> x.deleted, val |-> [x.val EXCEPT ![f] = v]]
    OBVIOUS
<1>3. [x EXCEPT !.val[f] = v] = [y EXCEPT !.val[f] = v]
    BY <1>1, Zenon
<1>. QED
    BY <1>2, <1>3

(* The three header and cell rewrites of the table, as record literals.   *)
LEMMA HeapRewrites ==
    ASSUME TypeOK, NEW r \in Rids, heap[r] # NoRecord, NEW f, NEW v
    PROVE  /\ commit_insert(r) = [owner |-> 0, deleted |-> heap[r].deleted, val |-> heap[r].val]
           /\ rollback_delete(r) = [owner |-> 0, deleted |-> FALSE, val |-> heap[r].val]
           /\ Updated(r, f, v) = [owner |-> heap[r].owner, deleted |-> heap[r].deleted,
                                  val |-> [heap[r].val EXCEPT ![f] = v]]
<1>1. heap[r] \in Record
    BY DEF TypeOK
<1>2. commit_insert(r) = [owner |-> 0, deleted |-> heap[r].deleted, val |-> heap[r].val]
    BY <1>1, SetOwner DEF commit_insert
<1>3. rollback_delete(r) = [owner |-> 0, deleted |-> FALSE, val |-> heap[r].val]
    BY <1>1, SetHeader, Zenon DEF rollback_delete
<1>4. Updated(r, f, v) = [owner |-> heap[r].owner, deleted |-> heap[r].deleted,
                          val |-> [heap[r].val EXCEPT ![f] = v]]
    BY <1>1, SetCell DEF Updated
<1>. QED
    BY <1>2, <1>3, <1>4

(* A record whose every cell is legal for its column.                      *)
LegalRec(x) ==
    \A f \in Fields : \/ x.val[f] = Null /\ f \in Nullable
                     \/ x.val[f] \in Legal[f]

(* A step keeps the cells legal if every slot afterwards is free, holds   *)
(* the cells it held before, or holds a legal record.                      *)
LEMMA LegalBySlots ==
    ASSUME StoredValuesLegal,
           \A r \in Rids : \/ heap'[r] = NoRecord
                           \/ heap[r] # NoRecord /\ heap'[r].val = heap[r].val
                           \/ LegalRec(heap'[r])
    PROVE  StoredValuesLegal'
BY DEF StoredValuesLegal, LegalRec

(* Legal cells: make_record checks every INSERT value with is_legal, and   *)
(* update_record checks the new value before it writes it; every other     *)
(* handler only rewrites headers or frees slots.                           *)
LEMMA LegalNext ==
    TypeOK /\ StoredValuesLegal /\ [Next]_vars => StoredValuesLegal'
<1>. SUFFICES ASSUME TypeOK, StoredValuesLegal, [Next]_vars
              PROVE  StoredValuesLegal'
    OBVIOUS
<1>. USE FieldsAssumption, LegalAssumption, NullAssumption, TrxAssumption,
         MaxRidAssumption, InputsAssumption
<1>1. ASSUME NEW t \in Trx, NEW row \in InsertRows, insert_record(t, row)
      PROVE  StoredValuesLegal'
    <2>. DEFINE r0 == Min({s \in Rids : heap[s] = NoRecord})
                rec == [owner |-> t, deleted |-> FALSE, val |-> row]
    <2>1. LegalRec(rec)
        <3>1. \A f \in Fields : is_legal(row[f], f)
            BY <1>1 DEF insert_record, make_record
        <3>. QED
            BY <3>1 DEF LegalRec, is_legal
    <2>2. heap' = [heap EXCEPT ![r0] = rec] \/ heap' = heap
        BY <1>1, Zenon DEF insert_record
    <2>3. \A r \in Rids : heap'[r] = heap[r] \/ heap'[r] = rec
        <3>1. CASE heap' = heap
            BY <3>1
        <3>2. CASE heap' = [heap EXCEPT ![r0] = rec]
            BY <3>2 DEF TypeOK
        <3>. QED
            BY <2>2, <3>1, <3>2
    <2>. QED
        BY <2>1, <2>3, LegalBySlots
<1>2. ASSUME NEW t \in Trx, NEW cond \in Cond, delete_record(t, cond)
      PROVE  StoredValuesLegal'
    <2>. DEFINE R == scan_record(t, cond)
    <2>1. \A r \in R : r \in Rids /\ heap[r] \in Record /\ heap[r] # NoRecord
        BY ScanFacts
    <2>2. \A r \in Rids : heap'[r] = IF r \in R THEN [heap[r] EXCEPT !.owner = t, !.deleted = TRUE]
                                    ELSE heap[r]
        BY <1>2, Zenon DEF delete_record
    <2>3. \A r \in R : [heap[r] EXCEPT !.owner = t, !.deleted = TRUE].val = heap[r].val
        BY <2>1, SetHeader
    <2>. QED
        BY <2>1, <2>2, <2>3, LegalBySlots
<1>3. ASSUME NEW t \in Trx, NEW f \in Fields, NEW v \in UpdateVals,
             NEW cond \in Cond, update_record(t, f, v, cond)
      PROVE  StoredValuesLegal'
    <2>. DEFINE Done == UpdateDone(t, f, v, cond)
    <2>1. \A r \in Done : r \in Rids /\ heap[r] \in Record /\ heap[r] # NoRecord /\ is_legal(v, f)
        <3>1. Done \subseteq scan_record(t, cond) /\ (Done # {} => is_legal(v, f))
            BY DEF UpdateDone
        <3>. QED
            BY <3>1, ScanFacts
    <2>2. \A r \in Done : LegalRec(heap[r]) => LegalRec(Updated(r, f, v))
        <3>. SUFFICES ASSUME NEW r \in Done, LegalRec(heap[r]) PROVE LegalRec(Updated(r, f, v))
            OBVIOUS
        <3>1. Updated(r, f, v).val = [heap[r].val EXCEPT ![f] = v]
            BY <2>1, HeapRewrites
        <3>2. heap[r].val \in Row
            BY <2>1 DEF Record
        <3>. QED
            BY <2>1, <3>1, <3>2 DEF LegalRec, is_legal, Row
    <2>3. \A r \in Rids : heap[r] # NoRecord => LegalRec(heap[r])
        BY DEF StoredValuesLegal, LegalRec
    <2>4. \A r \in Rids : heap'[r] = NoRecord \/ heap'[r] = heap[r]
                          \/ (r \in Done /\ heap'[r] = Updated(r, f, v))
        <3>1. CASE heap' = [r \in Rids |-> IF r \in Done THEN Updated(r, f, v) ELSE heap[r]]
            BY <3>1
        <3>2. CASE \E x \in Done :
                     heap' = [r \in Rids |->
                               IF r \in {s \in Done : s < x} THEN Updated(r, f, v)
                               ELSE IF r = x THEN NoRecord ELSE heap[r]]
            BY <3>2
        <3>. QED
            BY <1>3, <3>1, <3>2 DEF update_record
    <2>. QED
        BY <2>1, <2>2, <2>3, <2>4, LegalBySlots
<1>4. ASSUME NEW t \in Trx, NEW n \in IndexNames, NEW f \in Fields,
             create_index(t, n, f)
      PROVE  StoredValuesLegal'
    BY <1>4 DEF create_index, StoredValuesLegal
<1>5. ASSUME NEW t \in Trx, commit(t) PROVE StoredValuesLegal'
    <2>1. \A r \in Rids : heap'[r] = NoRecord \/ heap'[r] = heap[r]
                          \/ (heap[r] # NoRecord /\ heap'[r] = commit_insert(r))
        BY <1>5 DEF commit
    <2>2. \A r \in Rids : heap[r] # NoRecord => commit_insert(r).val = heap[r].val
        BY Zenon DEF commit_insert, TypeOK, Record
    <2>. QED
        BY <2>1, <2>2, LegalBySlots
<1>6. ASSUME NEW t \in Trx, rollback(t) PROVE StoredValuesLegal'
    <2>1. \A r \in Rids : heap'[r] = NoRecord \/ heap'[r] = heap[r]
                          \/ (heap[r] # NoRecord /\ heap'[r] = rollback_delete(r))
        BY <1>6 DEF rollback
    <2>2. \A r \in Rids : heap[r] # NoRecord => rollback_delete(r).val = heap[r].val
        BY Zenon DEF rollback_delete, TypeOK, Record
    <2>. QED
        BY <2>1, <2>2, LegalBySlots
<1>7. CASE Finished \/ UNCHANGED vars
    BY <1>7 DEF Finished, vars, StoredValuesLegal
<1>. QED
    BY <1>1, <1>2, <1>3, <1>4, <1>5, <1>6, <1>7 DEF Next

(* Theorem (spec 3, invariant 4): in every reachable state every cell of   *)
(* every stored record is NULL only in a nullable column and otherwise a   *)
(* legal value of its column, whatever INSERT and UPDATE statements ran.   *)
THEOREM ValuesLegal == Spec => []StoredValuesLegal
<1>1. Init => StoredValuesLegal
    BY DEF Init, StoredValuesLegal
<1>2. TypeOK /\ StoredValuesLegal /\ [Next]_vars => StoredValuesLegal'
    BY LegalNext
<1>. QED
    BY <1>1, <1>2, TypeInit, TypeNext, PTL DEF Spec

-----------------------------------------------------------------------------
(* The log and the headers: with every B+-tree insert succeeding, a record *)
(* carries owner u exactly when u logged it, because each handler stamps   *)
(* only free slots or records owned by the committed state or by itself,   *)
(* and commit and rollback rewrite only the records their own log names.   *)
LEMMA LogNext ==
    ASSUME MaxIndexFailures = 0
    PROVE  TypeOK /\ LogMatchesHeader /\ [Next]_vars => LogMatchesHeader'
<1>. SUFFICES ASSUME TypeOK, LogMatchesHeader, [Next]_vars
              PROVE  LogMatchesHeader'
    OBVIOUS
<1>. USE FieldsAssumption, TrxAssumption, MaxRidAssumption, NoRecordAssumption
<1>. DEFINE Own(u, r) == heap[r] # NoRecord /\ heap[r].owner = u
            Del(u, r) == Own(u, r) /\ heap[r].deleted
            Logged(u) == Inserted(u) \cup Deleted(u)
<1>0. \A u \in Trx, r \in Rids : status[u] = "active" =>
         /\ Own(u, r) <=> r \in Logged(u)
         /\ Del(u, r) <=> r \in Deleted(u)
    BY DEF LogMatchesHeader
<1>00. ~(failures < MaxIndexFailures)
    BY DEF TypeOK
<1>000. \A u \in Trx : Logged(u) \subseteq Rids
    BY DEF TypeOK, Inserted, Deleted, LogEntry
<1>1. ASSUME NEW t \in Trx, NEW row \in InsertRows, insert_record(t, row)
      PROVE  LogMatchesHeader'
    <2>. DEFINE free == {s \in Rids : heap[s] = NoRecord}
                s0 == Min(free)
                rec == [owner |-> t, deleted |-> FALSE, val |-> row]
    <2>1. s0 \in Rids /\ heap[s0] = NoRecord
        <3>1. free \subseteq Nat /\ free # {}
            BY <1>1 DEF insert_record, Rids
        <3>. QED
            BY <3>1, MinNat
    <2>2. heap' = [heap EXCEPT ![s0] = rec]
        BY <1>1, <1>00, Zenon DEF insert_record
    <2>3. log' = [log EXCEPT ![t] = @ \cup {[op |-> "INSERT", rid |-> s0]}]
        BY <1>1, Zenon DEF insert_record
    <2>4. status' = status
        BY <1>1 DEF insert_record
    <2>5. Inserted(t)' = Inserted(t) \cup {s0} /\ Deleted(t)' = Deleted(t)
        <3>. DEFINE M == {[op |-> "INSERT", rid |-> r] : r \in {s0}}
        <3>1. log'[t] = log[t] \cup M
            BY <2>3 DEF TypeOK
        <3>2. Inserted(t)' = {e.rid : e \in {e \in log'[t] : e.op = "INSERT"}}
              /\ Deleted(t)' = {e.rid : e \in {e \in log'[t] : e.op = "DELETE"}}
            BY DEF Inserted, Deleted
        <3>3. /\ {e.rid : e \in {e \in log[t] \cup M : e.op = "INSERT"}} = Inserted(t) \cup {s0}
              /\ {e.rid : e \in {e \in log[t] \cup M : e.op = "DELETE"}} = Deleted(t)
            <4>1. {e.rid : e \in {e \in M : e.op = "INSERT"}} = {s0}
                BY ONLY RidsOfEntries, Zenon
            <4>2. {e.rid : e \in {e \in M : e.op = "DELETE"}} = {}
                BY ONLY RidsOfOtherEntries, Zenon
            <4>3. {e.rid : e \in {e \in log[t] \cup M : e.op = "INSERT"}}
                    = Inserted(t) \cup {e.rid : e \in {e \in M : e.op = "INSERT"}}
                BY ONLY RidsOfUnion, Zenon DEF Inserted
            <4>4. {e.rid : e \in {e \in log[t] \cup M : e.op = "DELETE"}}
                    = Deleted(t) \cup {e.rid : e \in {e \in M : e.op = "DELETE"}}
                BY ONLY RidsOfUnion, Zenon DEF Deleted
            <4>. QED
                BY <4>1, <4>2, <4>3, <4>4
        <3>. QED
            BY <3>1, <3>2, <3>3
    <2>6. \A u \in Trx \ {t} : Inserted(u)' = Inserted(u) /\ Deleted(u)' = Deleted(u)
        BY <2>3 DEF Inserted, Deleted, TypeOK
    <2>7. \A u \in Trx : status[u] = "active" => s0 \notin Logged(u)
        BY <1>0, <2>1
    <2>8. rec # NoRecord /\ heap'[s0] = rec /\ \A r \in Rids \ {s0} : heap'[r] = heap[r]
        <3>1. rec \in Record
            BY InputsAssumption DEF Record
        <3>. QED
            BY <2>1, <2>2, <3>1 DEF TypeOK
    <2>. SUFFICES ASSUME NEW u \in Trx, NEW r \in Rids, status'[u] = "active"
                  PROVE  /\ Own(u, r)' <=> r \in Logged(u)'
                         /\ Del(u, r)' <=> r \in Deleted(u)'
        BY DEF LogMatchesHeader
    <2>9. CASE r = s0
        BY <2>4, <2>5, <2>6, <2>7, <2>8, <2>9
    <2>10. CASE r # s0
        <3>1. heap'[r] = heap[r] /\ status[u] = "active"
            BY <2>4, <2>8, <2>10
        <3>2. /\ r \in Inserted(u)' \cup Deleted(u)' <=> r \in Inserted(u) \cup Deleted(u)
              /\ r \in Deleted(u)' <=> r \in Deleted(u)
            BY <2>5, <2>6, <2>10
        <3>3. /\ Own(u, r) <=> r \in Inserted(u) \cup Deleted(u)
              /\ Del(u, r) <=> r \in Deleted(u)
            BY <1>0, <3>1
        <3>. QED
            BY <3>1, <3>2, <3>3
    <2>. QED
        BY <2>9, <2>10
<1>2. ASSUME NEW t \in Trx, NEW cond \in Cond, delete_record(t, cond)
      PROVE  LogMatchesHeader'
    <2>. DEFINE R == scan_record(t, cond)
                stamp(r) == [owner |-> t, deleted |-> TRUE, val |-> heap[r].val]
    <2>1. \A r \in R : /\ r \in Rids /\ heap[r] \in Record /\ heap[r] # NoRecord
                       /\ heap[r].owner \in {0, t}
        BY ScanFacts
    <2>2. \A r \in Rids : heap'[r] = IF r \in R THEN [heap[r] EXCEPT !.owner = t, !.deleted = TRUE]
                                    ELSE heap[r]
        BY <1>2, Zenon DEF delete_record
    <2>3. \A r \in R : [heap[r] EXCEPT !.owner = t, !.deleted = TRUE] = stamp(r)
        BY <2>1, SetHeader
    <2>4. \A r \in R : heap'[r] = stamp(r) /\ stamp(r) # NoRecord
        <3>1. \A r \in R : stamp(r) \in Record
            BY <2>1 DEF Record
        <3>2. \A r \in R : heap'[r] = stamp(r)
            BY <2>1, <2>2, <2>3, Zenon
        <3>. QED
            BY <3>1, <3>2
    <2>5. \A r \in Rids \ R : heap'[r] = heap[r]
        BY <2>2
    <2>6. log' = [log EXCEPT ![t] = @ \cup {[op |-> "DELETE", rid |-> r] : r \in R}]
        BY <1>2, Zenon DEF delete_record
    <2>7. status' = status
        BY <1>2 DEF delete_record
    <2>8. Inserted(t)' = Inserted(t) /\ Deleted(t)' = Deleted(t) \cup R
        <3>. DEFINE M == {[op |-> "DELETE", rid |-> r] : r \in R}
        <3>1. log'[t] = log[t] \cup M
            BY <2>6 DEF TypeOK
        <3>2. Inserted(t)' = {e.rid : e \in {e \in log'[t] : e.op = "INSERT"}}
              /\ Deleted(t)' = {e.rid : e \in {e \in log'[t] : e.op = "DELETE"}}
            BY DEF Inserted, Deleted
        <3>3. /\ {e.rid : e \in {e \in log[t] \cup M : e.op = "INSERT"}} = Inserted(t)
              /\ {e.rid : e \in {e \in log[t] \cup M : e.op = "DELETE"}} = Deleted(t) \cup R
            <4>1. {e.rid : e \in {e \in M : e.op = "INSERT"}} = {}
                BY ONLY RidsOfOtherEntries, Zenon
            <4>2. {e.rid : e \in {e \in M : e.op = "DELETE"}} = R
                BY ONLY RidsOfEntries, Zenon
            <4>3. {e.rid : e \in {e \in log[t] \cup M : e.op = "INSERT"}}
                    = Inserted(t) \cup {e.rid : e \in {e \in M : e.op = "INSERT"}}
                BY ONLY RidsOfUnion, Zenon DEF Inserted
            <4>4. {e.rid : e \in {e \in log[t] \cup M : e.op = "DELETE"}}
                    = Deleted(t) \cup {e.rid : e \in {e \in M : e.op = "DELETE"}}
                BY ONLY RidsOfUnion, Zenon DEF Deleted
            <4>. QED
                BY <4>1, <4>2, <4>3, <4>4
        <3>. QED
            BY <3>1, <3>2, <3>3
    <2>9. \A u \in Trx \ {t} : Inserted(u)' = Inserted(u) /\ Deleted(u)' = Deleted(u)
        BY <2>6 DEF Inserted, Deleted, TypeOK
    <2>10. \A u \in Trx \ {t}, r \in R : status[u] = "active" => r \notin Logged(u)
        BY <1>0, <2>1
    <2>. SUFFICES ASSUME NEW u \in Trx, NEW r \in Rids, status'[u] = "active"
                  PROVE  /\ (heap'[r] # NoRecord /\ heap'[r].owner = u)
                                <=> r \in Inserted(u)' \cup Deleted(u)'
                         /\ (heap'[r] # NoRecord /\ heap'[r].owner = u /\ heap'[r].deleted)
                                <=> r \in Deleted(u)'
        BY DEF LogMatchesHeader
    <2>11. CASE r \in R /\ u = t
        <3>0. heap'[r] = stamp(r) /\ stamp(r) # NoRecord
            BY <2>4, <2>11
        <3>1. heap'[r] # NoRecord /\ heap'[r].owner = t /\ heap'[r].deleted
            BY <3>0
        <3>2. r \in Deleted(t)'
            BY <2>8, <2>11
        <3>. QED
            BY <3>1, <3>2, <2>11, Zenon
    <2>12. CASE r \in R /\ u # t
        <3>0. heap'[r] = stamp(r) /\ stamp(r) # NoRecord
            BY <2>4, <2>12
        <3>1. heap'[r] # NoRecord /\ heap'[r].owner = t
            BY <3>0
        <3>2. r \notin Inserted(u)' \cup Deleted(u)'
            BY <2>7, <2>9, <2>10, <2>12
        <3>. QED
            BY <3>1, <3>2, <2>12
    <2>13. CASE r \notin R
        <3>1. heap'[r] = heap[r]
            BY <2>5, <2>13
        <3>3. CASE u = t
            <4>1. r \notin Deleted(t)' \ Deleted(t)
                BY <2>8, <2>13
            <4>. QED
                BY <1>0, <2>7, <2>8, <3>1, <3>3, <4>1
        <3>4. CASE u # t
            <4>1. status[u] = "active"
                BY <2>7
            <4>2. Inserted(u)' = Inserted(u) /\ Deleted(u)' = Deleted(u)
                BY <2>9, <3>4
            <4>3. /\ (heap[r] # NoRecord /\ heap[r].owner = u) <=> r \in Inserted(u) \cup Deleted(u)
                  /\ (heap[r] # NoRecord /\ heap[r].owner = u /\ heap[r].deleted) <=> r \in Deleted(u)
                BY <1>0, <4>1
            <4>. QED
                BY <3>1, <4>2, <4>3
        <3>. QED
            BY <3>3, <3>4
    <2>. QED
        BY <2>11, <2>12, <2>13
<1>3. ASSUME NEW t \in Trx, NEW f \in Fields, NEW v \in UpdateVals,
             NEW cond \in Cond, update_record(t, f, v, cond)
      PROVE  LogMatchesHeader'
    <2>. DEFINE Done == UpdateDone(t, f, v, cond)
    <2>1. \A r \in Done : r \in Rids /\ heap[r] \in Record /\ heap[r] # NoRecord
        <3>1. Done \subseteq scan_record(t, cond)
            BY DEF UpdateDone
        <3>. QED
            BY <3>1, ScanFacts
    <2>2. heap' = [r \in Rids |-> IF r \in Done THEN Updated(r, f, v) ELSE heap[r]]
        <3>1. \/ heap' = [r \in Rids |-> IF r \in Done THEN Updated(r, f, v) ELSE heap[r]]
              \/ failures < MaxIndexFailures
            BY <1>3, Zenon DEF update_record
        <3>. QED
            BY <3>1, <1>00
    <2>3. \A r \in Done : /\ Updated(r, f, v).owner = heap[r].owner
                          /\ Updated(r, f, v).deleted = heap[r].deleted
                          /\ Updated(r, f, v) # NoRecord
        <3>. SUFFICES ASSUME NEW r \in Done PROVE  /\ Updated(r, f, v).owner = heap[r].owner
                                                    /\ Updated(r, f, v).deleted = heap[r].deleted
                                                    /\ Updated(r, f, v) # NoRecord
            OBVIOUS
        <3>1. Updated(r, f, v) = [owner |-> heap[r].owner, deleted |-> heap[r].deleted,
                                  val |-> [heap[r].val EXCEPT ![f] = v]]
            BY <2>1, HeapRewrites
        <3>2. [heap[r].val EXCEPT ![f] = v] \in Row
            BY <2>1, InputsAssumption DEF Record, Row, Cells
        <3>. QED
            BY <2>1, <3>1, <3>2 DEF Record
    <2>4. log' = log /\ status' = status
        BY <1>3 DEF update_record
    <2>5. \A u \in Trx, r \in Rids : Own(u, r)' = Own(u, r) /\ Del(u, r)' = Del(u, r)
        BY <2>1, <2>2, <2>3
    <2>. QED
        BY <1>0, <2>4, <2>5 DEF LogMatchesHeader, Inserted, Deleted
<1>4. ASSUME NEW t \in Trx, NEW n \in IndexNames, NEW f \in Fields,
             create_index(t, n, f)
      PROVE  LogMatchesHeader'
    BY <1>4 DEF create_index, LogMatchesHeader, Inserted, Deleted
<1>5. ASSUME NEW t \in Trx, commit(t) PROVE LogMatchesHeader'
    <2>. DEFINE Gone == {r \in Deleted(t) : heap[r] # NoRecord}
    <2>1. heap' = [r \in Rids |->
                    IF r \in Gone THEN NoRecord
                    ELSE IF r \in Inserted(t) /\ heap[r] # NoRecord
                         THEN commit_insert(r)
                         ELSE heap[r]]
        BY <1>5 DEF commit
    <2>2. status' = [status EXCEPT ![t] = "committed"] /\ log' = [log EXCEPT ![t] = {}]
        BY <1>5 DEF commit
    <2>3. \A u \in Trx \ {t} : Inserted(u)' = Inserted(u) /\ Deleted(u)' = Deleted(u)
        BY <2>2 DEF Inserted, Deleted, TypeOK
    <2>4. \A r \in Logged(t) : Own(t, r)
        BY <1>0, <1>000, <1>5 DEF commit
    <2>5. \A r \in Rids : heap[r] # NoRecord => commit_insert(r).owner = 0
        BY HeapRewrites
    <2>. SUFFICES ASSUME NEW u \in Trx, NEW r \in Rids, status'[u] = "active"
                  PROVE  /\ Own(u, r)' <=> r \in Logged(u)'
                         /\ Del(u, r)' <=> r \in Deleted(u)'
        BY DEF LogMatchesHeader
    <2>6. u # t /\ status[u] = "active"
        BY <2>2 DEF TypeOK
    <2>7. CASE r \in Logged(t)
        <3>1. r \notin Logged(u)
            BY <1>0, <2>4, <2>6, <2>7
        <3>2. heap'[r] = NoRecord \/ heap'[r].owner # u
            BY <2>1, <2>4, <2>5, <2>6, <2>7
        <3>. QED
            BY <2>3, <2>6, <3>1, <3>2
    <2>8. CASE r \notin Logged(t)
        <3>1. heap'[r] = heap[r]
            BY <2>1, <2>8
        <3>. QED
            BY <1>0, <2>3, <2>6, <3>1
    <2>. QED
        BY <2>7, <2>8
<1>6. ASSUME NEW t \in Trx, rollback(t) PROVE LogMatchesHeader'
    <2>. DEFINE Undo == {r \in Inserted(t) : heap[r] # NoRecord}
                Freed == {r \in Undo : DelStop(heap[r], r) = Len(indexes) + 1}
    <2>1. heap' = [r \in Rids |->
                    IF r \in Freed THEN NoRecord
                    ELSE IF r \in Deleted(t) /\ heap[r] # NoRecord
                         THEN rollback_delete(r)
                         ELSE heap[r]]
        BY <1>6 DEF rollback
    <2>2. status' = [status EXCEPT ![t] = "aborted"] /\ log' = [log EXCEPT ![t] = {}]
        BY <1>6 DEF rollback
    <2>3. \A u \in Trx \ {t} : Inserted(u)' = Inserted(u) /\ Deleted(u)' = Deleted(u)
        BY <2>2 DEF Inserted, Deleted, TypeOK
    <2>4. \A r \in Logged(t) : Own(t, r)
        BY <1>0, <1>000, <1>6 DEF rollback
    <2>5. \A r \in Rids : heap[r] # NoRecord => rollback_delete(r).owner = 0
        BY HeapRewrites
    <2>. SUFFICES ASSUME NEW u \in Trx, NEW r \in Rids, status'[u] = "active"
                  PROVE  /\ Own(u, r)' <=> r \in Logged(u)'
                         /\ Del(u, r)' <=> r \in Deleted(u)'
        BY DEF LogMatchesHeader
    <2>6. u # t /\ status[u] = "active"
        BY <2>2 DEF TypeOK
    <2>7. CASE r \in Logged(t)
        <3>1. r \notin Logged(u)
            BY <1>0, <2>4, <2>6, <2>7
        <3>2. heap'[r] = NoRecord \/ heap'[r].owner # u
            BY <2>1, <2>4, <2>5, <2>6, <2>7
        <3>. QED
            BY <2>3, <2>6, <3>1, <3>2
    <2>8. CASE r \notin Logged(t)
        <3>1. heap'[r] = heap[r]
            BY <2>1, <2>8
        <3>. QED
            BY <1>0, <2>3, <2>6, <3>1
    <2>. QED
        BY <2>7, <2>8
<1>7. CASE Finished \/ UNCHANGED vars
    BY <1>7 DEF Finished, vars, LogMatchesHeader, Inserted, Deleted
<1>. QED
    BY <1>1, <1>2, <1>3, <1>4, <1>5, <1>6, <1>7 DEF Next

(* Theorem: if no B+-tree insert fails, every open transaction's log names *)
(* exactly the records stamped with its id, and its DELETEs exactly those  *)
(* it marked deleted (Table::insert_record, delete_record and the commit  *)
(* and rollback handlers): commit and rollback never touch another         *)
(* transaction's row.                                                      *)
THEOREM LogMatches ==
    ASSUME MaxIndexFailures = 0
    PROVE  Spec => []LogMatchesHeader
<1>1. Init => LogMatchesHeader
    BY DEF Init, LogMatchesHeader, Inserted, Deleted
<1>2. TypeOK /\ LogMatchesHeader /\ [Next]_vars => LogMatchesHeader'
    BY LogNext
<1>. QED
    BY <1>1, <1>2, TypeInit, TypeNext, PTL DEF Spec

(* A commit step of an open transaction whose log matches the headers     *)
(* publishes its inserts and removes its deletes.                          *)
LEMMA CommitStep ==
    ASSUME TypeOK, LogMatchesHeader, [Next]_vars
    PROVE  \A t \in Trx :
             (status[t] = "active" /\ status'[t] = "committed") =>
                /\ \A r \in Inserted(t) \ Deleted(t) :
                      heap'[r] # NoRecord /\ heap'[r].owner = 0 /\ ~heap'[r].deleted
                /\ \A r \in Deleted(t) : heap'[r] = NoRecord
<1>. SUFFICES ASSUME NEW t \in Trx, status[t] = "active", status'[t] = "committed"
              PROVE  /\ \A r \in Inserted(t) \ Deleted(t) :
                        heap'[r] # NoRecord /\ heap'[r].owner = 0 /\ ~heap'[r].deleted
                     /\ \A r \in Deleted(t) : heap'[r] = NoRecord
    OBVIOUS
<1>. USE TrxAssumption, NoRecordAssumption
<1>1. \A r \in Inserted(t) \cup Deleted(t) :
         r \in Rids /\ heap[r] # NoRecord /\ heap[r].owner = t
    <2>1. Inserted(t) \cup Deleted(t) \subseteq Rids
        BY DEF TypeOK, Inserted, Deleted, LogEntry
    <2>. QED
        BY <2>1 DEF LogMatchesHeader
<1>2. \A r \in Deleted(t) : heap[r].deleted
    BY <1>1 DEF LogMatchesHeader
<1>3. \A r \in Inserted(t) \ Deleted(t) : ~heap[r].deleted
    BY <1>1 DEF LogMatchesHeader
<1>4. commit(t)
    <2>1. ASSUME NEW u \in Trx, rollback(u) PROVE FALSE
        <3>1. status' = [status EXCEPT ![u] = "aborted"]
            BY <2>1 DEF rollback
        <3>. QED
            BY <3>1 DEF TypeOK
    <2>2. ASSUME NEW u \in Trx, u # t, commit(u) PROVE FALSE
        <3>1. status' = [status EXCEPT ![u] = "committed"]
            BY <2>2 DEF commit
        <3>. QED
            BY <2>2, <3>1 DEF TypeOK
    <2>3. ASSUME NEW u \in Trx,
                 \/ \E row \in InsertRows : insert_record(u, row)
                 \/ \E cond \in Cond : delete_record(u, cond)
                 \/ \E f \in Fields, v \in UpdateVals, cond \in Cond : update_record(u, f, v, cond)
                 \/ \E n \in IndexNames, f \in Fields : create_index(u, n, f)
          PROVE  FALSE
        <3>1. status' = status
            BY <2>3 DEF insert_record, delete_record, update_record, create_index
        <3>. QED
            BY <3>1
    <2>4. ~(Finished \/ UNCHANGED vars)
        BY DEF Finished, vars
    <2>. QED
        BY <2>1, <2>2, <2>3, <2>4 DEF Next
<1>5. heap' = [r \in Rids |->
                IF r \in {s \in Deleted(t) : heap[s] # NoRecord} THEN NoRecord
                ELSE IF r \in Inserted(t) /\ heap[r] # NoRecord
                     THEN commit_insert(r)
                     ELSE heap[r]]
    BY <1>4 DEF commit
<1>6. \A r \in Inserted(t) \ Deleted(t) :
         commit_insert(r) = [owner |-> 0, deleted |-> heap[r].deleted, val |-> heap[r].val]
         /\ commit_insert(r) \in Record
    <2>. SUFFICES ASSUME NEW r \in Inserted(t) \ Deleted(t)
                  PROVE  commit_insert(r) = [owner |-> 0, deleted |-> heap[r].deleted, val |-> heap[r].val]
                         /\ commit_insert(r) \in Record
        OBVIOUS
    <2>1. commit_insert(r) = [owner |-> 0, deleted |-> heap[r].deleted, val |-> heap[r].val]
        BY <1>1, HeapRewrites
    <2>2. heap[r] \in Record
        BY <1>1 DEF TypeOK
    <2>. QED
        BY <2>1, <2>2 DEF Record
<1>7. \A r \in Inserted(t) \ Deleted(t) :
         heap'[r] # NoRecord /\ heap'[r].owner = 0 /\ ~heap'[r].deleted
    BY <1>1, <1>3, <1>5, <1>6
<1>8. \A r \in Deleted(t) : heap'[r] = NoRecord
    BY <1>1, <1>5
<1>. QED
    BY <1>7, <1>8

(* Theorem: with no B+-tree insert failing, every COMMIT makes the         *)
(* transaction's inserts visible and removes its deletes from the heap     *)
(* (Table::commit_insert, Table::commit_delete).                           *)
THEOREM CommitPublishes ==
    ASSUME MaxIndexFailures = 0
    PROVE  Spec => CommitApplied
<1>1. TypeOK /\ LogMatchesHeader /\ [Next]_vars =>
        [\A t \in Trx :
           (status[t] = "active" /\ status'[t] = "committed") =>
              /\ \A r \in Inserted(t) \ Deleted(t) :
                    heap'[r] # NoRecord /\ heap'[r].owner = 0 /\ ~heap'[r].deleted
              /\ \A r \in Deleted(t) : heap'[r] = NoRecord]_vars
    BY CommitStep
<1>2. Spec => []LogMatchesHeader
    BY LogMatches
<1>. QED
    BY <1>1, <1>2, TypeCorrect, PTL DEF CommitApplied, Spec

-----------------------------------------------------------------------------
(* Slots are freed only at a transaction's end: with every B+-tree insert  *)
(* succeeding, INSERT fills a free slot, DELETE and UPDATE rewrite records *)
(* in place, and only COMMIT and ROLLBACK of an open transaction put       *)
(* NoRecord in an occupied slot.                                           *)
LEMMA RemoveStep ==
    ASSUME MaxIndexFailures = 0, TypeOK, [Next]_vars
    PROVE  \A r \in Rids :
             (heap[r] # NoRecord /\ heap'[r] = NoRecord) =>
                \E t \in Trx : status[t] = "active" /\ status'[t] # "active"
<1>. SUFFICES ASSUME NEW r \in Rids, heap[r] # NoRecord, heap'[r] = NoRecord
              PROVE  \E t \in Trx : status[t] = "active" /\ status'[t] # "active"
    OBVIOUS
<1>. USE NoRecordAssumption
<1>0. ~(failures < MaxIndexFailures)
    BY DEF TypeOK
<1>1. ASSUME NEW t \in Trx, NEW row \in InsertRows, insert_record(t, row)
      PROVE  FALSE
    <2>. DEFINE s0 == Min({s \in Rids : heap[s] = NoRecord})
                rec == [owner |-> t, deleted |-> FALSE, val |-> row]
    <2>1. heap' = [heap EXCEPT ![s0] = rec]
        BY <1>1, <1>0, Zenon DEF insert_record
    <2>2. rec \in Record
        BY InputsAssumption DEF Record
    <2>. QED
        BY <2>1, <2>2 DEF TypeOK
<1>2. ASSUME NEW t \in Trx, NEW cond \in Cond, delete_record(t, cond)
      PROVE  FALSE
    <2>. DEFINE R == scan_record(t, cond)
    <2>1. \A s \in Rids : heap'[s] = IF s \in R THEN [heap[s] EXCEPT !.owner = t, !.deleted = TRUE]
                                    ELSE heap[s]
        BY <1>2, Zenon DEF delete_record
    <2>2. CASE r \in R
        <3>1. heap[r] \in Record
            BY <2>2, ScanFacts
        <3>2. [heap[r] EXCEPT !.owner = t, !.deleted = TRUE]
                = [owner |-> t, deleted |-> TRUE, val |-> heap[r].val]
            BY <3>1, SetHeader
        <3>3. heap'[r] = [owner |-> t, deleted |-> TRUE, val |-> heap[r].val]
            BY <2>1, <2>2, <3>2, Zenon
        <3>. QED
            BY <3>1, <3>3 DEF Record
    <2>3. CASE r \notin R
        BY <2>1, <2>3
    <2>. QED
        BY <2>2, <2>3
<1>3. ASSUME NEW t \in Trx, NEW f \in Fields, NEW v \in UpdateVals,
             NEW cond \in Cond, update_record(t, f, v, cond)
      PROVE  FALSE
    <2>. DEFINE Done == UpdateDone(t, f, v, cond)
    <2>1. \/ heap' = [s \in Rids |-> IF s \in Done THEN Updated(s, f, v) ELSE heap[s]]
          \/ failures < MaxIndexFailures
        BY <1>3, Zenon DEF update_record
    <2>2. heap'[r] = IF r \in Done THEN Updated(r, f, v) ELSE heap[r]
        BY <2>1, <1>0
    <2>3. CASE r \in Done
        <3>1. Updated(r, f, v) = [owner |-> heap[r].owner, deleted |-> heap[r].deleted,
                                  val |-> [heap[r].val EXCEPT ![f] = v]]
            BY HeapRewrites
        <3>2. heap[r] \in Record
            BY DEF TypeOK
        <3>3. [heap[r].val EXCEPT ![f] = v] \in Row
            BY <3>2, InputsAssumption DEF Record, Row, Cells
        <3>. QED
            BY <2>2, <2>3, <3>1, <3>2, <3>3 DEF Record
    <2>4. CASE r \notin Done
        BY <2>2, <2>4
    <2>. QED
        BY <2>3, <2>4
<1>4. ASSUME NEW t \in Trx, NEW n \in IndexNames, NEW f \in Fields,
             create_index(t, n, f)
      PROVE  FALSE
    BY <1>4 DEF create_index
<1>5. ASSUME NEW t \in Trx, commit(t) \/ rollback(t)
      PROVE  status[t] = "active" /\ status'[t] # "active"
    BY <1>5 DEF commit, rollback, TypeOK
<1>6. ~(Finished \/ UNCHANGED vars)
    BY DEF Finished, vars
<1>. QED
    BY <1>1, <1>2, <1>3, <1>4, <1>5, <1>6 DEF Next

(* Theorem (spec 4.6 and 5): if no B+-tree insert fails, a record leaves   *)
(* the heap only when a transaction that was open ends in that step, by    *)
(* commit_delete or rollback_insert; no INSERT, DELETE or UPDATE statement *)
(* removes one on its own.                                                  *)
THEOREM RowsRemoved ==
    ASSUME MaxIndexFailures = 0
    PROVE  Spec => RowsRemovedOnlyAtTrxEnd
<1>1. TypeOK /\ [Next]_vars =>
        [\A r \in Rids :
           (heap[r] # NoRecord /\ heap'[r] = NoRecord) =>
              \E t \in Trx : status[t] = "active" /\ status'[t] # "active"]_vars
    BY RemoveStep
<1>. QED
    BY <1>1, TypeCorrect, PTL DEF RowsRemovedOnlyAtTrxEnd, Spec

=============================================================================
