------------------------------- MODULE Table -------------------------------
(***************************************************************************)
(* One table of the storage kernel: the record heap, the B+-tree indexes   *)
(* kept in Table::indexes_, and the per-transaction operation log, as they *)
(* are driven by src/src/observer/storage/common/table.cpp.                *)
(*                                                                         *)
(* Every executor statement runs to completion before the next one starts *)
(* (single-threaded engine), so each Table operation is one atomic action; *)
(* transactions interleave at statement boundaries.  A scan that stops     *)
(* early (a failed index delete, a dangling RID) is modelled by the set of *)
(* records it reached, computed in closed form from the scan order (RID    *)
(* order for the heap, key then RID for an index).                        *)
(*                                                                         *)
(* The record manager, the B+-tree and the transaction class are not       *)
(* under src/: their contracts are taken from spec.md (sections 4.2, 4.3, *)
(* 4.6).  A record's payload is abstracted to one cell per user column, a *)
(* cell being a literal value or Null (null bitmap bit set); an index      *)
(* entry is a <<key, rid>> pair, the key being the indexed column's cell.  *)
(***************************************************************************)
EXTENDS Naturals, Sequences, FiniteSets, FiniteSetsExt, Functions

CONSTANTS
    Fields,           \* user columns of the table (after the sys fields)
    Nullable,         \* the columns declared NULLABLE
    Vals,             \* literal values the parser can deliver, of any type
    Legal,            \* Legal[f]: literals of f's type and within its length
    Null,             \* the NULL literal (Value.type = NULLS)
    NoRecord,         \* content of a free heap slot
    NoCond,           \* an UPDATE / DELETE without WHERE (filter == nullptr)
    Trx,              \* transaction ids, each used by one transaction
    MaxRid,           \* number of record slots of the heap file (bound)
    IndexNames,       \* names CREATE INDEX may use (may be column names)
    InsertRows,       \* rows INSERT may deliver
    UpdateVals,       \* values UPDATE ... SET may assign
    MaxIndexFailures  \* bound on failing B+-tree insert_entry calls

ASSUME FieldsAssumption == Fields # {} /\ Nullable \subseteq Fields
ASSUME LegalAssumption == Legal \in [Fields -> SUBSET Vals]
ASSUME NullAssumption == Null \notin Vals
ASSUME TrxAssumption == Trx \subseteq Nat \ {0}
ASSUME MaxRidAssumption == MaxRid \in Nat \ {0}
ASSUME FailuresAssumption == MaxIndexFailures \in Nat

Rids == 1..MaxRid
Cells == Vals \cup {Null}
Row == [Fields -> Cells]

ASSUME InputsAssumption ==
    /\ InsertRows \subseteq Row
    /\ UpdateVals \subseteq Cells

(* The record header of spec 4.6: owning transaction (0 = committed) and   *)
(* the deleted flag, followed by the user columns.                         *)
Record == [owner : {0} \cup Trx, deleted : BOOLEAN, val : Row]

(* A free slot is told apart from every record (the bitmap bit of the     *)
(* record manager's page).                                                 *)
ASSUME NoRecordAssumption == NoRecord \notin Record
Entry == Cells \X Rids
Index == [name : IndexNames, field : Fields, entries : SUBSET Entry]
LogEntry == [op : {"INSERT", "DELETE"}, rid : Rids]
Cond == [field : Fields, val : Vals] \cup {NoCond}

VARIABLES
    heap,      \* heap[r]: the record in slot r, or NoRecord
    indexes,   \* Table::indexes_, in creation order
    status,    \* status[t]: "active", "committed" or "aborted"
    log,       \* log[t]: the operations transaction t has logged
    failures   \* B+-tree insert_entry failures so far

vars == <<heap, indexes, status, log, failures>>

-----------------------------------------------------------------------------
(* Helpers translated from Table and the components it calls.              *)

Key(ix, rec) == rec.val[ix.field]

(* Mutant: is_legal without the nullability check.                        *)
is_legal_nonull(v, f) == IF v = Null THEN TRUE ELSE v \in Legal[f]

(* Table::is_legal: NULL only into a nullable column, otherwise the type   *)
(* must match and a CHARS value must fit the column.                       *)
is_legal(v, f) == IF v = Null THEN f \in Nullable ELSE v \in Legal[f]

(* Trx::is_visible (spec 4.6): committed and not deleted, or written by t  *)
(* and not deleted by it.                                                  *)
is_visible(t, r) ==
    /\ heap[r] # NoRecord
    /\ ~heap[r].deleted
    /\ heap[r].owner \in {0, t}

(* DefaultConditionFilter::filter for "field = literal": a NULL cell never *)
(* matches.                                                                *)
Matches(rec, cond) == cond = NoCond \/ rec.val[cond.field] = cond.val

(* Table::find_index: the positions of the index whose NAME is n.          *)
find_index(n) == {i \in DOMAIN indexes : indexes[i].name = n}

(* Table::find_index_for_scan: an index on the column the filter binds.    *)
find_index_for_scan(cond) ==
    IF cond = NoCond THEN {}
    ELSE {i \in DOMAIN indexes : indexes[i].field = cond.field}

(* Table::scan_record_by_index: the scanner yields the entries with key    *)
(* cond.val in RID order; each RID is fetched with get_record, and the     *)
(* first one whose slot is free ends the scan with an error; a fetched     *)
(* record is handed over only if visible and matching.                     *)
scan_record_by_index(t, cond, ix) ==
    LET hits == {r \in Rids : <<cond.val, r>> \in ix.entries}
        stop == Min({r \in hits : heap[r] = NoRecord} \cup {MaxRid + 1})
    IN  {r \in hits : r < stop /\ is_visible(t, r) /\ Matches(heap[r], cond)}

(* Mutant: the heap scan without its trx->is_visible check.               *)
scan_record_unchecked(t, cond) ==
    LET ip == find_index_for_scan(cond)
    IN  IF ip = {}
        THEN {r \in Rids : heap[r] # NoRecord /\ ~heap[r].deleted /\ Matches(heap[r], cond)}
        ELSE scan_record_by_index(t, cond, indexes[CHOOSE i \in ip : TRUE])

(* Table::scan_record: the records handed to the record reader, through an *)
(* index on the filtered column if there is one, else by a heap scan that  *)
(* reads every visible matching record in RID order.                      *)
scan_record(t, cond) ==
    LET ip == find_index_for_scan(cond)
    IN  IF ip = {}
        THEN {r \in Rids : is_visible(t, r) /\ Matches(heap[r], cond)}
        ELSE scan_record_by_index(t, cond, indexes[CHOOSE i \in ip : TRUE])

(* Table::delete_entry_of_indexes(record, rid, false): walks indexes_ in   *)
(* order and stops at the first index that has no entry for the record.    *)
(* DelStop is the position of that index (Len + 1 if none).                *)
DelStop(rec, r) ==
    Min({i \in DOMAIN indexes : <<Key(indexes[i], rec), r>> \notin indexes[i].entries}
        \cup {Len(indexes) + 1})

(* The indexes after delete_entry_of_indexes(heap[r], r, false) for every  *)
(* r in R.  Entries of distinct RIDs are distinct, so the calls commute.   *)
delete_entry_of_indexes(R) ==
    [i \in DOMAIN indexes |->
        [indexes[i] EXCEPT !.entries =
            @ \ {<<Key(indexes[i], heap[r]), r>> : r \in {r \in R : i < DelStop(heap[r], r)}}]]

(* Table::insert_entry_of_indexes(record, rid) when every insert succeeds. *)
insert_entry_of_indexes(rec, r) ==
    [i \in DOMAIN indexes |->
        [indexes[i] EXCEPT !.entries = @ \cup {<<Key(indexes[i], rec), r>>}]]

(* The RIDs transaction t has logged an INSERT, or a DELETE, of.           *)
Inserted(t) == {e.rid : e \in {e \in log[t] : e.op = "INSERT"}}
Deleted(t) == {e.rid : e \in {e \in log[t] : e.op = "DELETE"}}

-----------------------------------------------------------------------------
Init ==
    /\ heap = [r \in Rids |-> NoRecord]
    /\ indexes = <<>>
    /\ status = [t \in Trx |-> "active"]
    /\ log = [t \in Trx |-> {}]
    /\ failures = 0

(* Table::make_record: every value passes is_legal for its column (the    *)
(* arity check of value_num is implied: a row has one cell per column).    *)
make_record(row) == \A f \in Fields : is_legal(row[f], f)

(* Table::insert_record(trx, values): make_record checks every value with  *)
(* is_legal; the record, stamped with t by init_trx_info, goes to the first *)
(* free slot and an INSERT is logged; then every index gets an entry.  If   *)
(* an index insert fails, the entries are removed from every index and the  *)
(* slot is freed again, but the logged INSERT stays.                        *)
insert_record(t, row) ==
    /\ status[t] = "active"
    /\ make_record(row)
    /\ \E r \in Rids : heap[r] = NoRecord
    /\ LET r == Min({s \in Rids : heap[s] = NoRecord})
           rec == [owner |-> t, deleted |-> FALSE, val |-> row]
       IN  /\ \/ /\ heap' = [heap EXCEPT ![r] = rec]
                 /\ indexes' = insert_entry_of_indexes(rec, r)
                 /\ UNCHANGED failures
              \/ /\ indexes # <<>>
                 /\ failures < MaxIndexFailures
                 /\ indexes' = [i \in DOMAIN indexes |->
                                  [indexes[i] EXCEPT !.entries =
                                      @ \ {<<Key(indexes[i], rec), r>>}]]
                 /\ failures' = failures + 1
                 /\ UNCHANGED heap
           /\ log' = [log EXCEPT ![t] = @ \cup {[op |-> "INSERT", rid |-> r]}]
    /\ UNCHANGED status

(* Mutant: the trx == nullptr branch, records removed on the spot.       *)
delete_record_direct(t, cond) ==
    /\ status[t] = "active"
    /\ LET R == scan_record(t, cond)
       IN  /\ heap' = [r \in Rids |->
                         IF r \in R /\ DelStop(heap[r], r) = Len(indexes) + 1 THEN NoRecord
                         ELSE heap[r]]
           /\ indexes' = delete_entry_of_indexes(R)
    /\ UNCHANGED <<status, log, failures>>

(* Table::delete_record(trx, filter): every record the scan reaches is     *)
(* handed to Trx::delete_record, which stamps it deleted by t in place and  *)
(* logs a DELETE; indexes are left alone until commit.                      *)
delete_record(t, cond) ==
    /\ status[t] = "active"
    /\ LET R == scan_record(t, cond)
       IN  /\ heap' = [r \in Rids |->
                         IF r \in R THEN [heap[r] EXCEPT !.owner = t, !.deleted = TRUE]
                         ELSE heap[r]]
           /\ log' = [log EXCEPT ![t] = @ \cup {[op |-> "DELETE", rid |-> r] : r \in R}]
    /\ UNCHANGED <<indexes, status, failures>>

(* The record in slot r with column attr set to v (the memcpy of          *)
(* Table::update_record(trx, record, attr, value)).                        *)
Updated(r, attr, v) == [heap[r] EXCEPT !.val[attr] = v]

(* The index named attr has no entry for the record in slot r, so the      *)
(* delete_entry of update_record(trx, record, attr, value) fails.          *)
DelFails(attr, r) ==
    \E i \in find_index(attr) : <<Key(indexes[i], heap[r]), r>> \notin indexes[i].entries

(* The records the statement overwrites: the scanned ones, in RID order,   *)
(* before the first whose index entry is missing; none if the value is     *)
(* illegal, since the first record already fails is_legal.                *)
UpdateDone(t, attr, v, cond) ==
    LET R == scan_record(t, cond)
        stop == Min({r \in R : DelFails(attr, r)} \cup {MaxRid + 1})
    IN  IF is_legal(v, attr) THEN {r \in R : r < stop} ELSE {}

(* The records whose entry the statement removed: the overwritten ones, or *)
(* for an illegal value the first scanned record if its entry was there.   *)
UpdateUnindexed(t, attr, v, cond) ==
    LET R == scan_record(t, cond)
    IN  IF is_legal(v, attr) THEN UpdateDone(t, attr, v, cond)
        ELSE {r \in R : (\A s \in R : r <= s) /\ ~DelFails(attr, r)}

(* The index named attr after update_record removed the entries of the    *)
(* records in U (index->delete_entry) and put back those of the records in *)
(* D with their new value (index->insert_entry).                           *)
update_index_entries(attr, v, D, U) ==
    [i \in DOMAIN indexes |->
        IF i \in find_index(attr)
        THEN [indexes[i] EXCEPT !.entries =
                (@ \ {<<Key(indexes[i], heap[r]), r>> : r \in U})
                \cup {<<Key(indexes[i], Updated(r, attr, v)), r>> : r \in D}]
        ELSE indexes[i]]

(* Table::update_record(trx, attr, value, conditions): for each record the *)
(* scan reaches, in RID order, update_record(trx, record, attr, value)     *)
(* removes its entry from the index NAMED attr (if any; a missing entry    *)
(* ends the statement), then checks is_legal (an illegal value ends the    *)
(* statement after that removal), overwrites the cell in place and puts    *)
(* the entry back.  If that insert_entry fails at record x, the statement  *)
(* removes x's entries from every index and x itself from the heap, and    *)
(* ends.  The transaction is not involved (the "if (false)").              *)
update_record(t, attr, v, cond) ==
    /\ status[t] = "active"
    /\ LET Done == UpdateDone(t, attr, v, cond)
       IN  \/ /\ heap' = [r \in Rids |-> IF r \in Done THEN Updated(r, attr, v) ELSE heap[r]]
              /\ indexes' = update_index_entries(attr, v, Done, UpdateUnindexed(t, attr, v, cond))
              /\ UNCHANGED failures
           \/ \E x \in Done :
                 /\ find_index(attr) # {}
                 /\ failures < MaxIndexFailures
                 /\ LET Before == {r \in Done : r < x}
                        Moved == update_index_entries(attr, v, Before, Before \cup {x})
                    IN  /\ heap' = [r \in Rids |->
                                     IF r \in Before THEN Updated(r, attr, v)
                                     ELSE IF r = x THEN NoRecord ELSE heap[r]]
                        /\ indexes' = [i \in DOMAIN indexes |->
                                         [Moved[i] EXCEPT !.entries =
                                             @ \ {<<Key(indexes[i], Updated(x, attr, v)), x>>}]]
                 /\ failures' = failures + 1
    /\ UNCHANGED <<status, log>>

(* Table::create_index(trx, name, attr): refused if the name or the column *)
(* already has an index; otherwise a new B+-tree gets an entry for every   *)
(* record a scan WITH t's visibility reaches, and is appended to indexes_. *)
create_index(t, n, f) ==
    /\ status[t] = "active"
    /\ \A i \in DOMAIN indexes : indexes[i].name # n /\ indexes[i].field # f
    /\ indexes' = Append(indexes,
                    [name |-> n, field |-> f,
                     entries |-> {<<heap[r].val[f], r>> : r \in {r \in Rids : is_visible(t, r)}}])
    /\ UNCHANGED <<heap, status, log, failures>>

(* Table::commit_insert: Trx::commit_insert clears the owner of the record *)
(* found in the slot.                                                      *)
commit_insert(r) == [heap[r] EXCEPT !.owner = 0]

(* Table::rollback_delete: Trx::rollback_delete resets the header of the   *)
(* record found in the slot to committed and not deleted.                  *)
rollback_delete(r) == [heap[r] EXCEPT !.owner = 0, !.deleted = FALSE]

(* Mutant: commit_delete returns on an index error, like rollback_insert.  *)
commit_stop_on_index_error(t) ==
    /\ status[t] = "active"
    /\ LET Gone == {r \in Deleted(t) : heap[r] # NoRecord}
       IN  /\ heap' = [r \in Rids |->
                         IF r \in Gone /\ DelStop(heap[r], r) = Len(indexes) + 1 THEN NoRecord
                         ELSE IF r \in Inserted(t) /\ heap[r] # NoRecord
                              THEN commit_insert(r)
                              ELSE heap[r]]
           /\ indexes' = delete_entry_of_indexes(Gone)
    /\ status' = [status EXCEPT ![t] = "committed"]
    /\ log' = [log EXCEPT ![t] = {}]
    /\ UNCHANGED failures

(* Trx::commit (spec 4.6) over t's log: Table::commit_insert clears the    *)
(* owner of whatever record is in the slot; Table::commit_delete removes   *)
(* the record from the indexes (delete_entry_of_indexes, error only        *)
(* logged) and then from the heap.  A free slot fails get_record and is   *)
(* skipped.                                                                *)
commit(t) ==
    /\ status[t] = "active"
    /\ LET Gone == {r \in Deleted(t) : heap[r] # NoRecord}
       IN  /\ heap' = [r \in Rids |->
                         IF r \in Gone THEN NoRecord
                         ELSE IF r \in Inserted(t) /\ heap[r] # NoRecord
                              THEN commit_insert(r)
                              ELSE heap[r]]
           /\ indexes' = delete_entry_of_indexes(Gone)
    /\ status' = [status EXCEPT ![t] = "committed"]
    /\ log' = [log EXCEPT ![t] = {}]
    /\ UNCHANGED failures

(* Trx::rollback (spec 4.6), log in reverse: Table::rollback_delete resets *)
(* the header to committed and not deleted; then Table::rollback_insert    *)
(* removes the record from the indexes and, only if every index had its    *)
(* entry, from the heap.                                                   *)
rollback(t) ==
    /\ status[t] = "active"
    /\ LET Undo == {r \in Inserted(t) : heap[r] # NoRecord}
           Freed == {r \in Undo : DelStop(heap[r], r) = Len(indexes) + 1}
       IN  /\ heap' = [r \in Rids |->
                         IF r \in Freed THEN NoRecord
                         ELSE IF r \in Deleted(t) /\ heap[r] # NoRecord
                              THEN rollback_delete(r)
                              ELSE heap[r]]
           /\ indexes' = delete_entry_of_indexes(Undo)
    /\ status' = [status EXCEPT ![t] = "aborted"]
    /\ log' = [log EXCEPT ![t] = {}]
    /\ UNCHANGED failures

(* Every transaction has ended: the engine idles.                          *)
Finished ==
    /\ \A t \in Trx : status[t] # "active"
    /\ UNCHANGED vars

Next ==
    \/ \E t \in Trx :
        \/ \E row \in InsertRows : insert_record(t, row)
        \/ \E cond \in Cond : delete_record(t, cond)
        \/ \E f \in Fields, v \in UpdateVals, cond \in Cond : update_record(t, f, v, cond)
        \/ \E n \in IndexNames, f \in Fields : create_index(t, n, f)
        \/ commit(t)
        \/ rollback(t)
    \/ Finished

Spec == Init /\ [][Next]_vars

-----------------------------------------------------------------------------
(* Properties.                                                             *)

TypeOK ==
    /\ heap \in [Rids -> Record \cup {NoRecord}]
    /\ indexes \in Seq(Index)
    /\ status \in [Trx -> {"active", "committed", "aborted"}]
    /\ log \in [Trx -> SUBSET LogEntry]
    /\ failures \in 0..MaxIndexFailures

(* Spec 3, invariant 4 and the column types: every cell on disk is NULL    *)
(* only in a nullable column and otherwise a value of the column's type    *)
(* and length, whichever of INSERT (make_record) and UPDATE                *)
(* (update_record) wrote it.                                               *)
StoredValuesLegal ==
    \A r \in Rids : heap[r] # NoRecord =>
        \A f \in Fields :
            \/ heap[r].val[f] = Null /\ f \in Nullable
            \/ heap[r].val[f] \in Legal[f]

(* The log of an open transaction accounts for exactly the records it has  *)
(* stamped: a record carries owner t iff t logged an operation on it, and  *)
(* it is marked deleted iff t logged a DELETE of it.  Commit and rollback  *)
(* rely on this to touch only t's records (Table::insert_record,           *)
(* delete_record and the commit and rollback handlers).                     *)
LogMatchesHeader ==
    \A t \in Trx, r \in Rids : status[t] = "active" =>
        /\ (heap[r] # NoRecord /\ heap[r].owner = t) <=> r \in Inserted(t) \cup Deleted(t)
        /\ (heap[r] # NoRecord /\ heap[r].owner = t /\ heap[r].deleted) <=> r \in Deleted(t)

(* Spec 8: after COMMIT every record the transaction inserted (and did not *)
(* delete) is visible to every transaction, and every record it deleted is *)
(* gone from the heap (Table::commit_insert, Table::commit_delete).        *)
CommitApplied ==
    [][\A t \in Trx :
         (status[t] = "active" /\ status'[t] = "committed") =>
            /\ \A r \in Inserted(t) \ Deleted(t) :
                  heap'[r] # NoRecord /\ heap'[r].owner = 0 /\ ~heap'[r].deleted
            /\ \A r \in Deleted(t) : heap'[r] = NoRecord]_vars

(* The rows a heap scan with the same filter would return.                 *)
HeapScan(t, cond) == {r \in Rids : is_visible(t, r) /\ Matches(heap[r], cond)}

(* Spec 8: a scan through the index of a column returns the same records   *)
(* as a full heap scan, for every transaction and every literal            *)
(* (Table::scan_record choosing scan_record_by_index).                     *)
IndexScanComplete ==
    \A t \in Trx, i \in DOMAIN indexes, v \in Vals :
        status[t] = "active" =>
            LET cond == [field |-> indexes[i].field, val |-> v]
            IN  scan_record(t, cond) = HeapScan(t, cond)

(* The committed rows: owner 0 and not deleted.                            *)
CommittedRows == {r \in Rids : heap[r] # NoRecord /\ heap[r].owner = 0 /\ ~heap[r].deleted}

(* Spec 8: ROLLBACK of t leaves the committed rows as they were, plus the  *)
(* committed rows t had deleted (Table::rollback_insert, rollback_delete). *)
RollbackRestoresCommitted ==
    [][\A t \in Trx :
         (status[t] = "active" /\ status'[t] = "aborted") =>
            CommittedRows' = CommittedRows \cup (Deleted(t) \ Inserted(t))]_vars

(* Spec 4.6 and 5: a record leaves the heap only through a transaction's  *)
(* end, commit_delete at COMMIT or rollback_insert at ROLLBACK; no         *)
(* statement removes a record on its own (Table::update_record's and       *)
(* Table::insert_record's compensation paths, delete_record without trx).  *)
RowsRemovedOnlyAtTrxEnd ==
    [][\A r \in Rids :
         (heap[r] # NoRecord /\ heap'[r] = NoRecord) =>
            \E t \in Trx : status[t] = "active" /\ status'[t] # "active"]_vars


(* Spec 3, index invariant 1: every RID that appears in an entry of any   *)
(* index names a live record of the heap.  Table::commit_delete frees the *)
(* heap slot even when delete_entry_of_indexes stopped at an index that    *)
(* lacked the record's entry, so the later indexes keep theirs.            *)
IndexEntriesLive ==
    \A i \in DOMAIN indexes : \A e \in indexes[i].entries : heap[e[2]] # NoRecord
=============================================================================
