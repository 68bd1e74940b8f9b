-------------------------- MODULE ConcurrentTable --------------------------
(***************************************************************************)
(* The table of Table under several threads.  Every connection and every   *)
(* job has a thread of its own (storage_main.cpp, job_queue.cpp), they     *)
(* share the executor and its tables, and no lock is taken anywhere on the *)
(* way to insert_row, update_row and delete_row.  Here insert_row and      *)
(* update_row are three steps: the checks, the row (with the old entries   *)
(* taken out of the indexes first), the new entries in the indexes.        *)
(* delete_row is one step, and so is a refused call, which changes         *)
(* nothing.                                                                *)
(*                                                                         *)
(* One step of a call is still indivisible.  In the code it is not, and    *)
(* two threads inside the same container, or one that goes on with a row   *)
(* another has deleted, are undefined behaviour; the model leaves that     *)
(* out, and what goes wrong here goes wrong without it.                    *)
(***************************************************************************)
EXTENDS Table

CONSTANTS Threads

VARIABLE calls   \* calls[t]: the call thread t is in and how far it has got

concurrentVars == <<tableVars, calls>>

NoCall == [op |-> "none"]

ConcurrentInit == TableInit /\ calls = [t \in Threads |-> NoCall]

Entered(t, call) == calls' = [calls EXCEPT ![t] = call]
Returned(t) == calls' = [calls EXCEPT ![t] = NoCall]

CheckInsert(t, row) ==
  /\ calls[t] = NoCall
  /\ ~InsertRefused(row)
  /\ nextRid <= MaxRid
  /\ Entered(t, [op |-> "store", row |-> row])
  /\ UNCHANGED tableVars

StoreRow(t) ==
  /\ calls[t].op = "store"
  /\ nextRid <= MaxRid
  /\ rows' = [r \in DOMAIN rows \cup {nextRid} |->
                IF r = nextRid THEN calls[t].row ELSE rows[r]]
  /\ nextRid' = nextRid + 1
  /\ Entered(t, [op |-> "index", rid |-> nextRid])
  /\ UNCHANGED <<index, reply>>

(* index_insert_row is handed a reference to the stored row.                *)
IndexRow(t) ==
  /\ calls[t].op = "index"
  /\ calls[t].rid \in DOMAIN rows
  /\ index' = IndexInsert(index, calls[t].rid, rows[calls[t].rid])
  /\ Returned(t)
  /\ UNCHANGED <<rows, nextRid, reply>>

CheckUpdate(t, rid, row) ==
  /\ calls[t] = NoCall
  /\ ~UpdateRefused(rid, row)
  /\ Entered(t, [op |-> "replace", rid |-> rid, row |-> row, old |-> rows[rid]])
  /\ UNCHANGED tableVars

ReplaceRow(t) ==
  LET c == calls[t]
  IN  /\ c.op = "replace"
      /\ c.rid \in DOMAIN rows
      /\ index' = IndexRemove(index, c.rid, c.old)
      /\ rows' = [rows EXCEPT ![c.rid] = c.row]
      /\ Entered(t, [op |-> "index", rid |-> c.rid])
      /\ UNCHANGED <<nextRid, reply>>

DeleteStored(t, rid) == calls[t] = NoCall /\ DeleteRow(rid) /\ UNCHANGED calls

ConcurrentNext ==
  \E t \in Threads :
    \/ \E row \in Rows : CheckInsert(t, row)
    \/ StoreRow(t) \/ IndexRow(t)
    \/ \E rid \in Rids, row \in Rows : CheckUpdate(t, rid, row)
    \/ ReplaceRow(t)
    \/ \E rid \in Rids : DeleteStored(t, rid)

ConcurrentSpec == ConcurrentInit /\ [][ConcurrentNext]_concurrentVars

-----------------------------------------------------------------------------
(* Between calls no two rows agree on an INDEXED column: what insert_row    *)
(* refuses as "duplicate INDEXED value for column" (table.cpp:80) never     *)
(* gets in.                                                                 *)
UniqueBetweenCalls == (\A t \in Threads : calls[t] = NoCall) => IndexedUnique
=============================================================================
