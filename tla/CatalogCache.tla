---------------------------- MODULE CatalogCache ----------------------------
(***************************************************************************)
(* Products of one store in the catalog service: the row of PostgreSQL,    *)
(* its copy in the SKU cache of Redis (24 hours) and its document in       *)
(* OpenSearch.  A lookup reads the cache, then the row, and fills the      *)
(* cache; an upsert writes the row, drops the copy and indexes the         *)
(* document.  Each step is one call; nothing holds two of them together.   *)
(* A product is abstracted to the request its columns come from (version), *)
(* its stock_quantity and its sync_seq.                                    *)
(***************************************************************************)
EXTENDS Integers, FiniteSets

CONSTANTS
  None,
  Barcodes,
  Slots,      \* requests the service handles at a time
  MaxWrites,  \* bound on the requests for a full write of a row
  MaxStock,   \* bound on stock_quantity
  Scenarios   \* sets of disturbances: "overlap" (requests side by side),
              \* "redis", "db", "search" (calls that fail), "crash",
              \* "expiry" (the cache forgets), "outside" (the admin-cli
              \* and the order service write rows), "accepted" (PostgreSQL
              \* takes the statement of Upsert, see there)

ASSUME CatalogAssumption ==
  /\ IsFiniteSet(Barcodes) /\ IsFiniteSet(Slots)
  /\ MaxWrites \in Nat /\ MaxStock \in Nat
  /\ None \notin [version : Nat, stock : Nat, seq : Nat] \union Barcodes

VARIABLES
  faults,   \* the disturbances of this behaviour
  row,      \* per barcode: the row of products, or None
  sku,      \* per barcode: the copy in sku:{store}:{barcode}, or None
  index,    \* per barcode: the document of the index, or None
  pc,       \* per slot: the next step of its request, or "idle"
  job,      \* per slot: its barcode and the product it holds
  said,     \* per slot: the status of its last answer, 0 before the first
  writes,   \* requests for a full write of a row so far: the last version
  written,  \* history: per barcode, the rows Upsert has returned
  acked     \* history: per barcode, the sync_seq below which no copy is left
            \* (the row's at an Invalidate that worked while no lookup of
            \* the barcode was between its read of the row and its Set)

kept == <<faults, writes, written, acked>>
vars == <<row, sku, index, pc, job, said, kept>>

Product == [version : 1..MaxWrites, stock : 0..MaxStock, seq : Nat]
NoJob == [barcode |-> None, product |-> None]
Labels == {"idle", "get", "row", "set", "upsert", "del", "index"}

(* Type invariant: every variable keeps the shape of the state it models,  *)
(* and a request past its database call holds a product.                   *)
TypeOK ==
  /\ faults \in Scenarios
  /\ {row, sku, index} \subseteq [Barcodes -> Product \union {None}]
  /\ pc \in [Slots -> Labels]
  /\ job \in [Slots -> [barcode : Barcodes \union {None}, product : Product \union {None}]]
  /\ said \in [Slots -> {0, 200, 400, 404, 500}]
  /\ writes \in 0..MaxWrites
  /\ written \in [Barcodes -> SUBSET Product]
  /\ acked \in [Barcodes -> Nat]
  /\ \A r \in Slots :
       /\ pc[r] # "idle" <=> job[r].barcode # None
       /\ pc[r] \in {"set", "upsert", "del", "index"} => job[r].product # None

Init ==
  /\ faults \in Scenarios
  /\ row = [b \in Barcodes |-> None] /\ sku = row /\ index = row
  /\ pc = [r \in Slots |-> "idle"] /\ job = [r \in Slots |-> NoJob]
  /\ said = [r \in Slots |-> 0]
  /\ writes = 0
  /\ written = [b \in Barcodes |-> {}] /\ acked = [b \in Barcodes |-> 0]

Fails(what) == what \in faults

(* Slot r goes on with product p. *)
Goes(r, label, p) ==
  /\ pc' = [pc EXCEPT ![r] = label] /\ job' = [job EXCEPT ![r].product = p]
  /\ UNCHANGED said

Answers(r, status) ==
  /\ pc' = [pc EXCEPT ![r] = "idle"] /\ job' = [job EXCEPT ![r] = NoJob]
  /\ said' = [said EXCEPT ![r] = status]

Begin(r, label, b, p) ==
  /\ pc[r] = "idle"
  /\ "overlap" \in faults \/ \A q \in Slots : pc[q] = "idle"
  /\ pc' = [pc EXCEPT ![r] = label]
  /\ job' = [job EXCEPT ![r] = [barcode |-> b, product |-> p]]
  /\ said' = [said EXCEPT ![r] = 0]

-----------------------------------------------------------------------------
(* Lookup; a request with a store_id that is none or without a barcode is  *)
(* refused before anything happens.                                        *)
Lookup(r) ==
  /\ \E b \in Barcodes : Begin(r, "get", b, None)
  /\ UNCHANGED <<row, sku, index, kept>>

(* Mutant of CacheGet: an error of Redis is the end of the lookup. *)
CacheGetStrict(r) ==
  /\ pc[r] = "get"
  /\ \/ sku[job[r].barcode] # None /\ Answers(r, 200)
     \/ sku[job[r].barcode] = None /\ Goes(r, "row", None)
     \/ Fails("redis") /\ Answers(r, 500)
  /\ UNCHANGED <<row, sku, index, kept>>

(* Lookup asks the cache; an error, like a miss, leads to the database,    *)
CacheGet(r) ==
  /\ pc[r] = "get"
  /\ \/ sku[job[r].barcode] # None /\ Answers(r, 200)
     \/ (sku[job[r].barcode] = None \/ Fails("redis")) /\ Goes(r, "row", None)
  /\ UNCHANGED <<row, sku, index, kept>>

(* reads the row there,                                                    *)
GetByStoreAndBarcode(r) ==
  LET found == row[job[r].barcode]
  IN /\ pc[r] = "row"
     /\ \/ found # None /\ Goes(r, "set", found)
        \/ found = None /\ Answers(r, 404)
        \/ Fails("db") /\ Answers(r, 500)
     /\ UNCHANGED <<row, sku, index, kept>>

(* and stores what it has read, which by now may be old.                   *)
CacheSet(r) ==
  /\ pc[r] = "set"
  /\ \/ sku' = [sku EXCEPT ![job[r].barcode] = job[r].product]
     \/ Fails("redis") /\ UNCHANGED sku
  /\ Answers(r, 200)
  /\ UNCHANGED <<row, index, kept>>

-----------------------------------------------------------------------------
(* validateUpsertRequest, of what is left of a product here. *)
Valid(stock) == stock >= 0

(* Handler UpsertProduct of a request that is not valid. *)
Refuse(r) ==
  /\ pc[r] = "idle" /\ said[r] # 400
  /\ \E stock \in -1..MaxStock : ~ Valid(stock) /\ Answers(r, 400)
  /\ UNCHANGED <<row, sku, index, kept>>

(* UpsertProduct of one that is: a complete product, of a version of its   *)
(* own, goes to the database.                                              *)
UpsertProduct(r) ==
  /\ writes < MaxWrites
  /\ \E b \in Barcodes, stock \in -1..MaxStock :
       /\ Valid(stock)
       /\ Begin(r, "upsert", b, [version |-> writes + 1, stock |-> stock, seq |-> 0])
  /\ writes' = writes + 1
  /\ UNCHANGED <<row, sku, index, faults, written, acked>>

(* Mutant of Written: the conflict clause leaves sync_seq as it is. *)
WrittenSameSeq(old, p) == IF old = None THEN p ELSE [p EXCEPT !.seq = old.seq]

(* The row after ON CONFLICT DO UPDATE: every column new, sync_seq one up; *)
(* a new row starts with 0.                                                *)
Written(old, p) == IF old = None THEN p ELSE [p EXCEPT !.seq = old.seq + 1]

(* The statement has twenty parameters and is given nineteen values, and   *)
(* its sync_seq + 1 is ambiguous, so as it stands it is refused whenever   *)
(* it is sent.  "accepted" is a database that takes it, with 0 for         *)
(* sync_seq and the row's own column in the update.                        *)
Upsert(r) ==
  LET b == job[r].barcode
      p == Written(row[b], job[r].product)
  IN /\ pc[r] = "upsert"
     /\ \/ /\ "accepted" \in faults
           /\ row' = [row EXCEPT ![b] = p]
           /\ written' = [written EXCEPT ![b] = @ \union {p}]
           /\ Goes(r, "del", p)
        \/ ("accepted" \notin faults \/ Fails("db")) /\ Answers(r, 500)
           /\ UNCHANGED <<row, written>>
     /\ UNCHANGED <<sku, index, faults, writes, acked>>

(* Mutant of Invalidate: the copy is replaced by the new product. *)
InvalidateBySet(r) ==
  LET b == job[r].barcode
  IN /\ pc[r] = "del"
     /\ sku' = [sku EXCEPT ![b] = job[r].product]
     /\ IF \E q \in Slots : pc[q] = "set" /\ job[q].barcode = b THEN UNCHANGED acked
        ELSE acked' = [acked EXCEPT ![b] = row[b].seq]
     /\ Goes(r, "index", job[r].product)
     /\ UNCHANGED <<row, index, faults, writes, written>>

(* UpsertProduct drops the copy; an error is logged,                       *)
Invalidate(r) ==
  LET b == job[r].barcode
  IN /\ pc[r] = "del"
     /\ \/ /\ sku' = [sku EXCEPT ![b] = None]
           /\ IF \E q \in Slots : pc[q] = "set" /\ job[q].barcode = b THEN UNCHANGED acked
              ELSE acked' = [acked EXCEPT ![b] = row[b].seq]
        \/ Fails("redis") /\ UNCHANGED <<sku, acked>>
     /\ Goes(r, "index", job[r].product)
     /\ UNCHANGED <<row, index, faults, writes, written>>

(* Mutant of IndexProduct: a document that is there stays. *)
IndexProductOnce(r) ==
  /\ pc[r] = "index"
  /\ IF index[job[r].barcode] = None
       THEN index' = [index EXCEPT ![job[r].barcode] = job[r].product] ELSE UNCHANGED index
  /\ Answers(r, 200)
  /\ UNCHANGED <<row, sku, kept>>

(* and indexes what the statement returned; an error is logged as well.    *)
IndexProduct(r) ==
  /\ pc[r] = "index"
  /\ \/ index' = [index EXCEPT ![job[r].barcode] = job[r].product]
     \/ Fails("search") /\ UNCHANGED index
  /\ Answers(r, 200)
  /\ UNCHANGED <<row, sku, kept>>

-----------------------------------------------------------------------------
(* catalog-import of the admin-cli: products the store has not yet get a   *)
(* row with the default sync_seq.  (The keys it writes to Redis have       *)
(* barcode and store in the other order: no service reads them.)           *)
CatalogImport ==
  /\ "outside" \in faults /\ writes < MaxWrites
  /\ \E b \in Barcodes :
       /\ row[b] = None
       /\ row' = [row EXCEPT ![b] = [version |-> writes + 1, stock |-> 0, seq |-> 0]]
  /\ writes' = writes + 1
  /\ UNCHANGED <<sku, index, pc, job, said, faults, written, acked>>

(* UpdateProductStock of the order service, for an accepted return. *)
UpdateProductStock ==
  /\ "outside" \in faults
  /\ \E b \in Barcodes :
       /\ row[b] # None /\ row[b].stock < MaxStock
       /\ row' = [row EXCEPT ![b].stock = @ + 1]
  /\ UNCHANGED <<sku, index, pc, job, said, kept>>

(* The time to live of a copy ends. *)
Expires ==
  /\ "expiry" \in faults
  /\ \E b \in Barcodes : sku[b] # None /\ sku' = [sku EXCEPT ![b] = None]
  /\ UNCHANGED <<row, index, pc, job, said, kept>>

(* The process dies with a request half done. *)
Crash(r) ==
  /\ "crash" \in faults /\ pc[r] # "idle"
  /\ Answers(r, 0)
  /\ UNCHANGED <<row, sku, index, kept>>

Next ==
  \/ CatalogImport \/ UpdateProductStock \/ Expires
  \/ \E r \in Slots :
       \/ Lookup(r) \/ CacheGet(r) \/ GetByStoreAndBarcode(r) \/ CacheSet(r)
       \/ Refuse(r) \/ UpsertProduct(r) \/ Upsert(r) \/ Invalidate(r) \/ IndexProduct(r)
       \/ Crash(r)

Spec == Init /\ [][Next]_vars

-----------------------------------------------------------------------------
(* Once an upsert has dropped the copy of its product, no lookup is        *)
(* answered from an older copy: the cache never goes back behind it, with  *)
(* requests side by side, calls that fail and writes from outside.  The    *)
(* exception the code has is in acked: a lookup that read the row before   *)
(* and stores it after (barcode.go:71 of the service).                     *)
CacheHasAcknowledged ==
  \A b \in Barcodes : sku[b] # None => sku[b].seq >= acked[b]

(* When no two requests overlap and every call works, cache, index and row *)
(* agree whenever the service is idle: UpsertProduct leaves no reader      *)
(* behind.                                                                 *)
CopiesAgree ==
  (faults \subseteq {"accepted", "expiry"} /\ \A r \in Slots : pc[r] = "idle") =>
    \A b \in Barcodes : sku[b] \in {None, row[b]} /\ index[b] = row[b]

(* A document of the index is a row the database has had, with the number  *)
(* that row had: rows of one product never share a sync_seq, so a client   *)
(* can tell the later of two documents.                                    *)
DocumentsAreRows ==
  \A b \in Barcodes :
    /\ index[b] # None => index[b] \in written[b]
    /\ \A p, q \in written[b] : p.seq = q.seq => p = q

(* With the database up, a product that has a row is found, whether Redis  *)
(* works or not: no lookup ends in 404 or 500.                             *)
LookupSurvivesRedis ==
  [][\A r \in Slots :
       (/\ pc[r] \in {"get", "row", "set"} /\ pc'[r] = "idle"
        /\ row[job[r].barcode] # None /\ faults \intersect {"db", "crash"} = {})
         => said'[r] = 200]_vars

(* The two copies of a row never show what the row has not been, nor go    *)
(* back behind an upsert that has dropped them.                            *)
CopiesFollowTheRow == CacheHasAcknowledged /\ DocumentsAreRows
=============================================================================
