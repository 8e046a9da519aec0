------------------------- MODULE CatalogCacheProofs -------------------------
(***************************************************************************)
(* For every set of products and requests, every bound and every scenario: *)
(* the shape of the state, what the cache and the index may hold, and that *)
(* a lookup survives the loss of Redis.  For every table and every query:  *)
(* what the pages of the searches and the answers of a sync show.          *)
(***************************************************************************)
EXTENDS CatalogCache, CatalogViews, FiniteSetTheorems, SequenceTheorems,
        WellFoundedInduction, TLAPS

(* acked never runs ahead of the row, *)
AckedIsBehindRow ==
  \A b \in Barcodes :
    /\ row[b] # None => acked[b] <= row[b].seq
    /\ row[b] = None => acked[b] = 0

(* nor of the copy a lookup is about to store. *)
AckedIsBehindLookups ==
  \A r \in Slots : pc[r] = "set" => acked[job[r].barcode] <= job[r].product.seq

(* What Upsert has returned was a row, and the row has moved on since. *)
RowIsLatest ==
  \A b \in Barcodes : \A p \in written[b] : row[b] # None /\ p.seq <= row[b].seq

(* Behind the database an upsert holds what it has written. *)
HeldIsWritten ==
  \A r \in Slots : pc[r] \in {"del", "index"} =>
    row[job[r].barcode] # None /\ job[r].product \in written[job[r].barcode]

IInv ==
  /\ TypeOK
  /\ AckedIsBehindRow /\ AckedIsBehindLookups
  /\ RowIsLatest /\ HeldIsWritten
  /\ CacheHasAcknowledged /\ DocumentsAreRows

Lookups(r) == Lookup(r) \/ CacheGet(r) \/ GetByStoreAndBarcode(r) \/ CacheSet(r)
Upserts(r) == Refuse(r) \/ UpsertProduct(r) \/ Upsert(r) \/ Invalidate(r) \/ IndexProduct(r)
Outside == CatalogImport \/ UpdateProductStock \/ Expires

-----------------------------------------------------------------------------
(* A product is not None, and its parts are what they are called. *)
LEMMA ProductShape ==
  ASSUME NEW p \in Product
  PROVE  /\ p # None
         /\ p.version \in 1..MaxWrites /\ p.stock \in 0..MaxStock /\ p.seq \in Nat
  BY CatalogAssumption DEF Product

LEMMA InitIInv == Init => IInv
  BY CatalogAssumption
  DEF Init, IInv, TypeOK, AckedIsBehindRow, AckedIsBehindLookups, RowIsLatest,
      HeldIsWritten, CacheHasAcknowledged, DocumentsAreRows, NoJob, Labels

(* The row after an upsert is a product, one ahead of the row before. *)
LEMMA WrittenShape ==
  ASSUME NEW old \in Product \union {None}, NEW p \in Product
  PROVE  /\ Written(old, p) \in Product
         /\ old # None => Written(old, p).seq = old.seq + 1
  BY ProductShape DEF Written, Product

-----------------------------------------------------------------------------
(* The part of TypeOK that belongs to the slots. *)
SlotsTyped ==
  /\ pc \in [Slots -> Labels]
  /\ job \in [Slots -> [barcode : Barcodes \union {None}, product : Product \union {None}]]
  /\ said \in [Slots -> {0, 200, 400, 404, 500}]
  /\ \A r \in Slots :
       /\ pc[r] # "idle" <=> job[r].barcode # None
       /\ pc[r] \in {"set", "upsert", "del", "index"} => job[r].product # None

LEMMA GoesTypes ==
  ASSUME SlotsTyped, NEW r \in Slots, pc[r] # "idle",
         NEW label \in Labels \ {"idle"}, NEW p \in Product \union {None},
         label \in {"set", "upsert", "del", "index"} => p # None,
         Goes(r, label, p)
  PROVE  SlotsTyped'
<1> USE DEF SlotsTyped, Goes
<1>1. job'[r].barcode = job[r].barcode /\ job'[r].product = p
  OBVIOUS
<1>2. job' \in [Slots -> [barcode : Barcodes \union {None}, product : Product \union {None}]]
  OBVIOUS
<1>3. pc' \in [Slots -> Labels] /\ said' \in [Slots -> {0, 200, 400, 404, 500}]
  OBVIOUS
<1>4. \A q \in Slots : q # r => pc'[q] = pc[q] /\ job'[q] = job[q]
  OBVIOUS
<1>5. pc'[r] = label /\ label # "idle"
  OBVIOUS
<1> QED
  BY <1>1, <1>2, <1>3, <1>4, <1>5

LEMMA AnswersTypes ==
  ASSUME SlotsTyped, NEW r \in Slots, NEW status \in {0, 200, 400, 404, 500},
         Answers(r, status)
  PROVE  SlotsTyped'
  BY DEF SlotsTyped, Answers, NoJob, Labels

(* The state keeps its shape. *)
LEMMA LookupTypes ==
  ASSUME TypeOK, NEW r \in Slots, Lookups(r) \/ Crash(r)
  PROVE  TypeOK'
<1> USE DEF TypeOK, kept
<1>0. SlotsTyped
  BY DEF SlotsTyped
<1>1. CASE Lookup(r)
  BY <1>1, CatalogAssumption DEF Lookup, Begin, Labels
<1>2. CASE CacheGet(r)
  <2>1. SlotsTyped'
    BY <1>0, <1>2, GoesTypes, AnswersTypes DEF CacheGet, Labels
  <2> QED
    BY <1>2, <2>1 DEF CacheGet, SlotsTyped
<1>3. CASE GetByStoreAndBarcode(r)
  <2>1. SlotsTyped'
    BY <1>0, <1>3, GoesTypes, AnswersTypes DEF GetByStoreAndBarcode, Labels
  <2> QED
    BY <1>3, <2>1 DEF GetByStoreAndBarcode, SlotsTyped
<1>4. CASE CacheSet(r)
  <2>1. SlotsTyped'
    BY <1>0, <1>4, AnswersTypes DEF CacheSet
  <2> QED
    BY <1>4, <2>1 DEF CacheSet, SlotsTyped
<1>5. CASE Crash(r)
  <2>1. SlotsTyped'
    BY <1>0, <1>5, AnswersTypes DEF Crash
  <2> QED
    BY <1>5, <2>1 DEF Crash, SlotsTyped
<1> QED
  BY <1>1, <1>2, <1>3, <1>4, <1>5 DEF Lookups

LEMMA UpsertTypes ==
  ASSUME TypeOK, HeldIsWritten, NEW r \in Slots, Upserts(r)
  PROVE  TypeOK'
<1> USE DEF TypeOK, kept
<1>0. SlotsTyped
  BY DEF SlotsTyped
<1>1. CASE Refuse(r)
  <2>1. SlotsTyped'
    BY <1>0, <1>1, AnswersTypes DEF Refuse
  <2> QED
    BY <1>1, <2>1 DEF Refuse, SlotsTyped
<1>2. CASE UpsertProduct(r)
  <2>1. PICK b \in Barcodes, stock \in -1..MaxStock :
          Valid(stock) /\ Begin(r, "upsert", b,
                                [version |-> writes + 1, stock |-> stock, seq |-> 0])
    BY <1>2 DEF UpsertProduct
  <2>2. [version |-> writes + 1, stock |-> stock, seq |-> 0] \in Product
    BY <1>2, <2>1, CatalogAssumption DEF UpsertProduct, Valid, Product
  <2>3. SlotsTyped'
    BY <1>2, <2>1, <2>2, ProductShape, CatalogAssumption DEF UpsertProduct, Begin, SlotsTyped, Labels
  <2> QED
    BY <1>2, <2>3, CatalogAssumption DEF UpsertProduct, SlotsTyped
<1>3. CASE Upsert(r)
  <2> DEFINE b == job[r].barcode
             p == Written(row[b], job[r].product)
  <2>0. b \in Barcodes /\ job[r].product \in Product
    BY <1>3 DEF Upsert
  <2>1. b \in Barcodes /\ p \in Product
    BY <2>0, WrittenShape
  <2>2. p # None
    BY <2>1, ProductShape
  <2> HIDE DEF p
  <2>3. CASE /\ row' = [row EXCEPT ![b] = p]
             /\ written' = [written EXCEPT ![b] = @ \union {p}]
             /\ Goes(r, "del", p)
    <3>1. SlotsTyped'
      BY <1>0, <1>3, <2>1, <2>2, <2>3, GoesTypes DEF Upsert, Labels
    <3> QED
      BY <1>3, <2>1, <2>3, <3>1 DEF Upsert, SlotsTyped
  <2>4. CASE Answers(r, 500) /\ UNCHANGED <<row, written>>
    <3>1. SlotsTyped'
      BY <1>0, <2>4, AnswersTypes
    <3> QED
      BY <1>3, <2>4, <3>1 DEF Upsert, SlotsTyped
  <2> QED
    BY <1>3, <2>3, <2>4 DEF Upsert, p
<1>4. CASE Invalidate(r)
  <2>1. SlotsTyped'
    BY <1>0, <1>4, GoesTypes DEF Invalidate, Labels
  <2>2. job[r].barcode \in Barcodes /\ row[job[r].barcode].seq \in Nat
    BY <1>4, ProductShape DEF Invalidate, HeldIsWritten
  <2> QED
    BY <1>4, <2>1, <2>2 DEF Invalidate, SlotsTyped
<1>5. CASE IndexProduct(r)
  <2>1. SlotsTyped'
    BY <1>0, <1>5, AnswersTypes DEF IndexProduct
  <2> QED
    BY <1>5, <2>1 DEF IndexProduct, SlotsTyped
<1> QED
  BY <1>1, <1>2, <1>3, <1>4, <1>5 DEF Upserts

LEMMA OutsideTypes == TypeOK /\ Outside => TypeOK'
<1> SUFFICES ASSUME TypeOK, Outside PROVE TypeOK'
  OBVIOUS
<1> USE CatalogAssumption DEF TypeOK, kept
<1>1. CASE CatalogImport
  <2>1. [version |-> writes + 1, stock |-> 0, seq |-> 0] \in Product
    BY <1>1 DEF CatalogImport, Product
  <2> QED
    BY <1>1, <2>1 DEF CatalogImport
<1>2. CASE UpdateProductStock
  <2>1. PICK b \in Barcodes : /\ row[b] # None /\ row[b].stock < MaxStock
                              /\ row' = [row EXCEPT ![b].stock = @ + 1]
    BY <1>2 DEF UpdateProductStock
  <2>2. [row[b] EXCEPT !.stock = @ + 1] \in Product
    BY <2>1 DEF Product
  <2>3. row' = [row EXCEPT ![b] = [row[b] EXCEPT !.stock = @ + 1]]
    BY <2>1
  <2> QED
    BY <1>2, <2>2, <2>3 DEF UpdateProductStock
<1>3. CASE Expires
  BY <1>3 DEF Expires
<1> QED
  BY <1>1, <1>2, <1>3 DEF Outside

LEMMA TypeStep == IInv /\ [Next]_vars => TypeOK'
<1>1. CASE UNCHANGED vars
  BY <1>1 DEF IInv, TypeOK, vars, kept
<1> QED
  BY <1>1, LookupTypes, UpsertTypes, OutsideTypes
  DEF IInv, Next, Lookups, Upserts, Outside

-----------------------------------------------------------------------------
(* A lookup changes the cache only, and stores what it has read. *)
LEMMA LookupStep ==
  ASSUME IInv, NEW r \in Slots, Lookups(r) \/ Crash(r)
  PROVE  IInv'
<1> USE DEF IInv, kept
<1>1. TypeOK'
  BY LookupTypes
<1>2. UNCHANGED <<row, index, writes, written, acked>>
  BY DEF Lookups, Lookup, CacheGet, GetByStoreAndBarcode, CacheSet, Crash
<1>3. \A q \in Slots : q # r => pc'[q] = pc[q] /\ job'[q] = job[q]
  BY DEF TypeOK, Lookups, Lookup, CacheGet, GetByStoreAndBarcode, CacheSet, Crash,
         Begin, Goes, Answers
<1>4. pc'[r] \notin {"del", "index"}
  BY DEF TypeOK, Lookups, Lookup, CacheGet, GetByStoreAndBarcode, CacheSet, Crash,
         Begin, Goes, Answers
<1>5. AckedIsBehindLookups'
  <2>1. pc'[r] = "set" => /\ job'[r].barcode = job[r].barcode
                          /\ job'[r].product = row[job[r].barcode]
                          /\ job[r].barcode \in Barcodes /\ row[job[r].barcode] # None
    BY DEF TypeOK, Lookups, Lookup, CacheGet, GetByStoreAndBarcode, CacheSet, Crash,
           Begin, Goes, Answers
  <2> QED
    BY <1>2, <1>3, <2>1 DEF AckedIsBehindLookups, AckedIsBehindRow
<1>6. CacheHasAcknowledged'
  <2>1. CASE CacheSet(r)
    BY <1>2, <2>1 DEF CacheSet, TypeOK, AckedIsBehindLookups, CacheHasAcknowledged
  <2>2. CASE UNCHANGED sku
    BY <1>2, <2>2 DEF CacheHasAcknowledged
  <2> QED
    BY <2>1, <2>2 DEF Lookups, Lookup, CacheGet, GetByStoreAndBarcode, Crash
<1> QED
  BY <1>1, <1>2, <1>3, <1>4, <1>5, <1>6
  DEF AckedIsBehindRow, RowIsLatest, HeldIsWritten, DocumentsAreRows

(* The write of the row is the only step that adds to what was written. *)
LEMMA UpsertStep ==
  ASSUME IInv, NEW r \in Slots, Upsert(r)
  PROVE  IInv'
<1> USE DEF IInv
<1>1. TypeOK'
  BY UpsertTypes DEF Upserts
<1> DEFINE b == job[r].barcode
           p == Written(row[b], job[r].product)
<1>2. b \in Barcodes /\ job[r].product \in Product
  BY DEF Upsert, TypeOK
<1>3. p \in Product /\ (row[b] # None => p.seq = row[b].seq + 1)
  <2>1. row[b] \in Product \union {None}
    BY <1>2 DEF TypeOK
  <2> QED
    BY <1>2, <2>1, WrittenShape
<1>4. p # None /\ p.seq \in Nat /\ (row[b] # None => row[b].seq \in Nat)
  BY <1>2, <1>3, ProductShape DEF TypeOK
<1> HIDE DEF p
<1>5. CASE /\ row' = [row EXCEPT ![b] = p]
           /\ written' = [written EXCEPT ![b] = @ \union {p}]
           /\ Goes(r, "del", p)
  <2>1. UNCHANGED <<sku, index, acked>>
    BY DEF Upsert
  <2>2. row'[b] = p /\ written'[b] = written[b] \union {p}
    BY <1>2, <1>5 DEF TypeOK
  <2>3. \A c \in Barcodes : c # b => row'[c] = row[c] /\ written'[c] = written[c]
    BY <1>5 DEF TypeOK
  <2>4. pc'[r] = "del" /\ job'[r].barcode = b /\ job'[r].product = p
    BY <1>5 DEF Goes, TypeOK
  <2>5. \A q \in Slots : q # r => pc'[q] = pc[q] /\ job'[q] = job[q]
    BY <1>5 DEF Goes, TypeOK
  <2>6. \A q \in written[b] : q.seq \in Nat /\ q.seq < p.seq
    BY <1>2, <1>3, <1>4, ProductShape DEF RowIsLatest, TypeOK
  <2>7. AckedIsBehindRow'
    BY <1>2, <1>3, <1>4, <2>1, <2>2, <2>3 DEF AckedIsBehindRow, TypeOK
  <2>8. AckedIsBehindLookups'
    BY <2>1, <2>4, <2>5 DEF AckedIsBehindLookups
  <2>9. RowIsLatest'
    BY <1>4, <2>2, <2>3, <2>6 DEF RowIsLatest
  <2>10. HeldIsWritten'
    <3> SUFFICES ASSUME NEW q \in Slots, pc'[q] \in {"del", "index"}
                 PROVE  /\ row'[job'[q].barcode] # None
                        /\ job'[q].product \in written'[job'[q].barcode]
      BY DEF HeldIsWritten
    <3>1. CASE q = r
      BY <3>1, <1>4, <2>2, <2>4
    <3>2. CASE q # r
      <4>1. job'[q] = job[q] /\ pc[q] \in {"del", "index"} /\ job[q].barcode \in Barcodes
        BY <3>2, <2>5 DEF TypeOK
      <4> QED
        BY <4>1, <1>4, <2>2, <2>3 DEF HeldIsWritten
    <3> QED
      BY <3>1, <3>2
  <2>11. CacheHasAcknowledged'
    BY <2>1 DEF CacheHasAcknowledged
  <2>12. DocumentsAreRows'
    <3>1. \A c \in Barcodes : written[c] \subseteq written'[c]
      BY <2>2, <2>3
    <3>2. \A q1, q2 \in written'[b] : q1.seq = q2.seq => q1 = q2
      BY <1>2, <1>4, <2>2, <2>6 DEF DocumentsAreRows
    <3> QED
      BY <2>1, <2>3, <3>1, <3>2 DEF DocumentsAreRows
  <2> QED
    BY <1>1, <2>7, <2>8, <2>9, <2>10, <2>11, <2>12
<1>6. CASE Answers(r, 500) /\ UNCHANGED <<row, written>>
  <2>1. UNCHANGED <<sku, index, acked, row, written>>
    BY <1>6 DEF Upsert
  <2>2. \A q \in Slots : pc'[q] # "idle" => pc'[q] = pc[q] /\ job'[q] = job[q]
    BY <1>6 DEF Answers, TypeOK
  <2> QED
    BY <1>1, <2>1, <2>2
    DEF AckedIsBehindRow, AckedIsBehindLookups, RowIsLatest, HeldIsWritten,
        CacheHasAcknowledged, DocumentsAreRows
<1> QED
  BY <1>5, <1>6 DEF Upsert, p

(* Whoever else stores a copy later has read the row before: then acked    *)
(* stays; otherwise it catches up with the row.                            *)
LEMMA InvalidateStep ==
  ASSUME IInv, NEW r \in Slots, Invalidate(r)
  PROVE  IInv'
<1> USE DEF IInv
<1>1. TypeOK'
  BY UpsertTypes DEF Upserts
<1> DEFINE b == job[r].barcode
<1>2. b \in Barcodes /\ row[b] # None /\ row[b].seq \in Nat
  BY ProductShape DEF Invalidate, TypeOK, HeldIsWritten
<1>3. UNCHANGED <<row, index, written>> /\ pc[r] = "del"
  BY DEF Invalidate
<1>4. /\ pc'[r] = "index" /\ job'[r].barcode = job[r].barcode
      /\ job'[r].product = job[r].product
      /\ \A q \in Slots : q # r => pc'[q] = pc[q] /\ job'[q] = job[q]
  BY DEF Invalidate, Goes, TypeOK
<1>5. HeldIsWritten' /\ RowIsLatest' /\ DocumentsAreRows'
  BY <1>3, <1>4 DEF HeldIsWritten, RowIsLatest, DocumentsAreRows
<1>6. CASE UNCHANGED <<sku, acked>>
  BY <1>1, <1>3, <1>4, <1>5, <1>6
  DEF AckedIsBehindRow, AckedIsBehindLookups, CacheHasAcknowledged
<1>7. CASE sku' = [sku EXCEPT ![b] = None] /\ UNCHANGED acked
  BY <1>1, <1>3, <1>4, <1>5, <1>7
  DEF AckedIsBehindRow, AckedIsBehindLookups, CacheHasAcknowledged, TypeOK
<1>8. CASE /\ sku' = [sku EXCEPT ![b] = None]
           /\ acked' = [acked EXCEPT ![b] = row[b].seq]
           /\ ~ \E q \in Slots : pc[q] = "set" /\ job[q].barcode = b
  <2>1. acked'[b] = row[b].seq /\ \A c \in Barcodes : c # b => acked'[c] = acked[c]
    BY <1>2, <1>8 DEF TypeOK
  <2>2. AckedIsBehindRow'
    BY <1>2, <1>3, <2>1 DEF AckedIsBehindRow
  <2>3. AckedIsBehindLookups'
    <3> SUFFICES ASSUME NEW q \in Slots, pc'[q] = "set"
                 PROVE  acked'[job'[q].barcode] <= job'[q].product.seq
      BY DEF AckedIsBehindLookups
    <3>1. q # r /\ job'[q] = job[q] /\ pc[q] = "set"
      BY <1>4
    <3>2. job[q].barcode \in Barcodes /\ job[q].barcode # b
      BY <3>1, <1>8 DEF TypeOK
    <3> QED
      BY <3>1, <3>2, <2>1 DEF AckedIsBehindLookups
  <2>4. CacheHasAcknowledged'
    BY <1>2, <1>8, <2>1 DEF CacheHasAcknowledged, TypeOK
  <2> QED
    BY <1>1, <1>5, <2>2, <2>3, <2>4
<1> QED
  BY <1>6, <1>7, <1>8 DEF Invalidate

(* The other steps of an upsert leave row and cache alone. *)
LEMMA RestStep ==
  ASSUME IInv, NEW r \in Slots, Refuse(r) \/ UpsertProduct(r) \/ IndexProduct(r)
  PROVE  IInv'
<1> USE DEF IInv, kept
<1>1. TypeOK'
  BY UpsertTypes DEF Upserts
<1>2. UNCHANGED <<row, sku, written, acked>>
  BY DEF Refuse, UpsertProduct, IndexProduct
<1>3. /\ pc'[r] \in {"idle", "upsert"}
      /\ \A q \in Slots : q # r => pc'[q] = pc[q] /\ job'[q] = job[q]
  BY DEF TypeOK, Refuse, UpsertProduct, IndexProduct, Begin, Answers
<1>4. DocumentsAreRows'
  <2>1. CASE IndexProduct(r)
    BY <1>2, <2>1 DEF DocumentsAreRows, IndexProduct, HeldIsWritten, TypeOK
  <2>2. CASE UNCHANGED index
    BY <1>2, <2>2 DEF DocumentsAreRows
  <2> QED
    BY <2>1, <2>2 DEF Refuse, UpsertProduct
<1> QED
  BY <1>1, <1>2, <1>3, <1>4
  DEF AckedIsBehindRow, AckedIsBehindLookups, RowIsLatest, HeldIsWritten,
      CacheHasAcknowledged

(* Writes from outside create a row where none was, or keep its number. *)
LEMMA OutsideStep == IInv /\ Outside => IInv'
<1> SUFFICES ASSUME IInv, Outside PROVE IInv'
  OBVIOUS
<1> USE DEF IInv, kept
<1>1. TypeOK'
  BY OutsideTypes
<1>2. UNCHANGED <<index, pc, job, written, acked>>
  BY DEF Outside, CatalogImport, UpdateProductStock, Expires
<1>3. \A b \in Barcodes :
        /\ row[b] # None => row'[b] # None /\ row'[b].seq = row[b].seq
        /\ row[b] = None => row'[b] = None \/ row'[b].seq = 0
  <2>1. CASE CatalogImport
    BY <2>1 DEF CatalogImport, TypeOK
  <2>2. CASE UpdateProductStock
    <3>1. PICK c \in Barcodes : /\ row[c] # None
                                /\ row' = [row EXCEPT ![c].stock = @ + 1]
      BY <2>2 DEF UpdateProductStock
    <3>2. row[c] \in Product /\ row'[c] \in Product \union {None}
      BY <1>1, <3>1 DEF TypeOK
    <3>3. row'[c] = [row[c] EXCEPT !.stock = @ + 1]
      BY <3>1 DEF TypeOK
    <3>4. row'[c].seq = row[c].seq
      BY <3>2, <3>3 DEF Product
    <3>5. [row[c] EXCEPT !.stock = @ + 1]
            \in [version : Nat, stock : Nat, seq : Nat]
      BY <3>2 DEF Product
    <3>6. row'[c] # None
      BY <3>3, <3>5, CatalogAssumption
    <3> QED
      BY <3>1, <3>4, <3>6 DEF TypeOK
  <2>3. CASE UNCHANGED row
    BY <2>3
  <2> QED
    BY <2>1, <2>2, <2>3 DEF Outside, Expires
<1>4. \A b \in Barcodes : sku'[b] = None \/ sku'[b] = sku[b]
  BY DEF TypeOK, Outside, CatalogImport, UpdateProductStock, Expires
<1>5. AckedIsBehindRow' /\ RowIsLatest' /\ HeldIsWritten'
  BY <1>2, <1>3 DEF AckedIsBehindRow, RowIsLatest, HeldIsWritten, TypeOK
<1>6. AckedIsBehindLookups' /\ CacheHasAcknowledged' /\ DocumentsAreRows'
  BY <1>2, <1>4 DEF AckedIsBehindLookups, CacheHasAcknowledged, DocumentsAreRows
<1> QED
  BY <1>1, <1>5, <1>6

LEMMA NextIInv == IInv /\ [Next]_vars => IInv'
<1>1. CASE UNCHANGED vars
  BY <1>1, TypeStep
  DEF IInv, vars, kept, AckedIsBehindRow, AckedIsBehindLookups, RowIsLatest,
      HeldIsWritten, CacheHasAcknowledged, DocumentsAreRows
<1> QED
  BY <1>1, LookupStep, UpsertStep, InvalidateStep, RestStep, OutsideStep
  DEF Next, Lookups, Outside

-----------------------------------------------------------------------------
LEMMA Invariance == Spec => []IInv
<1>1. Init => IInv
  BY InitIInv
<1>2. IInv /\ [Next]_vars => IInv'
  BY NextIInv
<1> QED
  BY <1>1, <1>2, PTL DEF Spec

(* Every variable keeps its shape: a request past the database holds a     *)
(* product (the state of the lookup and upsert handlers).                  *)
THEOREM TypeCorrect == Spec => []TypeOK
<1>1. IInv => TypeOK
  BY DEF IInv
<1> QED
  BY <1>1, Invariance, PTL

(* The SKU cache never goes back behind an upsert that has invalidated it  *)
(* (UpsertProduct and LookupByBarcode of the catalog service).             *)
THEOREM CacheCorrect == Spec => []CacheHasAcknowledged
<1>1. IInv => CacheHasAcknowledged
  BY DEF IInv
<1> QED
  BY <1>1, Invariance, PTL

(* Each document of the index is a row the database has had, and no two    *)
(* rows of a product share a sync_seq (Upsert and IndexProduct).           *)
THEOREM IndexCorrect == Spec => []DocumentsAreRows
<1>1. IInv => DocumentsAreRows
  BY DEF IInv
<1> QED
  BY <1>1, Invariance, PTL

-----------------------------------------------------------------------------
(* With the database up, the error of Redis is not the end of a lookup of  *)
(* a product that has a row (LookupByBarcode).                             *)
THEOREM RedisIsOptional == Spec => LookupSurvivesRedis
<1> DEFINE Ends(r) ==
      (/\ pc[r] \in {"get", "row", "set"} /\ pc'[r] = "idle"
       /\ row[job[r].barcode] # None /\ faults \intersect {"db", "crash"} = {})
        => said'[r] = 200
<1>1. ASSUME IInv, Next, NEW r \in Slots PROVE Ends(r)
  <2> SUFFICES ASSUME pc[r] \in {"get", "row", "set"}, pc'[r] = "idle",
                      row[job[r].barcode] # None, "db" \notin faults, "crash" \notin faults
               PROVE  said'[r] = 200
    OBVIOUS
  <2> USE <1>1 DEF IInv, TypeOK, kept
  <2>1. ASSUME NEW q \in Slots, q # r, Lookups(q) \/ Upserts(q) PROVE FALSE
    <3>1. \E label : pc' = [pc EXCEPT ![q] = label]
      <4>1. CASE Lookups(q)
        BY <4>1 DEF Lookups, Lookup, CacheGet, GetByStoreAndBarcode, CacheSet,
                    Begin, Goes, Answers
      <4>2. CASE Refuse(q) \/ UpsertProduct(q) \/ IndexProduct(q)
        BY <4>2 DEF Refuse, UpsertProduct, IndexProduct, Begin, Goes, Answers
      <4>3. CASE Upsert(q) \/ Invalidate(q)
        BY <4>3 DEF Upsert, Invalidate, Goes, Answers
      <4> QED
        BY <2>1, <4>1, <4>2, <4>3 DEF Upserts
    <3>2. pc'[r] = pc[r]
      BY <2>1, <3>1
    <3> QED
      BY <3>2
  <2>2. CASE Lookups(r)
    <3>1. CASE Lookup(r)
      BY <3>1 DEF Lookup, Begin
    <3>2. CASE CacheGet(r)
      BY <3>2 DEF CacheGet, Goes, Answers
    <3>3. CASE GetByStoreAndBarcode(r)
      BY <3>3 DEF GetByStoreAndBarcode, Goes, Answers, Fails
    <3>4. CASE CacheSet(r)
      BY <3>4 DEF CacheSet, Answers
    <3> QED
      BY <2>2, <3>1, <3>2, <3>3, <3>4 DEF Lookups
  <2>3. ~ Upserts(r)
    BY DEF Upserts, Refuse, UpsertProduct, Upsert, Invalidate, IndexProduct, Begin
  <2>4. ~ Outside
    BY DEF Outside, CatalogImport, UpdateProductStock, Expires
  <2>5. ~ \E q \in Slots : Crash(q)
    BY DEF Crash
  <2> QED
    BY <2>1, <2>2, <2>3, <2>4, <2>5 DEF Next, Lookups, Upserts, Outside
<1>2. IInv /\ [Next]_vars => [\A r \in Slots : Ends(r)]_vars
  BY <1>1
<1> QED
  BY <1>2, Invariance, PTL DEF Spec, LookupSurvivesRedis

-----------------------------------------------------------------------------
(* One request at a time, every call works: between two requests the three *)
(* stores agree, within one they differ only where it has still to write.  *)
Quiet == faults \subseteq {"accepted", "expiry"}

OneAtATime ==
  \A q, r \in Slots : pc[q] # "idle" /\ pc[r] # "idle" => q = r

HeldIsRow ==
  \A r \in Slots : pc[r] \in {"set", "del", "index"} => job[r].product = row[job[r].barcode]

CopyIsRow ==
  \A b \in Barcodes :
    (\A r \in Slots : pc[r] = "del" => job[r].barcode # b) => sku[b] \in {None, row[b]}

DocumentIsRow ==
  \A b \in Barcodes :
    (\A r \in Slots : pc[r] \in {"del", "index"} => job[r].barcode # b) => index[b] = row[b]

QuietInv == Quiet => OneAtATime /\ HeldIsRow /\ CopyIsRow /\ DocumentIsRow

LEMMA QuietStep ==
  ASSUME TypeOK, TypeOK', QuietInv, Next
  PROVE  QuietInv'
<1> SUFFICES ASSUME Quiet PROVE OneAtATime' /\ HeldIsRow' /\ CopyIsRow' /\ DocumentIsRow'
  BY DEF QuietInv, Quiet, Next, Lookup, CacheGet, GetByStoreAndBarcode, CacheSet, Refuse,
         UpsertProduct, Upsert, Invalidate, IndexProduct, Crash, CatalogImport,
         UpdateProductStock, Expires, kept
<1>0. OneAtATime /\ HeldIsRow /\ CopyIsRow /\ DocumentIsRow
  BY DEF QuietInv
<1>1. ASSUME NEW r \in Slots, Lookups(r) \/ Upserts(r), ~ Refuse(r)
      PROVE  OneAtATime' /\ HeldIsRow' /\ CopyIsRow' /\ DocumentIsRow'
  <2> USE <1>0 DEF TypeOK, kept
  <2>1. \A q \in Slots : q # r => pc[q] = "idle" /\ pc'[q] = "idle"
    <3>1. \A q \in Slots : q # r => pc[q] = "idle"
      <4>1. pc[r] # "idle" \/ \A q \in Slots : pc[q] = "idle"
        BY <1>1 DEF Quiet, Lookups, Lookup, CacheGet, GetByStoreAndBarcode,
                    CacheSet, Upserts, UpsertProduct, Upsert, Invalidate,
                    IndexProduct, Begin
      <4> QED
        BY <4>1 DEF OneAtATime
    <3>2. \E label : pc' = [pc EXCEPT ![r] = label]
      <4>1. CASE Lookups(r)
        BY <4>1 DEF Lookups, Lookup, CacheGet, GetByStoreAndBarcode, CacheSet,
                    Begin, Goes, Answers
      <4>2. CASE UpsertProduct(r) \/ IndexProduct(r)
        BY <4>2 DEF UpsertProduct, IndexProduct, Begin, Goes, Answers
      <4>3. CASE Upsert(r) \/ Invalidate(r)
        BY <4>3 DEF Upsert, Invalidate, Goes, Answers
      <4> QED
        BY <1>1, <4>1, <4>2, <4>3 DEF Upserts
    <3> QED
      BY <3>1, <3>2
  <2>2. OneAtATime'
    BY <2>1 DEF OneAtATime
  <2> SUFFICES HeldIsRow' /\ CopyIsRow' /\ DocumentIsRow'
    BY <2>2
  <2> DEFINE b == job[r].barcode
  <2>3. CASE Lookup(r) \/ UpsertProduct(r)
    <3>1. pc[r] = "idle" /\ pc'[r] \in {"get", "upsert"} /\ UNCHANGED <<row, sku, index>>
      BY <2>3 DEF Lookup, UpsertProduct, Begin
    <3> QED
      BY <2>1, <3>1 DEF HeldIsRow, CopyIsRow, DocumentIsRow
  <2>4. CASE CacheGet(r)
    <3>1. pc[r] = "get" /\ pc'[r] \in {"idle", "row"} /\ UNCHANGED <<row, sku, index>>
      BY <2>4 DEF CacheGet, Goes, Answers
    <3> QED
      BY <2>1, <3>1 DEF HeldIsRow, CopyIsRow, DocumentIsRow
  <2>5. CASE GetByStoreAndBarcode(r)
    <3>1. /\ pc[r] = "row" /\ pc'[r] \in {"idle", "set"} /\ UNCHANGED <<row, sku, index>>
          /\ pc'[r] = "set" => job'[r].barcode = b /\ job'[r].product = row[b]
      BY <2>5 DEF GetByStoreAndBarcode, Goes, Answers
    <3> QED
      BY <2>1, <3>1 DEF HeldIsRow, CopyIsRow, DocumentIsRow
  <2>6. CASE CacheSet(r)
    <3>1. pc[r] = "set" /\ pc'[r] = "idle" /\ UNCHANGED <<row, index>>
      BY <2>6 DEF CacheSet, Answers
    <3>2. \A c \in Barcodes : sku'[c] \in {sku[c], row[c]}
      BY <2>6 DEF CacheSet, HeldIsRow
    <3>3. \A c \in Barcodes : sku[c] \in {None, row[c]} /\ index[c] = row[c]
      BY <2>1, <3>1 DEF CopyIsRow, DocumentIsRow
    <3> QED
      BY <2>1, <3>1, <3>2, <3>3 DEF HeldIsRow, CopyIsRow, DocumentIsRow
  <2>7. CASE Upsert(r)
    <3>1. \A c \in Barcodes : sku[c] \in {None, row[c]} /\ index[c] = row[c]
      BY <2>1, <2>7 DEF Upsert, CopyIsRow, DocumentIsRow
    <3>2. UNCHANGED <<sku, index>> /\ b \in Barcodes
      BY <2>7 DEF Upsert
    <3>3. CASE UNCHANGED row /\ pc'[r] = "idle"
      BY <2>1, <3>1, <3>2, <3>3 DEF HeldIsRow, CopyIsRow, DocumentIsRow
    <3>4. CASE /\ pc'[r] = "del" /\ job'[r].barcode = b /\ job'[r].product = row'[b]
               /\ \A c \in Barcodes : c # b => row'[c] = row[c]
      BY <2>1, <3>1, <3>2, <3>4 DEF HeldIsRow, CopyIsRow, DocumentIsRow
    <3> QED
      BY <2>7, <3>3, <3>4 DEF Upsert, Goes, Answers
  <2>8. CASE Invalidate(r)
    <3>1. /\ pc[r] = "del" /\ pc'[r] = "index" /\ UNCHANGED <<row, index>>
          /\ job'[r].barcode = b /\ job'[r].product = job[r].product
          /\ sku' = [sku EXCEPT ![b] = None]
      BY <2>8 DEF Invalidate, Goes, Quiet, Fails
    <3>2. \A c \in Barcodes : sku'[c] \in {None, row[c]}
      BY <2>1, <3>1 DEF CopyIsRow
    <3>3. CopyIsRow' /\ HeldIsRow'
      BY <2>1, <3>1, <3>2 DEF HeldIsRow, CopyIsRow
    <3>4. \A c \in Barcodes : c # b => index[c] = row[c]
      BY <2>1, <3>1 DEF DocumentIsRow
    <3>5. DocumentIsRow'
      BY <3>1, <3>4 DEF DocumentIsRow
    <3> QED
      BY <3>3, <3>5
  <2>9. CASE IndexProduct(r)
    <3>1. /\ pc[r] = "index" /\ pc'[r] = "idle" /\ UNCHANGED <<row, sku>>
          /\ index' = [index EXCEPT ![b] = job[r].product]
      BY <2>9 DEF IndexProduct, Answers, Quiet, Fails
    <3>2. \A c \in Barcodes : index'[c] = row[c]
      BY <2>1, <3>1 DEF DocumentIsRow, HeldIsRow
    <3>3. \A c \in Barcodes : sku'[c] \in {None, row[c]}
      BY <2>1, <3>1 DEF CopyIsRow
    <3> QED
      BY <2>1, <3>1, <3>2, <3>3 DEF HeldIsRow, CopyIsRow, DocumentIsRow
  <2> QED
    BY <1>1, <2>3, <2>4, <2>5, <2>6, <2>7, <2>8, <2>9 DEF Lookups, Upserts
<1>3. ASSUME NEW r \in Slots, Refuse(r)
      PROVE  OneAtATime' /\ HeldIsRow' /\ CopyIsRow' /\ DocumentIsRow'
  <2>1. /\ pc' = pc /\ UNCHANGED <<row, sku, index>>
        /\ \A q \in Slots : pc[q] # "idle" => job'[q] = job[q]
    BY <1>3 DEF Refuse, Answers, TypeOK
  <2> QED
    BY <1>0, <2>1 DEF OneAtATime, HeldIsRow, CopyIsRow, DocumentIsRow
<1>2. CASE Expires
  BY <1>0, <1>2 DEF Expires, TypeOK, OneAtATime, HeldIsRow, CopyIsRow, DocumentIsRow
<1> QED
  BY <1>1, <1>2, <1>3
  DEF Next, Lookups, Upserts, Quiet, Crash, CatalogImport, UpdateProductStock

(* When no two requests overlap and every call works, cache, index and row *)
(* agree between requests (UpsertProduct, LookupByBarcode).                *)
THEOREM CopiesCorrect == Spec => []CopiesAgree
<1>1. Init => QuietInv
  BY DEF Init, QuietInv, OneAtATime, HeldIsRow, CopyIsRow, DocumentIsRow
<1>2. TypeOK /\ TypeOK' /\ QuietInv /\ [Next]_vars => QuietInv'
  <2>1. CASE UNCHANGED vars
    BY <2>1 DEF vars, kept, QuietInv, Quiet, OneAtATime, HeldIsRow, CopyIsRow, DocumentIsRow
  <2> QED
    BY <2>1, QuietStep
<1>3. QuietInv => CopiesAgree
  BY DEF QuietInv, Quiet, CopyIsRow, DocumentIsRow, CopiesAgree
<1> QED
  BY <1>1, <1>2, <1>3, TypeCorrect, PTL DEF Spec

(* The cache never goes back behind an upsert, and the index holds rows    *)
(* the database has had (LookupByBarcode and UpsertProduct).               *)
THEOREM CopiesFollow == Spec => []CopiesFollowTheRow
<1>1. CacheHasAcknowledged /\ DocumentsAreRows => CopiesFollowTheRow
  BY DEF CopiesFollowTheRow
<1> QED
  BY CacheCorrect, IndexCorrect, <1>1, PTL

-----------------------------------------------------------------------------
(* The views (CatalogViews). *)

(* A set of the steps from 0 to n that holds 0 and, with each, the next.   *)
LEMMA StepByStep ==
  ASSUME NEW n \in Nat, NEW S, 0 \in S, \A i \in 1..n : i - 1 \in S => i \in S
  PROVE  0..n \subseteq S
<1> DEFINE Left == {i \in 0..n : i \notin S}
<1> SUFFICES ASSUME Left # {}
             PROVE  FALSE
  OBVIOUS
<1>1. PICK k \in Left : \A l \in Left : ~ (<<l, k>> \in OpToRel(<, Nat))
  <2>1. Left \subseteq Nat
    OBVIOUS
  <2> HIDE DEF Left
  <2> QED
    BY <2>1, NatLessThanWellFounded, WFMin
<1>2. k \in 1..n /\ k - 1 \in 0..n /\ k - 1 < k /\ k - 1 \in Nat /\ k \in Nat
  <2>1. k \in 0..n /\ k # 0
    BY <1>1
  <2> QED
    BY <2>1
<1>3. k - 1 \notin Left
  BY <1>1, <1>2 DEF OpToRel
<1> QED
  BY <1>1, <1>2, <1>3

(* A function on 1..n is a sequence of length n. *)
LEMMA ListIs ==
  ASSUME NEW S, NEW n \in Nat, NEW f \in [1..n -> S]
  PROVE  f \in Seq(S) /\ Len(f) = n
<1>1. f \in Seq(S)
  BY SeqDef
<1>2. Len(f) \in Nat /\ DOMAIN f = 1..Len(f)
  BY <1>1, LenProperties
<1>3. 1..Len(f) = 1..n
  BY <1>2
<1>4. \A a, b \in Nat : 1..a = 1..b => a = b
  <2> SUFFICES ASSUME NEW a \in Nat, NEW b \in Nat, 1..a = 1..b, a # b
               PROVE  FALSE
    OBVIOUS
  <2>1. CASE a < b
    <3>1. b \in 1..b /\ b \notin 1..a
      BY <2>1
    <3> QED
      BY <3>1
  <2>2. CASE b < a
    <3>1. a \in 1..a /\ a \notin 1..b
      BY <2>2
    <3> QED
      BY <3>1
  <2> QED
    BY <2>1, <2>2
<1> QED
  BY <1>1, <1>2, <1>3, <1>4

Ranks(S, rank) ==
  /\ IsFiniteSet(S) /\ rank \in [S -> Int]
  /\ \A p, q \in S : rank[p] = rank[q] => p = q

(* Rows of different ranks have different places, in the order of the      *)
(* ranks, from 1 to the number of rows.                                    *)
LEMMA PlaceType ==
  ASSUME NEW S, NEW rank, Ranks(S, rank), NEW p \in S
  PROVE  Place(S, rank, p) \in 1..Cardinality(S) /\ Cardinality(S) \in Nat
<1> DEFINE Upto == {q \in S : rank[q] <= rank[p]}
<1>1. IsFiniteSet(S) /\ Cardinality(S) \in Nat
  BY FS_CardinalityType DEF Ranks
<1>2. IsFiniteSet(Upto) /\ Cardinality(Upto) <= Cardinality(S) /\ Cardinality(Upto) \in Nat
  <2>1. Upto \in SUBSET S
    OBVIOUS
  <2> HIDE DEF Upto
  <2> QED
    BY <1>1, <2>1, FS_Subset, FS_CardinalityType
<1>3. Upto # {}
  BY DEF Ranks
<1>4. Cardinality(Upto) # 0
  <2> HIDE DEF Upto
  <2> QED
    BY <1>2, <1>3, FS_EmptySet
<1> QED
  BY <1>1, <1>2, <1>4 DEF Place

LEMMA PlaceGrows ==
  ASSUME NEW S, NEW rank, Ranks(S, rank), NEW p \in S, NEW q \in S, rank[p] < rank[q]
  PROVE  Place(S, rank, p) < Place(S, rank, q)
<1> DEFINE Upto(r) == {s \in S : rank[s] <= rank[r]}
           U == Upto(p)
           V == Upto(q)
<1>1. IsFiniteSet(S)
  BY DEF Ranks
<1>2. U \in SUBSET V /\ U # V /\ V \in SUBSET S
  BY DEF Ranks
<1>3. /\ Cardinality(U) = Place(S, rank, p) /\ Cardinality(V) = Place(S, rank, q)
  BY DEF Place
<1> HIDE DEF U, V
<1>4. IsFiniteSet(V)
  BY <1>1, <1>2, FS_Subset
<1>5. Cardinality(U) <= Cardinality(V) /\ Cardinality(U) # Cardinality(V)
  BY <1>2, <1>4, FS_Subset
<1>6. Place(S, rank, p) \in Int /\ Place(S, rank, q) \in Int
  BY PlaceType
<1> QED
  BY <1>3, <1>5, <1>6

LEMMA PlacesDiffer ==
  ASSUME NEW S, NEW rank, Ranks(S, rank), NEW p \in S, NEW q \in S,
         Place(S, rank, p) = Place(S, rank, q)
  PROVE  p = q
<1>1. rank[p] \in Int /\ rank[q] \in Int
  BY DEF Ranks
<1>2. Place(S, rank, p) \in Int
  BY PlaceType
<1>3. ~ (rank[p] < rank[q]) /\ ~ (rank[q] < rank[p])
  BY <1>2, PlaceGrows
<1>4. rank[p] = rank[q]
  BY <1>1, <1>3
<1> QED
  BY <1>4 DEF Ranks

(* The sorted list has every row at its place. *)
LEMMA SortedIs ==
  ASSUME NEW S, NEW rank, Ranks(S, rank)
  PROVE  /\ Cardinality(S) \in Nat /\ Len(Sorted(S, rank)) = Cardinality(S)
         /\ \A i \in 1..Cardinality(S) :
              Sorted(S, rank)[i] \in S /\ Place(S, rank, Sorted(S, rank)[i]) = i
         /\ \A p \in S : /\ Place(S, rank, p) \in 1..Cardinality(S)
                         /\ Sorted(S, rank)[Place(S, rank, p)] = p
<1> DEFINE n == Cardinality(S)
           f == [p \in S |-> Place(S, rank, p)]
<1>1. IsFiniteSet(S) /\ n \in Nat
  BY FS_CardinalityType DEF Ranks
<1>2. f \in Injection(S, 1..n)
  <2>1. f \in [S -> 1..n]
    BY PlaceType
  <2>2. \A p, q \in S : f[p] = f[q] => p = q
    BY PlacesDiffer
  <2> HIDE DEF f, n
  <2> QED
    BY <2>1, <2>2 DEF Injection, IsInjective
<1>3. f \in Surjection(S, 1..n)
  <2>1. IsFiniteSet(1..n) /\ Cardinality(1..n) = n
    BY <1>1, FS_Interval
  <2> HIDE DEF f
  <2> QED
    BY <1>2, <2>1, FS_Injection
<1>4. \A i \in 1..n : \E p \in S : Place(S, rank, p) = i
  BY <1>3 DEF Surjection
<1> HIDE DEF f
<1>5. \A i \in 1..n : /\ Sorted(S, rank)[i] \in S
                      /\ Place(S, rank, Sorted(S, rank)[i]) = i
  <2> TAKE i \in 1..n
  <2>1. Sorted(S, rank)[i] = CHOOSE p \in S : Place(S, rank, p) = i
    BY DEF Sorted
  <2> QED
    BY <1>4, <2>1
<1>6. Len(Sorted(S, rank)) = n
  <2>1. Sorted(S, rank) \in [1..n -> S]
    <3>1. Sorted(S, rank) = [i \in 1..n |-> Sorted(S, rank)[i]]
      BY DEF Sorted
    <3> QED
      BY <1>5, <3>1
  <2> HIDE DEF n
  <2> QED
    BY <1>1, <2>1, ListIs
<1>7. ASSUME NEW p \in S
      PROVE  /\ Place(S, rank, p) \in 1..n
             /\ Sorted(S, rank)[Place(S, rank, p)] = p
  <2>1. Place(S, rank, p) \in 1..n
    BY PlaceType
  <2> HIDE DEF n
  <2> QED
    BY <1>5, <2>1, PlacesDiffer
<1> QED
  BY <1>1, <1>5, <1>6, <1>7

-----------------------------------------------------------------------------
(* Places are divided among pages of one size. *)
LEMMA PagePlaces ==
  ASSUME NEW limit \in Nat \ {0}, NEW k \in Nat \ {0}
  PROVE  \E n \in Nat : \E i \in 1..limit : n * limit + i = k
<1> DEFINE n == (k - 1) \div limit
           r == (k - 1) % limit
<1>1. n \in Nat /\ r \in 0..(limit - 1) /\ k - 1 = limit * n + r
  OBVIOUS
<1>2. n * limit = limit * n /\ n * limit \in Nat
  BY <1>1
<1> HIDE DEF n, r
<1>3. r + 1 \in 1..limit /\ n * limit + (r + 1) = k
  BY <1>1, <1>2
<1> QED
  BY <1>1, <1>3

LEMMA Multiples ==
  ASSUME NEW limit \in Nat, NEW n \in Nat, NEW m \in Nat, n < m
  PROVE  n * limit + limit <= m * limit /\ n * limit \in Nat /\ m * limit \in Nat
<1>1. PICK d \in Nat : m = n + 1 + d
  <2>1. m - n - 1 \in Nat /\ m = n + 1 + (m - n - 1)
    OBVIOUS
  <2> QED
    BY <2>1
<1>2. m * limit = n * limit + limit + d * limit
  BY <1>1
<1>3. n * limit \in Nat /\ d * limit \in Nat
  OBVIOUS
<1> QED
  BY <1>2, <1>3

LEMMA OnePlace ==
  ASSUME NEW limit \in Nat \ {0}, NEW n \in Nat, NEW m \in Nat,
         NEW i \in 1..limit, NEW j \in 1..limit, n * limit + i = m * limit + j
  PROVE  n = m /\ i = j
<1>1. n * limit \in Nat /\ m * limit \in Nat
  OBVIOUS
<1>2. ~ (n < m)
  <2> SUFFICES ASSUME n < m PROVE FALSE
    OBVIOUS
  <2>1. n * limit + limit <= m * limit
    BY Multiples
  <2> DEFINE a == n * limit
             b == m * limit
  <2> HIDE DEF a, b
  <2> QED
    BY <1>1, <2>1 DEF a, b
<1>3. ~ (m < n)
  <2> SUFFICES ASSUME m < n PROVE FALSE
    OBVIOUS
  <2>1. m * limit + limit <= n * limit
    BY Multiples
  <2> QED
    BY <1>1, <2>1
<1>4. n = m
  BY <1>2, <1>3
<1> QED
  BY <1>1, <1>4

(* The rows behind an offset. *)
LEMMA RowsAre ==
  ASSUME NEW sorted, NEW n \in Nat, Len(sorted) = n, NEW offset \in Nat, NEW limit \in Nat
  PROVE  /\ \A i : i \in DOMAIN Rows(sorted, offset, limit)
                     <=> i \in 1..limit /\ offset + i <= n
         /\ \A i \in DOMAIN Rows(sorted, offset, limit) :
              Rows(sorted, offset, limit)[i] = sorted[offset + i]
<1> DEFINE size == IF limit < n - offset THEN limit ELSE n - offset
<1>1. Rows(sorted, offset, limit) = [i \in 1..size |-> sorted[offset + i]]
  BY DEF Rows
<1>2. \A i : i \in 1..size <=> i \in 1..limit /\ offset + i <= n
  OBVIOUS
<1> HIDE DEF size
<1> QED
  BY <1>1, <1>2

(* Pages that follow each other, the first of them numbered first, and go  *)
(* on to the end of the list show every row once.                          *)
PagesFollow(pages, sorted, first, limit) ==
  /\ \A n \in DOMAIN pages :
       /\ n \in Nat /\ n - first \in Nat
       /\ \A i : i \in DOMAIN pages[n]
                   <=> i \in 1..limit /\ (n - first) * limit + i <= Len(sorted)
       /\ \A i \in DOMAIN pages[n] : pages[n][i] = sorted[(n - first) * limit + i]
  /\ \A n \in Nat : n * limit < Len(sorted) => n + first \in DOMAIN pages

LEMMA PagesShowOnce ==
  ASSUME NEW S, NEW rank, Ranks(S, rank), NEW limit \in Nat \ {0}, NEW first \in Nat,
         NEW pages, PagesFollow(pages, Sorted(S, rank), first, limit)
  PROVE  ShowOnce(pages, S)
<1> DEFINE sorted == Sorted(S, rank)
           N == Cardinality(S)
<1>1. N \in Nat /\ Len(sorted) = N
  BY SortedIs
<1>2. ASSUME NEW n \in DOMAIN pages, NEW i \in DOMAIN pages[n]
      PROVE  /\ n \in Nat /\ n - first \in Nat
             /\ i \in 1..limit /\ (n - first) * limit \in Nat
             /\ (n - first) * limit + i \in 1..N
             /\ pages[n][i] = sorted[(n - first) * limit + i] /\ pages[n][i] \in S
             /\ Place(S, rank, pages[n][i]) = (n - first) * limit + i
  <2>1. /\ n \in Nat /\ n - first \in Nat /\ i \in 1..limit /\ (n - first) * limit + i <= N
        /\ pages[n][i] = sorted[(n - first) * limit + i]
    BY <1>1, <1>2 DEF PagesFollow
  <2>2. (n - first) * limit \in Nat
    BY <2>1
  <2>3. (n - first) * limit + i \in 1..N
    BY <1>1, <2>1, <2>2
  <2> QED
    BY <2>1, <2>2, <2>3, SortedIs
<1>3. ASSUME NEW p \in S
      PROVE  \E n \in DOMAIN pages : \E i \in DOMAIN pages[n] : pages[n][i] = p
  <2> DEFINE k == Place(S, rank, p)
  <2>1. k \in 1..N /\ sorted[k] = p
    BY SortedIs
  <2> HIDE DEF k, sorted, N
  <2>2. PICK m \in Nat : \E i \in 1..limit : m * limit + i = k
    <3>1. k \in Nat \ {0}
      BY <1>1, <2>1
    <3> QED
      BY <3>1, PagePlaces
  <2>8. PICK i \in 1..limit : m * limit + i = k
    BY <2>2
  <2>3. m * limit \in Nat /\ m * limit < N /\ m * limit + i <= N
    BY <1>1, <2>1, <2>8
  <2>4. m + first \in DOMAIN pages
    BY <1>1, <2>2, <2>3 DEF PagesFollow, sorted
  <2>5. (m + first) - first = m
    BY <2>2
  <2>6. i \in DOMAIN pages[m + first]
    BY <1>1, <2>8, <2>3, <2>4, <2>5 DEF PagesFollow, sorted
  <2>7. pages[m + first][i] = sorted[m * limit + i]
    BY <2>4, <2>5, <2>6 DEF PagesFollow, sorted
  <2> QED
    BY <2>1, <2>8, <2>4, <2>6, <2>7
<1>4. ASSUME NEW n \in DOMAIN pages, NEW m \in DOMAIN pages, NEW i \in DOMAIN pages[n],
             NEW j \in DOMAIN pages[m], pages[n][i] = pages[m][j]
      PROVE  n = m /\ i = j
  <2> DEFINE a == n - first
             b == m - first
  <2>1. /\ a \in Nat /\ b \in Nat /\ i \in 1..limit /\ j \in 1..limit
        /\ a * limit + i = b * limit + j
    BY <1>2, <1>4
  <2>2. a = b => n = m
    <3>1. n = a + first /\ m = b + first
      <4>1. n \in Nat /\ m \in Nat
        BY <1>2, <1>4
      <4> QED
        BY <4>1
    <3> QED
      BY <3>1
  <2> HIDE DEF a, b
  <2>3. a = b /\ i = j
    BY <2>1, OnePlace
  <2> QED
    BY <2>2, <2>3
<1> QED
  BY <1>2, <1>3, <1>4 DEF ShowOnce

(* As many pages as the total fills reach every row that it counts. *)
LEMMA PagesReach ==
  ASSUME NEW limit \in Nat \ {0}, NEW total \in Nat, NEW n \in Nat, n * limit < total
  PROVE  n + 1 <= (total + limit - 1) \div limit
         /\ (total + limit - 1) \div limit \in Nat
<1> DEFINE q == (total + limit - 1) \div limit
           r == (total + limit - 1) % limit
<1>1. q \in Nat /\ r \in 0..(limit - 1) /\ total + limit - 1 = limit * q + r
  <2>1. total + limit - 1 \in Nat
    OBVIOUS
  <2> DEFINE a == total + limit - 1
  <2> HIDE DEF a
  <2>2. ASSUME NEW b \in Nat
        PROVE  /\ b \div limit \in Nat /\ b % limit \in 0..(limit - 1)
               /\ b = limit * (b \div limit) + (b % limit)
    OBVIOUS
  <2>3. a \in Nat
    BY <2>1 DEF a
  <2> QED
    BY <2>2, <2>3 DEF a
<1> HIDE DEF q, r
<1>2. limit * q = q * limit /\ q * limit \in Nat /\ n * limit \in Nat
  BY <1>1
<1>3. ~ (q <= n)
  <2> SUFFICES ASSUME q <= n PROVE FALSE
    OBVIOUS
  <2>1. CASE q = n
    BY <1>1, <1>2, <2>1
  <2>2. CASE q < n
    <3>1. q * limit + limit <= n * limit
      BY <1>1, <2>2, Multiples
    <3> QED
      BY <1>1, <1>2, <3>1
  <2> QED
    BY <1>1, <2>1, <2>2
<1> QED
  BY <1>1, <1>3 DEF q

(* The pages of a list by price, up to a total that counts no less. *)
LEMMA ListedPages ==
  ASSUME NEW S, NEW limit \in Nat \ {0}, NEW total \in Nat,
         Ranks(S, [p \in S |-> p.price]), Cardinality(S) <= total
  PROVE  ShowOnce([n \in 1..((total + limit - 1) \div limit) |->
                     Window(Cheapest(S), n, limit)], S)
<1> DEFINE rank == [p \in S |-> p.price]
           sorted == Sorted(S, rank)
           N == Cardinality(S)
           count == (total + limit - 1) \div limit
           pages == [n \in 1..count |-> Window(Cheapest(S), n, limit)]
<1>1. N \in Nat /\ Len(sorted) = N
  BY SortedIs
<1>2. Cheapest(S) = sorted
  BY DEF Cheapest
<1>3. count \in Int
  OBVIOUS
<1> HIDE DEF sorted, N
<1>4. ASSUME NEW n \in 1..count
      PROVE  /\ n \in Nat /\ n - 1 \in Nat /\ (n - 1) * limit \in Nat
             /\ pages[n] = Rows(sorted, (n - 1) * limit, limit)
  <2>1. n \in Nat /\ n - 1 \in Nat
    BY <1>3
  <2> HIDE DEF count
  <2>2. pages[n] = Rows(sorted, (n - 1) * limit, limit)
    BY <1>2 DEF Window
  <2> QED
    BY <2>1, <2>2
<1>5. ASSUME NEW n \in Nat, n * limit < N
      PROVE  n + 1 \in 1..count
  <2>1. n * limit < total
    <3>1. n * limit \in Nat
      OBVIOUS
    <3> DEFINE a == n * limit
    <3> HIDE DEF a
    <3>2. a \in Nat /\ a < N
      BY <1>5, <3>1 DEF a
    <3>3. N <= total
      BY DEF N
    <3>4. a < total
      BY <1>1, <3>2, <3>3
    <3> QED
      BY <3>4 DEF a
  <2>2. n + 1 <= count /\ count \in Nat
    BY <2>1, PagesReach
  <2> HIDE DEF count
  <2> QED
    BY <2>2
<1> HIDE DEF count
<1>6. DOMAIN pages = 1..count
  OBVIOUS
<1> HIDE DEF pages
<1>7. PagesFollow(pages, sorted, 1, limit)
  <2>1. ASSUME NEW n \in DOMAIN pages
        PROVE  /\ n \in Nat /\ n - 1 \in Nat
               /\ \A i : i \in DOMAIN pages[n]
                           <=> i \in 1..limit /\ (n - 1) * limit + i <= N
               /\ \A i \in DOMAIN pages[n] : pages[n][i] = sorted[(n - 1) * limit + i]
    <3>1. /\ n \in Nat /\ n - 1 \in Nat /\ (n - 1) * limit \in Nat
          /\ pages[n] = Rows(sorted, (n - 1) * limit, limit)
      BY <1>4, <1>6
    <3> DEFINE offset == (n - 1) * limit
    <3> HIDE DEF offset
    <3>2. offset \in Nat /\ pages[n] = Rows(sorted, offset, limit)
      BY <3>1 DEF offset
    <3>3. /\ \A i : i \in DOMAIN pages[n] <=> i \in 1..limit /\ offset + i <= N
          /\ \A i \in DOMAIN pages[n] : pages[n][i] = sorted[offset + i]
      BY <1>1, <3>2, RowsAre
    <3> QED
      BY <3>1, <3>3 DEF offset
  <2> QED
    BY <1>1, <1>5, <1>6, <2>1 DEF PagesFollow
<1> QED
  BY <1>7, PagesShowOnce DEF sorted, pages, count

(* A part of a table has different prices. *)
LEMMA PricesRank ==
  ASSUME NEW table \in PricedTable, NEW store, NEW S,
         S \subseteq {p \in table : p.store = store}
  PROVE  Ranks(S, [p \in S |-> p.price]) /\ IsFiniteSet(S)
<1>1. /\ IsFiniteSet(table) /\ table \subseteq ProductRow
      /\ \A p, q \in table : p.store = q.store /\ p.price = q.price => p = q
  BY DEF PricedTable
<1>2. S \in SUBSET table
  OBVIOUS
<1>3. IsFiniteSet(S)
  BY <1>1, <1>2, FS_Subset
<1>4. \A p \in S : p.price \in Int
  BY <1>1, <1>2 DEF ProductRow
<1>5. \A p, q \in S : p.price = q.price => p = q
  BY <1>1, <1>2
<1> QED
  BY <1>3, <1>4, <1>5 DEF Ranks

(* What the handler makes of the numbers it was sent. *)
LEMMA NumbersAre ==
  /\ \A asked \in Int, default \in 1..100 : LimitOf(asked, default) \in 1..100
  /\ \A n \in Nat \ {0} : PageOf(n) = n
BY DEF LimitOf, PageOf

(* What its answers hold. *)
LEMMA AnswerIs ==
  ASSUME NEW products, NEW total, NEW page, NEW limit
  PROVE  LET a == Answer([products |-> products, total |-> total], page, limit)
         IN a.status = 200 /\ a.products = products /\ a.total = total /\ a.limit = limit
BY DEF Answer

Request(store, category, n, limit) ==
  [store |-> store, query |-> "q", category |-> category, page |-> n, limit |-> limit]
Hits(table, store, category) ==
  {p \in table : /\ p.store = store /\ p.active /\ p.hit
                 /\ category = "missing" \/ category = p.category}
Shelf(table, store, category) ==
  {p \in table : p.store = store /\ p.active /\ p.category = category}

(* What belongs to an answer is finite and has different prices. *)
LEMMA Belongs ==
  ASSUME NEW table \in PricedTable, NEW store, NEW category
  PROVE  LET hits == Hits(table, store, category)
             shelf == Shelf(table, store, category)
             all == Matching(table, store, "missing")
         IN /\ Ranks(hits, [p \in hits |-> p.price]) /\ Ranks(shelf, [p \in shelf |-> p.price])
            /\ Matching(table, store, category) = hits
            /\ {p \in Sold(table, store) : p.category = category} = shelf
            /\ Cardinality(hits) \in Nat /\ Cardinality(shelf) \in Nat
            /\ Cardinality(all) \in Nat /\ Cardinality(hits) <= Cardinality(all)
            /\ category = "missing" => all = hits
<1> DEFINE hits == Hits(table, store, category)
           shelf == Shelf(table, store, category)
           all == Matching(table, store, "missing")
<1>1. /\ Ranks(hits, [p \in hits |-> p.price]) /\ IsFiniteSet(hits)
      /\ Ranks(shelf, [p \in shelf |-> p.price]) /\ IsFiniteSet(shelf)
      /\ IsFiniteSet(all)
  <2>1. all \subseteq {p \in table : p.store = store}
    BY DEF Matching, Sold
  <2>2. hits \subseteq {p \in table : p.store = store}
    BY DEF Hits
  <2>3. shelf \subseteq {p \in table : p.store = store}
    BY DEF Shelf
  <2> HIDE DEF all, hits, shelf
  <2> QED
    BY <2>1, <2>2, <2>3, PricesRank
<1>2. Matching(table, store, category) = hits
  BY DEF Matching, Sold, Hits
<1>3. {p \in Sold(table, store) : p.category = category} = shelf
  BY DEF Sold, Shelf
<1>4. hits \in SUBSET all /\ (category = "missing" => all = hits)
  BY DEF Matching, Sold, Hits
<1> HIDE DEF all, hits, shelf
<1>5. /\ Cardinality(hits) \in Nat /\ Cardinality(shelf) \in Nat /\ Cardinality(all) \in Nat
      /\ Cardinality(hits) <= Cardinality(all)
  BY <1>1, <1>4, FS_Subset, FS_CardinalityType
<1> QED
  BY <1>1, <1>2, <1>3, <1>4, <1>5 DEF all, hits, shelf

Total(table, store, category, client) ==
  IF client = "up" THEN Cardinality(Hits(table, store, category))
  ELSE Cardinality(Matching(table, store, "missing"))

(* The answer to a request for one page. *)
LEMMA FindIs ==
  ASSUME NEW table \in PricedTable, NEW store, store \notin {"missing", "bad"}, NEW category,
         NEW limit \in Int, NEW client, client # "none", NEW n \in Nat \ {0}
  PROVE  Search(table, Request(store, category, n, limit), client)
           = Answer([products |-> Window(Cheapest(Hits(table, store, category)),
                                         n, LimitOf(limit, 20)),
                     total |-> Total(table, store, category, client)], n, LimitOf(limit, 20))
<1> DEFINE r == Request(store, category, n, limit)
           size == LimitOf(limit, 20)
<1>1. PageOf(n) = n /\ size \in 1..100
  BY NumbersAre
<1>2. /\ r.store = store /\ r.query = "q" /\ r.category = category /\ r.page = n
      /\ r.limit = limit
  BY DEF Request
<1> HIDE DEF r
<1>3. ValidSearch(r, size)
  BY <1>1, <1>2 DEF ValidSearch
<1> HIDE DEF size
<1>4. Search(table, r, client)
        = IF client = "up"
            THEN Answer(IndexSearch(table, store, category, n, size), n, size)
            ELSE Answer(RepoSearch(table, store, category, n, size), n, size)
  BY <1>1, <1>2, <1>3 DEF Search, size
<1>5. Matching(table, store, category) = Hits(table, store, category)
  BY Belongs
<1> QED
  BY <1>4, <1>5 DEF IndexSearch, RepoSearch, Total, r, size

LEMMA ListIsShelf ==
  ASSUME NEW table \in PricedTable, NEW store, store \notin {"missing", "bad"}, NEW category,
         category # "missing", NEW limit \in Int, NEW n \in Nat \ {0}
  PROVE  ByCategory(table, Request(store, category, n, limit))
           = Answer([products |-> Window(Cheapest(Shelf(table, store, category)),
                                         n, LimitOf(limit, 50)),
                     total |-> Cardinality(Shelf(table, store, category))],
                    n, LimitOf(limit, 50))
<1> DEFINE r == Request(store, category, n, limit)
           size == LimitOf(limit, 50)
<1>1. PageOf(n) = n
  BY NumbersAre
<1>2. r.store = store /\ r.category = category /\ r.page = n /\ r.limit = limit
  BY DEF Request
<1> HIDE DEF r
<1>3. ByCategory(table, r)
        = Answer(GetByCategory(table, store, category, n, size), n, size)
  BY <1>1, <1>2 DEF ByCategory
<1>4. {p \in Sold(table, store) : p.category = category} = Shelf(table, store, category)
  BY Belongs
<1> QED
  BY <1>3, <1>4 DEF GetByCategory, r

(* The pages of answers that agree on total and limit. *)
LEMMA AnsweredPages ==
  ASSUME NEW S, NEW limit \in 1..100, NEW total \in Nat,
         Ranks(S, [p \in S |-> p.price]), Cardinality(S) <= total,
         NEW pages, pages = [n \in 1..((total + limit - 1) \div limit) |->
                               Window(Cheapest(S), n, limit)]
  PROVE  ShowOnce(pages, S)
<1>1. limit \in Nat \ {0}
  OBVIOUS
<1> QED
  BY <1>1, ListedPages

(* The pages of a search. *)
LEMMA FoundPages ==
  ASSUME NEW table \in PricedTable, NEW store, store \notin {"missing", "bad"}, NEW category,
         NEW limit \in Int, NEW client, client # "none"
  PROVE  LET Find(n) == Search(table, Request(store, category, n, limit), client)
             Count(first) == (first.total + first.limit - 1) \div first.limit
             hits == Hits(table, store, category)
         IN /\ Find(1).status = 200
            /\ ShowOnce([n \in 1..Count(Find(1)) |-> Find(n).products], hits)
            /\ category = "missing" \/ client = "up" => Find(1).total = Cardinality(hits)
<1> DEFINE Find(n) == Search(table, Request(store, category, n, limit), client)
           hits == Hits(table, store, category)
           size == LimitOf(limit, 20)
           total == Total(table, store, category, client)
           count == (total + size - 1) \div size
<1>1. ASSUME NEW n \in Nat \ {0}
      PROVE  /\ Find(n).status = 200 /\ Find(n).total = total /\ Find(n).limit = size
             /\ Find(n).products = Window(Cheapest(hits), n, size)
  <2>1. Find(n) = Answer([products |-> Window(Cheapest(hits), n, size), total |-> total], n, size)
    BY FindIs
  <2> HIDE DEF Find, hits, size, total
  <2> QED
    BY <2>1, AnswerIs
<1>2. /\ total \in Nat /\ Cardinality(hits) <= total /\ Cardinality(hits) \in Nat
      /\ Ranks(hits, [p \in hits |-> p.price])
      /\ category = "missing" \/ client = "up" => total = Cardinality(hits)
  <2> DEFINE all == Matching(table, store, "missing")
  <2>1. /\ Ranks(hits, [p \in hits |-> p.price]) /\ Cardinality(hits) \in Nat
        /\ Cardinality(all) \in Nat /\ Cardinality(hits) <= Cardinality(all)
        /\ category = "missing" => all = hits
    BY Belongs
  <2>2. total = IF client = "up" THEN Cardinality(hits) ELSE Cardinality(all)
    BY DEF Total
  <2> HIDE DEF hits, all, total
  <2> QED
    BY <2>1, <2>2
<1>3. size \in 1..100
  <2>1. 20 \in 1..100
    OBVIOUS
  <2> QED
    BY <2>1, NumbersAre
<1> HIDE DEF Find, hits, size, total
<1>4. /\ Find(1).status = 200 /\ Find(1).total = total /\ Find(1).limit = size
  BY <1>1
<1>5. count \in Int /\ \A n \in 1..count : n \in Nat \ {0}
  BY <1>2, <1>3
<1> HIDE DEF count
<1> DEFINE pages == [n \in 1..count |-> Find(n).products]
<1>6. pages = [n \in 1..count |-> Window(Cheapest(hits), n, size)]
  BY <1>1, <1>5
<1> HIDE DEF pages
<1>7. ShowOnce(pages, hits)
  BY <1>2, <1>3, <1>6, AnsweredPages DEF count
<1>8. (Find(1).total + Find(1).limit - 1) \div Find(1).limit = count
  BY <1>4 DEF count
<1>9. ShowOnce([n \in 1..((Find(1).total + Find(1).limit - 1) \div Find(1).limit)
                   |-> Find(n).products], hits)
  BY <1>7, <1>8 DEF pages
<1> QED
  BY <1>2, <1>4, <1>9 DEF Find, hits

(* The pages of a category. *)
LEMMA ShelfPages ==
  ASSUME NEW table \in PricedTable, NEW store, store \notin {"missing", "bad"}, NEW category,
         category # "missing", NEW limit \in Int
  PROVE  LET List(n) == ByCategory(table, Request(store, category, n, limit))
             Count(first) == (first.total + first.limit - 1) \div first.limit
             shelf == Shelf(table, store, category)
         IN /\ List(1).status = 200 /\ List(1).total = Cardinality(shelf)
            /\ ShowOnce([n \in 1..Count(List(1)) |-> List(n).products], shelf)
<1> DEFINE List(n) == ByCategory(table, Request(store, category, n, limit))
           shelf == Shelf(table, store, category)
           size == LimitOf(limit, 50)
           total == Cardinality(shelf)
           count == (total + size - 1) \div size
<1>1. ASSUME NEW n \in Nat \ {0}
      PROVE  /\ List(n).status = 200 /\ List(n).total = total /\ List(n).limit = size
             /\ List(n).products = Window(Cheapest(shelf), n, size)
  <2>1. List(n) = Answer([products |-> Window(Cheapest(shelf), n, size), total |-> total], n, size)
    BY ListIsShelf
  <2> HIDE DEF List, shelf, size, total
  <2> QED
    BY <2>1, AnswerIs
<1>2. total \in Nat /\ total <= total /\ Ranks(shelf, [p \in shelf |-> p.price])
  <2>1. total \in Nat /\ Ranks(shelf, [p \in shelf |-> p.price])
    BY Belongs
  <2> HIDE DEF total, shelf
  <2> QED
    BY <2>1
<1>3. size \in 1..100
  <2>1. 50 \in 1..100
    OBVIOUS
  <2> QED
    BY <2>1, NumbersAre
<1> HIDE DEF List, shelf, size
<1>4. /\ List(1).status = 200 /\ List(1).total = total /\ List(1).limit = size
  BY <1>1
<1>5. count \in Int /\ \A n \in 1..count : n \in Nat \ {0}
  <2> HIDE DEF total
  <2> QED
    BY <1>2, <1>3
<1> HIDE DEF count
<1> DEFINE pages == [n \in 1..count |-> List(n).products]
<1>6. pages = [n \in 1..count |-> Window(Cheapest(shelf), n, size)]
  BY <1>1, <1>5
<1> HIDE DEF pages
<1>7. ShowOnce(pages, shelf)
  BY <1>2, <1>3, <1>6, AnsweredPages DEF count
<1>8. (List(1).total + List(1).limit - 1) \div List(1).limit = count
  BY <1>4 DEF count
<1>9. ShowOnce([n \in 1..((List(1).total + List(1).limit - 1) \div List(1).limit)
                   |-> List(n).products], shelf)
  BY <1>7, <1>8 DEF pages
<1> QED
  BY <1>4, <1>9 DEF List, shelf

(* A search and the list of a category show every product once, page by    *)
(* page (search.go of the handler, product_repo.go, opensearch.go).        *)
LEMMA SearchPages ==
  ASSUME NEW x, x.table \in PricedTable, x.store \notin {"missing", "bad"}, x.limit \in Int
  PROVE  SearchPagesAreComplete(x)
<1>1. PICK table \in PricedTable, limit \in Int : x.table = table /\ x.limit = limit
  OBVIOUS
<1>2. PICK store, category, client :
        x.store = store /\ x.category = category /\ x.client = client
  OBVIOUS
<1>3. store \notin {"missing", "bad"}
  BY <1>2
<1> DEFINE req(n) == Request(store, category, n, limit)
           Find(n) == Search(table, req(n), client)
           List(n) == ByCategory(table, req(n))
           Count(first) == (first.total + first.limit - 1) \div first.limit
           hits == Hits(table, store, category)
           shelf == Shelf(table, store, category)
<1>4. client # "none" =>
        /\ Find(1).status = 200
        /\ ShowOnce([n \in 1..Count(Find(1)) |-> Find(n).products], hits)
        /\ category = "missing" \/ client = "up" => Find(1).total = Cardinality(hits)
  BY <1>3, FoundPages
<1>5. category # "missing" =>
        /\ List(1).status = 200
        /\ ShowOnce([n \in 1..Count(List(1)) |-> List(n).products], shelf)
        /\ List(1).total = Cardinality(shelf)
  BY <1>3, ShelfPages
<1> QED
  BY <1>1, <1>2, <1>4, <1>5 DEF SearchPagesAreComplete, Request, Hits, Shelf

-----------------------------------------------------------------------------
(* The rows of a store, and those of them behind a number. *)
Own(table, store) == {p \in table : p.store = store}
Numbers(S) == [p \in S |-> p.seq]
Behind(table, store, last) == {p \in table : p.store = store /\ p.seq > last}

LEMMA NumbersRank ==
  ASSUME NEW table \in NumberedTable, NEW store, NEW S, S \subseteq Own(table, store)
  PROVE  Ranks(S, Numbers(S)) /\ IsFiniteSet(S) /\ \A p \in S : p.seq \in Int
<1>1. /\ IsFiniteSet(table) /\ table \subseteq ProductRow
      /\ \A p, q \in table : p.store = q.store /\ p.seq = q.seq => p = q
  BY DEF NumberedTable
<1>2. S \in SUBSET table /\ \A p \in S : p.store = store
  BY DEF Own
<1>3. IsFiniteSet(S)
  BY <1>1, <1>2, FS_Subset
<1>4. \A p \in S : p.seq \in Int
  BY <1>1, <1>2 DEF ProductRow
<1>5. \A p, q \in S : p.seq = q.seq => p = q
  BY <1>1, <1>2
<1> QED
  BY <1>3, <1>4, <1>5 DEF Ranks, Numbers

Smaller(limit, n) == IF limit < n THEN limit ELSE n

(* What a sync reads: the first of the rows behind a number, as many as    *)
(* the limit says, and nothing only when no row is behind it.              *)
LEMMA ReadBehind ==
  ASSUME NEW table \in NumberedTable, NEW store, NEW last \in Int, NEW limit \in Nat \ {0}
  PROVE  LET B == Behind(table, store, last)
             n == Cardinality(B)
             size == Smaller(limit, n)
             read == RepoSync(table, store, last, limit)
         IN /\ n \in Nat /\ size \in 0..n /\ Ranks(B, Numbers(B))
            /\ read \in Seq(B) /\ Len(read) = size /\ DOMAIN read = 1..size
            /\ \A i \in 1..size : Place(B, Numbers(B), read[i]) = i
            /\ \A p \in B : LET i == Place(B, Numbers(B), p)
                            IN i \in 1..n /\ (i <= size => read[i] = p)
            /\ read = <<>> <=> B = {}
<1> DEFINE B == Behind(table, store, last)
           n == Cardinality(B)
           rest == Sorted(B, Numbers(B))
           size == Smaller(limit, n)
           read == RepoSync(table, store, last, limit)
<1>1. Ranks(B, Numbers(B)) /\ IsFiniteSet(B)
  <2>1. B \subseteq Own(table, store)
    BY DEF Behind, Own
  <2> QED
    BY <2>1, NumbersRank
<1>2. /\ n \in Nat /\ Len(rest) = n
      /\ \A i \in 1..n : rest[i] \in B /\ Place(B, Numbers(B), rest[i]) = i
      /\ \A p \in B : /\ Place(B, Numbers(B), p) \in 1..n
                      /\ rest[Place(B, Numbers(B), p)] = p
  BY <1>1, SortedIs
<1>3. read = Rows(rest, 0, limit)
  BY DEF RepoSync, Behind, Earliest, Numbers
<1>4. n = 0 <=> B = {}
  BY <1>1, FS_EmptySet
<1> HIDE DEF B, rest, read, n
<1>5. size \in 0..n /\ size \in Nat /\ (size = 0 <=> n = 0)
  BY <1>2 DEF Smaller
<1>6. read = [i \in 1..size |-> rest[0 + i]]
  <2>1. (IF limit < Len(rest) - 0 THEN limit ELSE Len(rest) - 0) = size
    BY <1>2 DEF Smaller
  <2> QED
    BY <1>3, <2>1 DEF Rows
<1> HIDE DEF size
<1>7. \A i \in 1..size : read[i] = rest[i] /\ i \in 1..n
  <2> TAKE i \in 1..size
  <2>1. 0 + i = i /\ i \in 1..n
    BY <1>2, <1>5
  <2> QED
    BY <1>6, <2>1
<1>8. read \in Seq(B) /\ Len(read) = size /\ DOMAIN read = 1..size
  <2>1. read = [i \in 1..size |-> read[i]]
    BY <1>6
  <2>2. read \in [1..size -> B]
    BY <1>2, <1>7, <2>1
  <2> QED
    BY <1>5, <1>6, <2>2, ListIs
<1>9. read = <<>> <=> B = {}
  BY <1>4, <1>5, <1>8, EmptySeq
<1>10. \A i \in 1..size : Place(B, Numbers(B), read[i]) = i
  BY <1>2, <1>7
<1>11. ASSUME NEW p \in B
       PROVE  /\ Place(B, Numbers(B), p) \in 1..n
              /\ Place(B, Numbers(B), p) <= size => read[Place(B, Numbers(B), p)] = p
  <2> DEFINE i == Place(B, Numbers(B), p)
  <2>1. i \in 1..n /\ rest[i] = p
    BY <1>2
  <2> HIDE DEF i
  <2>2. i <= size => i \in 1..size
    BY <1>2, <1>5, <2>1
  <2> QED
    BY <1>7, <2>1, <2>2 DEF i
<1> QED
  BY <1>1, <1>2, <1>5, <1>8, <1>9, <1>10, <1>11 DEF B, n, read, size

(* An answer that sends each of the rows S between last and the number it  *)
(* gives once, and nothing else; it says more only after sending a row.    *)
Sends(S, last, answer) ==
  /\ answer = [status |-> 200, products |-> answer.products,
               next |-> answer.next, more |-> answer.more]
  /\ last \in Int /\ answer.next \in Int /\ last <= answer.next
  /\ \A i \in DOMAIN answer.products :
       LET p == answer.products[i] IN p \in S /\ p.seq > last /\ p.seq <= answer.next
  /\ \A p \in S : (p.seq > last /\ p.seq <= answer.next) =>
       \E i \in DOMAIN answer.products : answer.products[i] = p
  /\ \A i, j \in DOMAIN answer.products :
       answer.products[i] = answer.products[j] => i = j
  /\ answer.more => \E p \in S : p.seq > last /\ p.seq <= answer.next

(* A client that has the rows up to last asks for more. *)
Asks(table, last, limit) ==
  table \in NumberedTable /\ last \in Nat /\ limit \in 1..1000

(* That is what Sync answers; it gets further if a row is left behind last, *)
(* and leaves none when its second query worked and it says no more.       *)
LEMMA SyncSends ==
  ASSUME NEW table, NEW store, NEW last, NEW limit, NEW blind, Asks(table, last, limit)
  PROVE  LET answer == Sync(table, store, last, limit, blind)
         IN /\ Sends(Own(table, store), last, answer) /\ answer.next \in Nat
            /\ (\E p \in Own(table, store) : p.seq > last) => answer.next > last
            /\ ~ blind /\ ~ answer.more => \A p \in Own(table, store) : ~ (p.seq > answer.next)
<1> DEFINE S == Own(table, store)
           B == Behind(table, store, last)
           n == Cardinality(B)
           size == Smaller(limit, n)
           read == RepoSync(table, store, last, limit)
           next == NextSyncSeq(read, last)
           beyond == RepoSync(table, store, next, 1)
           answer == Sync(table, store, last, limit, blind)
<1>1. /\ table \in NumberedTable /\ last \in Nat /\ last \in Int /\ limit \in 1..1000
      /\ limit \in Nat \ {0} /\ 1 \in Nat \ {0}
  BY DEF Asks
<1>2. n \in Nat /\ size \in 0..n /\ Ranks(B, Numbers(B))
  <2>1. n \in Nat /\ size \in 0..n
    BY <1>1, ReadBehind
  <2>2. Ranks(B, Numbers(B))
    BY <1>1, ReadBehind
  <2> QED
    BY <2>1, <2>2
<1>3. read \in Seq(B) /\ Len(read) = size /\ DOMAIN read = 1..size
  BY <1>1, ReadBehind
<1>4. \A i \in 1..size : Place(B, Numbers(B), read[i]) = i
  BY <1>1, ReadBehind
<1>5. \A p \in B : /\ Place(B, Numbers(B), p) \in 1..n
                   /\ Place(B, Numbers(B), p) <= size => read[Place(B, Numbers(B), p)] = p
  BY <1>1, ReadBehind
<1>6. read = <<>> <=> B = {}
  BY <1>1, ReadBehind
<1>7. \A p \in S : p.seq \in Int
  BY <1>1, NumbersRank
<1>8. /\ B = {p \in S : p.seq > last}
      /\ \A p \in B : Numbers(B)[p] = p.seq
      /\ \A m : Behind(table, store, m) = {p \in S : p.seq > m}
  BY DEF Behind, Own, Numbers
<1>9. answer = [status |-> 200, products |-> read, next |-> next,
                more |-> ~ blind /\ read # <<>> /\ beyond # <<>>]
  <2>1. ~ (last < 0 \/ limit \notin 1..1000)
    BY <1>1
  <2> HIDE DEF read, next, beyond
  <2> QED
    BY <2>1 DEF Sync, read, next, beyond
<1> HIDE DEF S, B, n, size, read, answer, beyond
<1>10. \A i \in 1..size : read[i] \in B
  BY <1>3
<1>11. /\ next \in Nat /\ last <= next
       /\ \A p \in B : p.seq <= next <=> Place(B, Numbers(B), p) <= size
       /\ B # {} => next > last /\ \E p \in B : p.seq <= next
  <2>1. CASE B = {}
    <3>1. next = last
      BY <1>6, <2>1 DEF NextSyncSeq
    <3> QED
      BY <1>1, <2>1, <3>1
  <2>2. CASE B # {}
    <3>1. next = read[size].seq /\ size \in 1..size
      <4>1. read # <<>>
        BY <1>6, <2>2
      <4>2. size # 0
        BY <1>3, <4>1, EmptySeq
      <4> QED
        BY <1>2, <1>3, <4>1, <4>2 DEF NextSyncSeq
    <3>2. PICK q \in B : q = read[size] /\ Place(B, Numbers(B), q) = size
      BY <1>4, <1>10, <3>1
    <3>3. next = q.seq /\ next \in Int /\ next > last /\ q \in S /\ Numbers(B)[q] = next
      BY <1>7, <1>8, <3>1, <3>2
    <3>4. next \in Nat /\ last <= next
      BY <1>1, <3>3
    <3>5. ASSUME NEW p \in B
          PROVE  p.seq <= next <=> Place(B, Numbers(B), p) <= size
      <4>1. p.seq \in Int /\ Numbers(B)[p] = p.seq
        BY <1>7, <1>8
      <4>2. Place(B, Numbers(B), p) \in Int /\ size \in Int
        BY <1>2, <1>5
      <4>3. p.seq < next => Place(B, Numbers(B), p) < Place(B, Numbers(B), q)
        BY <1>2, <3>3, <4>1, PlaceGrows
      <4>4. next < p.seq => Place(B, Numbers(B), q) < Place(B, Numbers(B), p)
        BY <1>2, <3>3, <4>1, PlaceGrows
      <4>5. p.seq = next => p = q
        BY <1>2, <3>3, <4>1 DEF Ranks
      <4> HIDE DEF next
      <4> QED
        BY <3>2, <3>3, <4>1, <4>2, <4>3, <4>4, <4>5
    <3>6. q.seq <= next
      BY <3>3
    <3> HIDE DEF next
    <3> QED
      BY <3>3, <3>4, <3>5, <3>6
  <2> QED
    BY <2>1, <2>2
<1> HIDE DEF next
<1>12. beyond = <<>> <=> \A p \in S : ~ (p.seq > next)
  <2>1. next \in Int
    BY <1>11
  <2>2. beyond = <<>> <=> Behind(table, store, next) = {}
    BY <1>1, <2>1, ReadBehind DEF beyond
  <2> QED
    BY <1>8, <2>2
<1>13. /\ answer.products = read /\ answer.next = next
       /\ answer.more <=> ~ blind /\ read # <<>> /\ beyond # <<>>
       /\ answer = [status |-> 200, products |-> answer.products,
                    next |-> answer.next, more |-> answer.more]
  BY <1>9
<1>14. \A i \in DOMAIN read : read[i] \in S /\ read[i].seq > last /\ read[i].seq <= next
  <2> TAKE i \in DOMAIN read
  <2>1. i \in 1..size /\ read[i] \in B /\ Place(B, Numbers(B), read[i]) = i /\ i <= size
    BY <1>2, <1>3, <1>4, <1>10
  <2>2. read[i].seq <= next
    BY <1>11, <2>1
  <2> QED
    BY <1>8, <2>1, <2>2
<1>15. ASSUME NEW p \in S, p.seq > last, p.seq <= next
       PROVE  \E i \in DOMAIN read : read[i] = p
  <2> DEFINE i == Place(B, Numbers(B), p)
  <2>1. p \in B
    BY <1>8, <1>15
  <2>2. i \in 1..n /\ i <= size /\ read[i] = p
    BY <1>5, <1>11, <1>15, <2>1
  <2> HIDE DEF i
  <2>3. i \in DOMAIN read
    BY <1>2, <1>3, <2>2
  <2> QED
    BY <2>2, <2>3
<1>16. \A i, j \in DOMAIN read : read[i] = read[j] => i = j
  BY <1>3, <1>4
<1>17. answer.more => \E p \in S : p.seq > last /\ p.seq <= next
  BY <1>6, <1>8, <1>11, <1>13
<1>18. Sends(S, last, answer)
  <2>1. next \in Int
    BY <1>11
  <2> QED
    BY <1>1, <1>11, <1>13, <1>14, <1>15, <1>16, <1>17, <2>1 DEF Sends
<1>19. (\E p \in S : p.seq > last) => answer.next > last
  BY <1>8, <1>11, <1>13
<1>20. ~ blind /\ ~ answer.more => \A p \in S : ~ (p.seq > answer.next)
  <2> SUFFICES ASSUME ~ blind, ~ answer.more, NEW p \in S, p.seq > next
               PROVE  FALSE
    BY <1>13
  <2>1. beyond # <<>>
    BY <1>12
  <2>2. B = {}
    BY <1>6, <1>13, <2>1
  <2>3. p.seq > last
    BY <1>1, <1>7, <1>11
  <2> QED
    BY <1>8, <2>2, <2>3
<1> QED
  BY <1>11, <1>13, <1>18, <1>19, <1>20 DEF S, answer

(* What a client gets after an answer. *)
Following(table, store, limit, blind, answer) ==
  IF answer.more THEN Sync(table, store, answer.next, limit, blind)
  ELSE [answer EXCEPT !.products = <<>>]

(* The answers are what their definition says. *)
LEMMA AnswersAre ==
  ASSUME NEW table, NEW store, NEW from, NEW limit, NEW blind, Cardinality(table) \in Nat
  PROVE  LET answers == SyncAnswers(table, store, from, limit, blind)
         IN /\ DOMAIN answers = 0..Cardinality(table)
            /\ answers[0] = Sync(table, store, from, limit, 0 \in blind)
            /\ \A i \in 1..Cardinality(table) :
                 answers[i] = Following(table, store, limit, i \in blind, answers[i - 1])
<1> DEFINE n == Cardinality(table)
           begin == Sync(table, store, from, limit, 0 \in blind)
           Then(i, a) == Following(table, store, limit, i \in blind, a)
           Rec(g, k) == g = [i \in 0..k |-> IF i = 0 THEN begin ELSE Then(i, g[i - 1])]
           S == {k \in 0..n : \E g : Rec(g, k)}
<1>1. n \in Nat
  OBVIOUS
<1>2. SyncAnswers(table, store, from, limit, blind) = CHOOSE g : Rec(g, n)
  BY DEF SyncAnswers, Following
<1> HIDE DEF n, begin, Then
<1>3. 0 \in S
  <2> DEFINE g == [i \in 0..0 |-> begin]
  <2>1. Rec(g, 0)
    <3>1. \A i \in 0..0 : g[i] = IF i = 0 THEN begin ELSE Then(i, g[i - 1])
      OBVIOUS
    <3>2. g = [i \in 0..0 |-> g[i]]
      OBVIOUS
    <3> HIDE DEF g
    <3> QED
      BY <3>1, <3>2
  <2> HIDE DEF Rec, g
  <2> QED
    BY <1>1, <2>1
<1>4. ASSUME NEW k \in 1..n, k - 1 \in S
      PROVE  k \in S
  <2>1. PICK g : Rec(g, k - 1)
    BY <1>4
  <2> DEFINE h == [i \in 0..k |-> IF i = k THEN Then(k, g[k - 1]) ELSE g[i]]
  <2>2. \A i \in 0..(k - 1) : h[i] = g[i]
    BY <1>1
  <2>3. \A i \in 0..k : i # 0 => i - 1 \in 0..(k - 1)
    BY <1>1
  <2>4. ASSUME NEW i \in 0..k
        PROVE  h[i] = IF i = 0 THEN begin ELSE Then(i, h[i - 1])
    <3>1. CASE i = k
      <4>1. k # 0 /\ h[k] = Then(k, g[k - 1]) /\ h[k - 1] = g[k - 1]
        BY <1>1, <2>2, <2>3
      <4> QED
        BY <3>1, <4>1
    <3>2. CASE i # k
      <4>1. i \in 0..(k - 1)
        BY <1>1, <3>2
      <4>2. h[i] = g[i] /\ g[i] = IF i = 0 THEN begin ELSE Then(i, g[i - 1])
        BY <2>1, <2>2, <4>1
      <4>3. i # 0 => h[i - 1] = g[i - 1]
        BY <2>2, <2>3
      <4> QED
        BY <4>2, <4>3
    <3> QED
      BY <3>1, <3>2
  <2>5. h = [i \in 0..k |-> h[i]]
    OBVIOUS
  <2> HIDE DEF h
  <2>6. Rec(h, k)
    BY <2>4, <2>5
  <2> QED
    BY <1>1, <2>6
<1>5. PICK g : Rec(g, n)
  <2>1. n \in 0..n
    BY <1>1
  <2>2. 0..n \subseteq S
    <3> HIDE DEF S
    <3> QED
      BY <1>1, <1>3, <1>4, StepByStep
  <2> QED
    BY <2>1, <2>2
<1> DEFINE answers == SyncAnswers(table, store, from, limit, blind)
<1>6. Rec(answers, n)
  BY <1>2, <1>5
<1> HIDE DEF answers
<1>7. /\ DOMAIN answers = 0..n /\ answers[0] = begin
      /\ \A i \in 1..n : answers[i] = Then(i, answers[i - 1])
  <2>1. DOMAIN answers = 0..n
    BY <1>6
  <2>2. answers[0] = begin
    BY <1>1, <1>6
  <2>3. \A i \in 1..n : answers[i] = Then(i, answers[i - 1])
    BY <1>1, <1>6
  <2> QED
    BY <2>1, <2>2, <2>3
<1> QED
  BY <1>7 DEF answers, n, begin, Then

(* Where the client stands before its answer number k. *)
Before(answers, from, k) == IF k = 0 THEN from ELSE answers[k - 1].next

(* Answer number k: it sends the rows between where the client stood and   *)
(* where it stands then, and if it says more, enough rows are behind it no *)
(* longer that the answers do not run out; if it does not, none is left,   *)
(* or a second query has failed.                                           *)
Answered(table, store, from, blind, answers, k) ==
  LET S == Own(table, store)
      left == Behind(table, store, answers[k].next)
  IN /\ Sends(S, Before(answers, from, k), answers[k]) /\ answers[k].next \in Nat
     /\ k + Cardinality(left) < Cardinality(table) \/ ~ answers[k].more
     /\ left = {} \/ answers[k].more \/ blind # {}

(* Fewer rows are left behind an answer that sends one. *)
LEMMA LeftBehind ==
  ASSUME NEW table \in NumberedTable, NEW store, NEW last \in Int, NEW next \in Int,
         last <= next
  PROVE  LET S == Own(table, store)
             before == Behind(table, store, last)
             after == Behind(table, store, next)
         IN /\ Cardinality(before) \in Nat /\ Cardinality(after) \in Nat
            /\ Cardinality(before) <= Cardinality(table) /\ Cardinality(table) \in Nat
            /\ (\E p \in S : p.seq > last /\ p.seq <= next) =>
                 Cardinality(after) < Cardinality(before)
<1> DEFINE S == Own(table, store)
           before == Behind(table, store, last)
           after == Behind(table, store, next)
<1>1. \A p \in S : p.seq \in Int
  BY NumbersRank
<1>2. IsFiniteSet(table) /\ S \subseteq table
  BY DEF NumberedTable, Own
<1>3. before = {p \in S : p.seq > last} /\ after = {p \in S : p.seq > next}
  BY DEF Behind, Own
<1> HIDE DEF S, before, after
<1>4. before \in SUBSET table /\ after \in SUBSET before
  BY <1>1, <1>2, <1>3
<1>5. (\E p \in S : p.seq > last /\ p.seq <= next) => after # before
  BY <1>1, <1>3
<1>6. IsFiniteSet(before) /\ IsFiniteSet(after) /\ Cardinality(before) <= Cardinality(table)
  BY <1>2, <1>4, FS_Subset
<1>7. /\ Cardinality(before) \in Nat /\ Cardinality(after) \in Nat
      /\ Cardinality(table) \in Nat
  BY <1>2, <1>6, FS_CardinalityType
<1>8. after # before => Cardinality(after) < Cardinality(before)
  <2>1. /\ Cardinality(after) <= Cardinality(before)
        /\ Cardinality(before) = Cardinality(after) => before = after
    BY <1>4, <1>6, FS_Subset
  <2> QED
    BY <1>7, <2>1
<1> QED
  BY <1>5, <1>6, <1>7, <1>8 DEF S, before, after

LEMMA AllAnswered ==
  ASSUME NEW table, NEW store, NEW from, NEW limit, NEW blind, Asks(table, from, limit)
  PROVE  LET answers == SyncAnswers(table, store, from, limit, blind)
         IN \A k \in 0..Cardinality(table) : Answered(table, store, from, blind, answers, k)
<1> DEFINE S == Own(table, store)
           c == Cardinality(table)
           answers == SyncAnswers(table, store, from, limit, blind)
           T == {k \in 0..c : Answered(table, store, from, blind, answers, k)}
<1>1. table \in NumberedTable /\ from \in Nat /\ limit \in 1..1000
  BY DEF Asks
<1>2. c \in Nat
  BY <1>1, FS_CardinalityType DEF NumberedTable
<1>3. /\ answers[0] = Sync(table, store, from, limit, 0 \in blind)
      /\ \A i \in 1..c : answers[i] = Following(table, store, limit, i \in blind, answers[i - 1])
  <2>1. answers[0] = Sync(table, store, from, limit, 0 \in blind)
    BY <1>2, AnswersAre
  <2>2. \A i \in 1..c : answers[i] = Following(table, store, limit, i \in blind, answers[i - 1])
    BY <1>2, AnswersAre
  <2> QED
    BY <2>1, <2>2
<1>4. \A p \in S : p.seq \in Int
  BY <1>1, NumbersRank
<1> HIDE DEF S, c, answers
<1>5. ASSUME NEW last, last \in Nat, NEW k, NEW failed, failed <=> k \in blind,
             NEW a, a = Sync(table, store, last, limit, failed)
      PROVE  /\ Sends(S, last, a) /\ a.next \in Nat
             /\ Cardinality(Behind(table, store, last)) \in Nat
             /\ Cardinality(Behind(table, store, a.next)) \in Nat
             /\ Cardinality(Behind(table, store, last)) <= c
             /\ a.more => Cardinality(Behind(table, store, a.next))
                            < Cardinality(Behind(table, store, last))
             /\ Behind(table, store, a.next) = {} \/ a.more \/ blind # {}
  <2>1. Asks(table, last, limit)
    BY <1>1, <1>5 DEF Asks
  <2>2. /\ Sends(S, last, a) /\ a.next \in Nat
        /\ ~ failed /\ ~ a.more => \A p \in S : ~ (p.seq > a.next)
    BY <1>5, <2>1, SyncSends DEF S
  <2>3. last \in Int /\ a.next \in Int /\ last <= a.next
        /\ (a.more => \E p \in S : p.seq > last /\ p.seq <= a.next)
    BY <2>2 DEF Sends
  <2>4. /\ Cardinality(Behind(table, store, last)) \in Nat
        /\ Cardinality(Behind(table, store, a.next)) \in Nat
        /\ Cardinality(Behind(table, store, last)) <= c
        /\ (\E p \in S : p.seq > last /\ p.seq <= a.next) =>
             Cardinality(Behind(table, store, a.next)) < Cardinality(Behind(table, store, last))
    <3>1. PICK start \in Int, next \in Int : start = last /\ next = a.next /\ start <= next
      BY <2>3
    <3>2. /\ Cardinality(Behind(table, store, start)) \in Nat
          /\ Cardinality(Behind(table, store, next)) \in Nat
          /\ Cardinality(Behind(table, store, start)) <= c
          /\ (\E p \in S : p.seq > start /\ p.seq <= next) =>
               Cardinality(Behind(table, store, next)) < Cardinality(Behind(table, store, start))
      BY <1>1, <3>1, LeftBehind DEF S, c
    <3> QED
      BY <3>1, <3>2
  <2>5. Behind(table, store, a.next) = {} \/ a.more \/ blind # {}
    <3>1. Behind(table, store, a.next) = {p \in S : p.seq > a.next}
      BY DEF Behind, S, Own
    <3> QED
      BY <1>5, <2>2, <3>1
  <2> QED
    BY <2>2, <2>3, <2>4, <2>5
<1>6. 0 \in T
  <2>1. PICK failed : failed <=> 0 \in blind
    OBVIOUS
  <2>2. answers[0] = Sync(table, store, from, limit, failed)
    BY <1>3, <2>1
  <2>3. Before(answers, from, 0) = from
    BY DEF Before
  <2>4. PICK a : a = answers[0]
    OBVIOUS
  <2>5. /\ Sends(S, from, a) /\ a.next \in Nat
        /\ Cardinality(Behind(table, store, from)) \in Nat
        /\ Cardinality(Behind(table, store, a.next)) \in Nat
        /\ Cardinality(Behind(table, store, from)) <= c
        /\ a.more => Cardinality(Behind(table, store, a.next))
                       < Cardinality(Behind(table, store, from))
        /\ Behind(table, store, a.next) = {} \/ a.more \/ blind # {}
    BY <1>1, <1>5, <2>1, <2>2, <2>4
  <2> DEFINE before == Cardinality(Behind(table, store, from))
             after == Cardinality(Behind(table, store, a.next))
  <2>6. 0 + after < c \/ ~ a.more
    <3> HIDE DEF before, after
    <3> QED
      BY <1>2, <2>5 DEF before, after
  <2>7. Answered(table, store, from, blind, answers, 0)
    BY <2>3, <2>4, <2>5, <2>6 DEF Answered, S, c
  <2> QED
    BY <1>2, <2>7
<1>7. ASSUME NEW k \in 1..c, k - 1 \in T
      PROVE  k \in T
  <2>1. k \in 0..c /\ k \in Nat /\ k # 0 /\ k - 1 \in Nat
    BY <1>2
  <2>2. PICK a : a = answers[k - 1]
    OBVIOUS
  <2>3. PICK b : b = answers[k]
    OBVIOUS
  <2>4. /\ Sends(S, Before(answers, from, k - 1), a) /\ a.next \in Nat
        /\ (k - 1) + Cardinality(Behind(table, store, a.next)) < c \/ ~ a.more
        /\ Behind(table, store, a.next) = {} \/ a.more \/ blind # {}
    BY <1>7, <2>2 DEF Answered, S, c
  <2>5. Before(answers, from, k) = a.next
    BY <2>1, <2>2 DEF Before
  <2>6. b = Following(table, store, limit, k \in blind, a)
    BY <1>3, <2>2, <2>3
  <2>7. /\ Sends(S, a.next, b) /\ b.next \in Nat
        /\ k + Cardinality(Behind(table, store, b.next)) < c \/ ~ b.more
        /\ Behind(table, store, b.next) = {} \/ b.more \/ blind # {}
    <3>1. CASE a.more
      <4>1. PICK failed : failed <=> k \in blind
        OBVIOUS
      <4>2. b = Sync(table, store, a.next, limit, failed)
        BY <2>6, <3>1, <4>1 DEF Following
      <4>3. PICK last \in Nat : last = a.next
        BY <2>4
      <4>4. /\ Sends(S, last, b) /\ b.next \in Nat
            /\ Cardinality(Behind(table, store, last)) \in Nat
            /\ Cardinality(Behind(table, store, b.next)) \in Nat
            /\ b.more => Cardinality(Behind(table, store, b.next))
                           < Cardinality(Behind(table, store, last))
            /\ Behind(table, store, b.next) = {} \/ b.more \/ blind # {}
        BY <1>5, <4>1, <4>2, <4>3
      <4>5. (k - 1) + Cardinality(Behind(table, store, last)) < c
        BY <2>4, <3>1, <4>3
      <4> DEFINE before == Cardinality(Behind(table, store, last))
                 after == Cardinality(Behind(table, store, b.next))
      <4>6. k + after < c \/ ~ b.more
        <5> HIDE DEF before, after
        <5> QED
          BY <1>2, <2>1, <4>4, <4>5 DEF before, after
      <4> QED
        BY <4>3, <4>4, <4>6
    <3>2. CASE ~ a.more
      <4>1. a = [status |-> 200, products |-> a.products, next |-> a.next, more |-> a.more]
        BY <2>4 DEF Sends
      <4>2. b = [status |-> 200, products |-> <<>>, next |-> a.next, more |-> a.more]
        <5>1. b = [a EXCEPT !.products = <<>>]
          BY <2>6, <3>2 DEF Following
        <5> QED
          BY <4>1, <5>1
      <4>3. /\ b.next = a.next /\ b.more = a.more /\ b.products = <<>>
            /\ DOMAIN b.products = {}
            /\ b = [status |-> 200, products |-> b.products, next |-> b.next, more |-> b.more]
        BY <4>2
      <4>4. a.next \in Int /\ a.next <= a.next
        BY <2>4
      <4>5. \A p \in S : ~ (p.seq > a.next /\ p.seq <= a.next)
        BY <1>4, <4>4
      <4>6. Sends(S, a.next, b)
        BY <3>2, <4>3, <4>4, <4>5 DEF Sends
      <4> QED
        BY <2>4, <3>2, <4>3, <4>6
    <3> QED
      BY <3>1, <3>2
  <2>8. Answered(table, store, from, blind, answers, k)
    BY <2>3, <2>5, <2>7 DEF Answered, S, c
  <2> QED
    BY <2>1, <2>8
<1> HIDE DEF T
<1>8. 0..c \subseteq T
  BY <1>2, <1>6, <1>7, StepByStep
<1> QED
  BY <1>8 DEF T, c, answers

(* Wherever a sync begins and wherever an error makes it stop, no row of   *)
(* the store is skipped or sent twice (sync.go and product_repo.go of the  *)
(* catalog service).                                                       *)
LEMMA SyncPages ==
  ASSUME NEW x, Asks(x.table, x.from, x.limit)
  PROVE  SyncPagesAreComplete(x)
<1>1. PICK table, from, limit, store, blind :
        /\ x.table = table /\ x.from = from /\ x.limit = limit
        /\ x.store = store /\ x.blind = blind
  OBVIOUS
<1> DEFINE S == Own(table, store)
           c == Cardinality(table)
           answers == SyncAnswers(table, store, from, limit, blind)
           Start(k) == Before(answers, from, k)
           last == answers[c]
           pages == [k \in DOMAIN answers |-> answers[k].products]
           sent == {p \in S : p.seq > from /\ p.seq <= last.next}
<1>2. Asks(table, from, limit) /\ table \in NumberedTable /\ from \in Nat
  BY <1>1 DEF Asks
<1>3. c \in Nat /\ \A p \in S : p.seq \in Int
  BY <1>2, FS_CardinalityType, NumbersRank DEF NumberedTable
<1>4. DOMAIN answers = 0..c
  BY <1>3, AnswersAre
<1>5. answers[0] = Sync(table, store, from, limit, 0 \in blind)
  BY <1>3, AnswersAre
<1>6. \A k \in 0..c : Answered(table, store, from, blind, answers, k)
  BY <1>2, AllAnswered
<1> HIDE DEF S, c, answers
<1>7. ASSUME NEW k \in 0..c
      PROVE  /\ Start(k) \in Int /\ answers[k].next \in Int /\ Start(k) <= answers[k].next
             /\ \A i \in DOMAIN answers[k].products :
                  LET p == answers[k].products[i]
                  IN p \in S /\ p.seq > Start(k) /\ p.seq <= answers[k].next
             /\ \A p \in S : (p.seq > Start(k) /\ p.seq <= answers[k].next) =>
                  \E i \in DOMAIN answers[k].products : answers[k].products[i] = p
             /\ \A i, j \in DOMAIN answers[k].products :
                  answers[k].products[i] = answers[k].products[j] => i = j
  BY <1>6 DEF Answered, Sends, S
<1>8. /\ Start(0) = from
      /\ \A k \in 1..c : Start(k) = answers[k - 1].next /\ k - 1 \in 0..c /\ k \in 0..c
  <2>1. \A k \in 1..c : k # 0 /\ k - 1 \in 0..c /\ k \in 0..c
    BY <1>3
  <2> QED
    BY <2>1 DEF Before
<1> HIDE DEF Start
<1>9. ASSUME NEW k \in 0..c
      PROVE  /\ from <= Start(k)
             /\ \A m \in 0..c : m < k => answers[m].next <= Start(k)
             /\ \A p \in S : p.seq > from /\ p.seq <= answers[k].next =>
                  \E m \in 0..c : \E i \in DOMAIN answers[m].products : answers[m].products[i] = p
  <2> DEFINE Found(p) == \E m \in 0..c : \E i \in DOMAIN answers[m].products :
                           answers[m].products[i] = p
             T == {j \in 0..c : /\ from <= Start(j)
                                /\ \A m \in 0..c : m < j => answers[m].next <= Start(j)
                                /\ \A p \in S : p.seq > from /\ p.seq <= answers[j].next => Found(p)}
  <2>1. ASSUME NEW j \in 0..c, NEW p \in S, p.seq > Start(j), p.seq <= answers[j].next
        PROVE  Found(p)
    BY <1>7, <2>1
  <2> HIDE DEF Found
  <2>2. 0 \in T
    <3>1. 0 \in 0..c /\ from <= Start(0)
      BY <1>2, <1>3, <1>8
    <3>2. \A m \in 0..c : ~ (m < 0)
      BY <1>3
    <3>3. \A p \in S : p.seq > from /\ p.seq <= answers[0].next => Found(p)
      BY <1>8, <2>1, <3>1
    <3> QED
      BY <3>1, <3>2, <3>3
  <2>3. ASSUME NEW j \in 1..c, j - 1 \in T
        PROVE  j \in T
    <3>1. /\ j - 1 \in 0..c /\ j \in 0..c /\ Start(j) = answers[j - 1].next
          /\ from <= Start(j - 1)
          /\ \A m \in 0..c : m < j - 1 => answers[m].next <= Start(j - 1)
          /\ \A p \in S : p.seq > from /\ p.seq <= answers[j - 1].next => Found(p)
      BY <1>8, <2>3
    <3>2. Start(j - 1) \in Int /\ Start(j) \in Int /\ Start(j - 1) <= Start(j)
      BY <1>7, <3>1
    <3>3. from <= Start(j)
      BY <1>2, <3>1, <3>2
    <3>4. ASSUME NEW m \in 0..c, m < j
          PROVE  answers[m].next <= Start(j)
      <4>1. m = j - 1 \/ m < j - 1
        BY <1>3, <3>4
      <4>2. answers[m].next \in Int
        BY <1>7
      <4> QED
        BY <3>1, <3>2, <4>1, <4>2
    <3>5. ASSUME NEW p \in S, p.seq > from, p.seq <= answers[j].next
          PROVE  Found(p)
      <4>1. p.seq \in Int
        BY <1>3
      <4>2. p.seq > Start(j) \/ p.seq <= answers[j - 1].next
        BY <3>1, <3>2, <4>1
      <4> QED
        BY <2>1, <3>1, <3>5, <4>2
    <3> QED
      BY <3>1, <3>3, <3>4, <3>5
  <2> HIDE DEF T
  <2>4. 0..c \subseteq T
    BY <1>3, <2>2, <2>3, StepByStep
  <2> QED
    BY <2>4 DEF T, Found
<1>10. c \in 0..c
  BY <1>3
<1>11. ASSUME NEW k \in 0..c, NEW i \in DOMAIN answers[k].products
       PROVE  answers[k].products[i] \in sent
  <2>1. PICK p \in S : /\ p = answers[k].products[i]
                       /\ p.seq > Start(k) /\ p.seq <= answers[k].next
    BY <1>7
  <2>2. answers[k].next <= last.next
    <3>1. CASE k = c
      BY <1>7, <3>1
    <3>2. CASE k # c
      <4>1. k < c
        BY <1>3, <3>2
      <4>2. answers[k].next <= Start(c) /\ Start(c) <= last.next
        BY <1>7, <1>9, <1>10, <4>1
      <4>3. answers[k].next \in Int /\ Start(c) \in Int /\ last.next \in Int
        BY <1>7, <1>10
      <4> HIDE DEF last
      <4> QED
        BY <4>2, <4>3
    <3> QED
      BY <3>1, <3>2
  <2>3. /\ p.seq \in Int /\ Start(k) \in Int /\ answers[k].next \in Int /\ last.next \in Int
        /\ from <= Start(k)
    BY <1>3, <1>7, <1>9, <1>10
  <2> HIDE DEF last
  <2>4. p.seq > from /\ p.seq <= last.next
    BY <1>2, <2>1, <2>2, <2>3
  <2> QED
    BY <2>1, <2>4
<1>12. \A p \in sent : \E m \in 0..c : \E i \in DOMAIN answers[m].products :
         answers[m].products[i] = p
  BY <1>9, <1>10
<1>13. ASSUME NEW k \in 0..c, NEW m \in 0..c,
              NEW i \in DOMAIN answers[k].products, NEW j \in DOMAIN answers[m].products,
              answers[k].products[i] = answers[m].products[j]
       PROVE  k = m /\ i = j
  <2>1. PICK p \in S : /\ p = answers[k].products[i] /\ p = answers[m].products[j]
                       /\ p.seq > Start(k) /\ p.seq <= answers[k].next
                       /\ p.seq > Start(m) /\ p.seq <= answers[m].next
    BY <1>7, <1>13
  <2>2. /\ p.seq \in Int /\ Start(k) \in Int /\ Start(m) \in Int
        /\ answers[k].next \in Int /\ answers[m].next \in Int
    BY <1>3, <1>7
  <2>3. ~ (k < m)
    <3> SUFFICES ASSUME k < m PROVE FALSE
      OBVIOUS
    <3>1. answers[k].next <= Start(m)
      BY <1>9
    <3> QED
      BY <2>1, <2>2, <3>1
  <2>4. ~ (m < k)
    <3> SUFFICES ASSUME m < k PROVE FALSE
      OBVIOUS
    <3>1. answers[m].next <= Start(k)
      BY <1>9
    <3> QED
      BY <2>1, <2>2, <3>1
  <2>5. k = m
    BY <1>3, <2>3, <2>4
  <2> QED
    BY <1>7, <1>13, <2>5
<1>14. ShowOnce(pages, sent)
  <2>1. /\ DOMAIN pages = 0..c /\ \A k \in 0..c : pages[k] = answers[k].products
    BY <1>4
  <2> HIDE DEF pages, sent
  <2> QED
    BY <1>11, <1>12, <1>13, <2>1 DEF ShowOnce
<1> DEFINE left == Behind(table, store, last.next)
<1>15. ~ last.more /\ (left # {} => blind # {})
  <2>1. c + Cardinality(left) < c \/ ~ last.more
    BY <1>6, <1>10 DEF Answered, S, c
  <2>2. left = {} \/ last.more \/ blind # {}
    BY <1>6, <1>10 DEF Answered, S
  <2>3. Cardinality(left) \in Nat
    <3>1. last.next \in Int
      BY <1>7, <1>10
    <3>2. PICK n \in Int : n = last.next
      BY <3>1
    <3>3. Cardinality(Behind(table, store, n)) \in Nat
      <4>1. n <= n
        OBVIOUS
      <4> QED
        BY <1>2, <4>1, LeftBehind
    <3> QED
      BY <3>2, <3>3 DEF S
  <2> HIDE DEF left, last
  <2> QED
    BY <1>3, <2>1, <2>2, <2>3
<1>16. left # {} => last.next > from
  <2> SUFFICES ASSUME NEW p \in S, p.seq > last.next
               PROVE  last.next > from
    BY DEF Behind, S, Own
  <2>1. last.next \in Int /\ answers[0].next \in Int /\ 0 \in 0..c
    BY <1>3, <1>7, <1>10
  <2>2. from <= Start(c) /\ Start(c) <= last.next /\ Start(c) \in Int
    BY <1>7, <1>9, <1>10
  <2>3. p.seq > from
    <3> HIDE DEF last
    <3> QED
      BY <1>2, <1>3, <2>1, <2>2
  <2>4. answers[0].next > from
    <3>1. PICK failed : failed <=> 0 \in blind
      OBVIOUS
    <3>2. answers[0] = Sync(table, store, from, limit, failed)
      BY <1>5, <3>1
    <3> QED
      BY <1>2, <2>3, <3>2, SyncSends DEF S
  <2>5. answers[0].next <= last.next
    <3>1. CASE c = 0
      BY <2>1, <3>1
    <3>2. CASE c # 0
      <4>1. 0 < c
        BY <1>3, <3>2
      <4>2. answers[0].next <= Start(c)
        BY <1>9, <1>10, <2>1, <4>1
      <4> HIDE DEF last
      <4> QED
        BY <2>1, <2>2, <4>2
    <3> QED
      BY <3>1, <3>2
  <2> HIDE DEF last
  <2> QED
    BY <1>2, <2>1, <2>4, <2>5
<1>17. /\ sent = {p \in table : p.store = store /\ p.seq > from /\ p.seq <= last.next}
       /\ left = {p \in table : p.store = store /\ p.seq > last.next}
  BY DEF S, Own, Behind
<1>18. /\ ShowOnce([k \in DOMAIN answers |-> answers[k].products],
                   {p \in table : p.store = store /\ p.seq > from /\ p.seq <= last.next})
       /\ ~ last.more
       /\ {p \in table : p.store = store /\ p.seq > last.next} # {} =>
            last.next > from /\ blind # {}
  BY <1>14, <1>15, <1>16, <1>17
<1> QED
  BY <1>1, <1>18 DEF SyncPagesAreComplete, answers, c

-----------------------------------------------------------------------------
(* A set of places that is not empty has a first and a last one. *)
LEMMA FirstPlace ==
  ASSUME NEW n \in Nat, NEW ink \in SUBSET (1..n), ink # {}
  PROVE  \E i \in ink : \A j \in ink : i <= j
<1> SUFFICES ASSUME \A i \in ink : \E j \in ink : ~ (i <= j) PROVE FALSE
  OBVIOUS
<1> DEFINE T == {k \in 0..n : \A j \in ink : j > k}
<1>1. 0 \in T
  OBVIOUS
<1>2. ASSUME NEW k \in 1..n, k - 1 \in T
      PROVE  k \in T
  <2>1. \A j \in ink : j >= k
    BY <1>2
  <2>2. k \notin ink
    <3> SUFFICES ASSUME k \in ink PROVE FALSE
      OBVIOUS
    <3>1. PICK j \in ink : ~ (k <= j)
      OBVIOUS
    <3> QED
      BY <2>1, <3>1
  <2>3. \A j \in ink : j > k
    BY <2>1, <2>2
  <2> QED
    BY <2>3
<1> HIDE DEF T
<1>3. 0..n \subseteq T
  BY <1>1, <1>2, StepByStep
<1>4. \A j \in ink : j > n
  BY <1>3 DEF T
<1>5. PICK j \in ink : TRUE
  OBVIOUS
<1> QED
  BY <1>4, <1>5

LEMMA FinalPlace ==
  ASSUME NEW n \in Nat, NEW ink \in SUBSET (1..n), ink # {}
  PROVE  \E i \in ink : \A j \in ink : j <= i
<1> DEFINE other == {n + 1 - i : i \in ink}
<1>1. other \in SUBSET (1..n) /\ other # {}
  <2>1. \A i \in ink : n + 1 - i \in 1..n
    OBVIOUS
  <2>2. PICK i \in ink : TRUE
    OBVIOUS
  <2>3. n + 1 - i \in other
    OBVIOUS
  <2> QED
    BY <2>1, <2>3
<1>2. PICK k \in other : \A l \in other : k <= l
  <2> HIDE DEF other
  <2> QED
    BY <1>1, FirstPlace
<1>3. PICK i \in ink : k = n + 1 - i
  OBVIOUS
<1>4. ASSUME NEW j \in ink
      PROVE  j <= i
  <2>1. n + 1 - j \in other
    OBVIOUS
  <2>2. n + 1 - i <= n + 1 - j
    BY <1>2, <1>3, <2>1
  <2> QED
    BY <2>2
<1> QED
  BY <1>4

(* Two texts that have their blanks at the same places are cut alike. *)
Cut(a, first, size) == [i \in 1..size |-> a[first + i]]

LEMMA TrimmedAlike ==
  ASSUME NEW n \in Nat, NEW a, DOMAIN a = 1..n, NEW b, DOMAIN b = 1..n, NEW A, NEW B,
         \A i \in 1..n : a[i] \in A <=> b[i] \in B
  PROVE  \E first, size \in Nat :
           /\ first + size <= n
           /\ Trim(a, A) = Cut(a, first, size) /\ Trim(b, B) = Cut(b, first, size)
<1> DEFINE ink == {i \in DOMAIN a : a[i] \notin A}
           first == CHOOSE i \in ink : \A j \in ink : i <= j
           last == CHOOSE i \in ink : \A j \in ink : j <= i
<1>1. ink = {i \in DOMAIN b : b[i] \notin B}
  OBVIOUS
<1>2. Trim(a, A) = IF ink = {} THEN <<>> ELSE [i \in 1..(last - first + 1) |-> a[first - 1 + i]]
  BY DEF Trim
<1>3. Trim(b, B) = IF ink = {} THEN <<>> ELSE [i \in 1..(last - first + 1) |-> b[first - 1 + i]]
  <2> HIDE DEF ink
  <2> QED
    BY <1>1 DEF Trim
<1>4. ink \in SUBSET (1..n)
  OBVIOUS
<1> HIDE DEF ink
<1>5. CASE ink = {}
  <2>1. 0 \in Nat /\ 0 + 0 <= n /\ 1..0 = {}
    OBVIOUS
  <2>2. Cut(a, 0, 0) = <<>> /\ Cut(b, 0, 0) = <<>>
    BY <2>1 DEF Cut
  <2>3. Trim(a, A) = <<>> /\ Trim(b, B) = <<>>
    BY <1>2, <1>3, <1>5
  <2> QED
    BY <2>1, <2>2, <2>3
<1>6. CASE ink # {}
  <2>1. first \in ink /\ \A j \in ink : first <= j
    <3>1. \E i \in ink : \A j \in ink : i <= j
      BY <1>4, <1>6, FirstPlace
    <3> QED
      BY <3>1
  <2>2. last \in ink
    <3>1. \E i \in ink : \A j \in ink : j <= i
      BY <1>4, <1>6, FinalPlace
    <3> QED
      BY <3>1
  <2> HIDE DEF first, last
  <2> DEFINE size == last - first + 1
             skip == first - 1
  <2>3. skip \in Nat /\ size \in Nat /\ skip + size <= n
    BY <1>4, <2>1, <2>2
  <2>4. Trim(a, A) = Cut(a, skip, size) /\ Trim(b, B) = Cut(b, skip, size)
    BY <1>2, <1>3, <1>6 DEF Cut
  <2> HIDE DEF size, skip
  <2> QED
    BY <2>3, <2>4
<1> QED
  BY <1>5, <1>6

(* What a character is in the query that was asked. *)
Plain(c) == IF c \in {"nl", "tab"} THEN " " ELSE c

(* The characters that SanitizeQuery keeps, and a piece that stands for    *)
(* the character p itself.                                                 *)
Kept(c) == c \in STRING /\ c \notin {"'", ";", "\\"}
StandsFor(piece, p) ==
  \/ piece = <<"\\", p>>
  \/ piece = <<p>> /\ p \notin {"\\", "%", "_"}

(* A character becomes itself, with a backslash before it if it is a       *)
(* wildcard, and is a blank where it was one.                              *)
LEMMA EscapedIs ==
  ASSUME NEW c, Kept(c)
  PROVE  /\ StandsFor(Escaped(c), Plain(c))
         /\ Escaped(c) \in {<<" ">>, <<>>} <=> Plain(c) \in {" "}
<1>1. CASE c \in {"%", "_"}
  <2>1. Escaped(c) = <<"\\", c>> /\ Plain(c) = c /\ c # " "
    BY <1>1 DEF Escaped, Plain
  <2>2. Len(<<"\\", c>>) = 2 /\ Len(<<" ">>) = 1 /\ Len(<<>>) = 0
    OBVIOUS
  <2>3. <<"\\", c>> \notin {<<" ">>, <<>>}
    BY <2>2
  <2> QED
    BY <2>1, <2>3 DEF StandsFor
<1>2. CASE c \in {"nl", "tab"}
  <2>1. Escaped(c) = <<" ">> /\ Plain(c) = " "
    BY <1>2 DEF Escaped, Plain
  <2> QED
    BY <2>1 DEF StandsFor
<1>3. CASE c \notin {"%", "_", "nl", "tab"}
  <2>1. Escaped(c) = <<c>> /\ Plain(c) = c
    <3>1. c # "'" /\ c # ";"
      BY DEF Kept
    <3>2. Plain(c) = c
      BY <1>3 DEF Plain
    <3>3. Escaped(c) = <<c>>
      BY <1>3, <3>1 DEF Escaped
    <3> QED
      BY <3>2, <3>3
  <2>2. <<c>> # <<>> /\ (<<c>> = <<" ">> <=> c = " ")
    <3>1. Len(<<c>>) = 1 /\ Len(<<>>) = 0 /\ <<c>>[1] = c /\ <<" ">>[1] = " "
      OBVIOUS
    <3> QED
      BY <3>1
  <2>3. <<c>> \in {<<" ">>, <<>>} <=> c = " "
    BY <2>2
  <2> QED
    BY <1>3, <2>1, <2>3 DEF Kept, StandsFor
<1> QED
  BY <1>1, <1>2, <1>3

-----------------------------------------------------------------------------
(* ILIKE reads the pieces of a pattern one after the other. *)
Reading(text, pattern, n, states) ==
  /\ DOMAIN states = 0..n
  /\ states[0] = [escape |-> FALSE, at |-> {0}]
  /\ \A k \in 1..n : states[k] = ReadPiece(text, states[k - 1], pattern[k])
  /\ ILike(text, pattern) <=> Len(text) \in states[n].at

LEMMA ReadIs ==
  ASSUME NEW text, NEW pattern, NEW n \in Nat, Len(pattern) = n
  PROVE  \E states : Reading(text, pattern, n, states)
<1> DEFINE begin == [escape |-> FALSE, at |-> {0}]
           Then(a, k) == ReadPiece(text, a, pattern[k])
           Rec(g, k) == g = [i \in 0..k |-> IF i = 0 THEN begin ELSE Then(g[i - 1], i)]
           S == {k \in 0..n : \E g : Rec(g, k)}
           states == CHOOSE g : Rec(g, n)
<1>1. ILike(text, pattern) <=> Len(text) \in states[n].at
  BY DEF ILike
<1> HIDE DEF begin, Then
<1>3. 0 \in S
  <2> DEFINE g == [i \in 0..0 |-> begin]
  <2>1. Rec(g, 0)
    <3>1. \A i \in 0..0 : g[i] = IF i = 0 THEN begin ELSE Then(g[i - 1], i)
      OBVIOUS
    <3>2. g = [i \in 0..0 |-> g[i]]
      OBVIOUS
    <3> HIDE DEF g
    <3> QED
      BY <3>1, <3>2
  <2> HIDE DEF Rec, g
  <2> QED
    BY <2>1
<1>4. ASSUME NEW k \in 1..n, k - 1 \in S
      PROVE  k \in S
  <2>1. PICK g : Rec(g, k - 1)
    BY <1>4
  <2> DEFINE h == [i \in 0..k |-> IF i = k THEN Then(g[k - 1], k) ELSE g[i]]
  <2>2. \A i \in 0..(k - 1) : h[i] = g[i]
    OBVIOUS
  <2>3. \A i \in 0..k : i # 0 => i - 1 \in 0..(k - 1)
    OBVIOUS
  <2>4. ASSUME NEW i \in 0..k
        PROVE  h[i] = IF i = 0 THEN begin ELSE Then(h[i - 1], i)
    <3>1. CASE i = k
      <4>1. k # 0 /\ h[k] = Then(g[k - 1], k) /\ h[k - 1] = g[k - 1]
        BY <2>2, <2>3
      <4> QED
        BY <3>1, <4>1
    <3>2. CASE i # k
      <4>1. i \in 0..(k - 1)
        BY <3>2
      <4>2. h[i] = g[i] /\ g[i] = IF i = 0 THEN begin ELSE Then(g[i - 1], i)
        BY <2>1, <2>2, <4>1
      <4>3. i # 0 => h[i - 1] = g[i - 1]
        BY <2>2, <2>3
      <4> QED
        BY <4>2, <4>3
    <3> QED
      BY <3>1, <3>2
  <2>5. h = [i \in 0..k |-> h[i]]
    OBVIOUS
  <2> HIDE DEF h
  <2>6. Rec(h, k)
    BY <2>4, <2>5
  <2> QED
    BY <2>6
<1>5. PICK g : Rec(g, n)
  <2>1. n \in 0..n
    OBVIOUS
  <2>2. 0..n \subseteq S
    <3> HIDE DEF S
    <3> QED
      BY <1>3, <1>4, StepByStep
  <2> QED
    BY <2>1, <2>2
<1>6. Rec(states, n)
  BY <1>5
<1> HIDE DEF states
<1>7. /\ DOMAIN states = 0..n /\ states[0] = begin
      /\ \A i \in 1..n : states[i] = Then(states[i - 1], i)
  <2>1. DOMAIN states = 0..n
    BY <1>6
  <2>2. states[0] = begin
    BY <1>6
  <2>3. \A i \in 1..n : states[i] = Then(states[i - 1], i)
    BY <1>6
  <2> QED
    BY <2>1, <2>2, <2>3
<1> QED
  BY <1>1, <1>7 DEF begin, Then, Reading

(* The places of the text where the first k characters of a query end. *)
Ends(text, asked, k) ==
  {e \in k..Len(text) : \A j \in 1..k : text[(e - k) + j] = asked[j]}

(* One character more, taken literally. *)
LEMMA EndsGrow ==
  ASSUME NEW text, Len(text) \in Nat, NEW asked, NEW k \in Nat \ {0}
  PROVE  Literally(text, Ends(text, asked, k - 1), asked[k]) = Ends(text, asked, k)
<1> DEFINE l == Len(text)
           before == Ends(text, asked, k - 1)
           after == Ends(text, asked, k)
           c == asked[k]
<1>1. l \in Nat /\ k - 1 \in Nat /\ k \in Nat
  OBVIOUS
<1>2. \A e : e \in before <=> /\ e \in (k - 1)..l
                              /\ \A j \in 1..(k - 1) : text[(e - (k - 1)) + j] = asked[j]
  BY DEF Ends
<1>3. \A e : e \in after <=> e \in k..l /\ \A j \in 1..k : text[(e - k) + j] = asked[j]
  BY DEF Ends
<1>4. \A e : e \in Literally(text, before, c)
               <=> \E i \in before : i < l /\ text[i + 1] = c /\ e = i + 1
  BY DEF Literally
<1> HIDE DEF l, before, after
<1>5. ASSUME NEW i \in (k - 1)..(l - 1)
      PROVE  i + 1 \in after <=> i \in before /\ text[i + 1] = c
  <2>1. i \in Int /\ i + 1 \in k..l /\ i \in (k - 1)..l
    BY <1>1
  <2>2. \A j \in 1..(k - 1) : j \in 1..k /\ ((i + 1) - k) + j = (i - (k - 1)) + j
    BY <1>1, <2>1
  <2>3. k \in 1..k /\ ((i + 1) - k) + k = i + 1
    BY <1>1, <2>1
  <2>4. \A j \in 1..k : j = k \/ j \in 1..(k - 1)
    BY <1>1
  <2>5. (\A j \in 1..k : text[((i + 1) - k) + j] = asked[j])
          <=> (\A j \in 1..(k - 1) : text[(i - (k - 1)) + j] = asked[j]) /\ text[i + 1] = c
    <3>1. ASSUME \A j \in 1..k : text[((i + 1) - k) + j] = asked[j]
          PROVE  (\A j \in 1..(k - 1) : text[(i - (k - 1)) + j] = asked[j]) /\ text[i + 1] = c
      <4>1. ASSUME NEW j \in 1..(k - 1)
            PROVE  text[(i - (k - 1)) + j] = asked[j]
        BY <2>2, <3>1
      <4>2. text[i + 1] = c
        BY <2>3, <3>1
      <4> QED
        BY <4>1, <4>2
    <3>2. ASSUME \A j \in 1..(k - 1) : text[(i - (k - 1)) + j] = asked[j], text[i + 1] = c
          PROVE  \A j \in 1..k : text[((i + 1) - k) + j] = asked[j]
      <4> TAKE j \in 1..k
      <4>1. CASE j = k
        BY <2>3, <3>2, <4>1
      <4>2. CASE j \in 1..(k - 1)
        BY <2>2, <3>2, <4>2
      <4> QED
        BY <2>4, <4>1, <4>2
    <3> QED
      BY <3>1, <3>2
  <2> QED
    BY <1>2, <1>3, <2>1, <2>5
<1>6. ASSUME NEW e
      PROVE  e \in Literally(text, before, c) <=> e \in after
  <2>1. ASSUME e \in Literally(text, before, c) PROVE e \in after
    <3>1. PICK i \in before : i < l /\ text[i + 1] = c /\ e = i + 1
      BY <1>4, <2>1
    <3>2. i \in (k - 1)..(l - 1)
      BY <1>1, <1>2, <3>1
    <3> QED
      BY <1>5, <3>1, <3>2
  <2>2. ASSUME e \in after PROVE e \in Literally(text, before, c)
    <3>1. e \in k..l
      BY <1>3, <2>2
    <3>2. PICK i \in (k - 1)..(l - 1) : e = i + 1
      <4>1. e - 1 \in (k - 1)..(l - 1) /\ e = (e - 1) + 1
        BY <1>1, <3>1
      <4> QED
        BY <4>1
    <3>3. i \in before /\ text[i + 1] = c /\ i < l
      BY <1>1, <1>5, <2>2, <3>2
    <3> QED
      BY <1>4, <3>2, <3>3
  <2> QED
    BY <2>1, <2>2
<1>7. Literally(text, before, c) = after
  BY <1>6
<1> QED
  BY <1>7 DEF before, after

(* A piece that SanitizeQuery has made takes its character literally. *)
LEMMA PieceIsLiteral ==
  ASSUME NEW text, NEW at, NEW p, NEW piece, StandsFor(piece, p)
  PROVE  ReadPiece(text, [escape |-> FALSE, at |-> at], piece)
           = [escape |-> FALSE, at |-> Literally(text, at, p)]
<1> DEFINE begin == [escape |-> FALSE, at |-> at]
<1>1. begin.escape = FALSE /\ begin.at = at
  OBVIOUS
<1> HIDE DEF begin
<1>2. CASE piece = <<p>> /\ p \notin {"\\", "%", "_"}
  <2>1. piece # <<>> /\ Len(piece) = 1 /\ piece[1] = p
    BY <1>2
  <2>2. ReadPiece(text, begin, piece) = ReadChar(text, begin, p)
    BY <2>1 DEF ReadPiece
  <2>3. ReadChar(text, begin, p) = [escape |-> FALSE, at |-> Literally(text, at, p)]
    BY <1>1, <1>2 DEF ReadChar
  <2> QED
    BY <2>2, <2>3 DEF begin
<1>3. CASE piece = <<"\\", p>>
  <2>1. piece # <<>> /\ Len(piece) # 1
    BY <1>3
  <2>5. piece[1] = "\\" /\ piece[2] = p
    BY <1>3
  <2>2. ReadPiece(text, begin, piece) = ReadChar(text, ReadChar(text, begin, "\\"), p)
    <3>1. ReadPiece(text, begin, piece)
            = ReadChar(text, ReadChar(text, begin, piece[1]), piece[2])
      BY <2>1 DEF ReadPiece
    <3> QED
      BY <2>5, <3>1
  <2>3. ReadChar(text, begin, "\\") = [escape |-> TRUE, at |-> at]
    BY <1>1 DEF ReadChar
  <2>4. ReadChar(text, [escape |-> TRUE, at |-> at], p)
          = [escape |-> FALSE, at |-> Literally(text, at, p)]
    BY DEF ReadChar
  <2> QED
    BY <2>2, <2>3, <2>4 DEF begin
<1> QED
  BY <1>2, <1>3 DEF StandsFor

(* The first m characters of a query are somewhere in the text. *)
InARow(text, asked, m) ==
  \E i \in 0..(Len(text) - m) : \A j \in 1..m : text[i + j] = asked[j]

(* A query made of such pieces, between two %, is found where the text has *)
(* its characters in a row.                                                *)
LEMMA FoundWhereWritten ==
  ASSUME NEW text, Len(text) \in Nat, NEW m \in Nat, NEW pattern, Len(pattern) = m + 2,
         pattern[1] = <<"%">>, pattern[m + 2] = <<"%">>, NEW asked,
         \A k \in 1..m : StandsFor(pattern[k + 1], asked[k])
  PROVE  ILike(text, pattern) <=> InARow(text, asked, m)
<1> DEFINE l == Len(text)
           State(at) == [escape |-> FALSE, at |-> at]
<1>1. l \in Nat
  OBVIOUS
<1>2. ASSUME NEW at
      PROVE  ReadPiece(text, State(at), <<"%">>) = State(UNION {i..l : i \in at})
  <2> DEFINE begin == State(at)
             piece == <<"%">>
  <2>1. begin.escape = FALSE /\ begin.at = at
    OBVIOUS
  <2>2. piece # <<>> /\ Len(piece) = 1 /\ piece[1] = "%"
    OBVIOUS
  <2> HIDE DEF begin, piece
  <2>3. ReadPiece(text, begin, piece) = ReadChar(text, begin, "%")
    BY <2>2 DEF ReadPiece
  <2>4. ReadChar(text, begin, "%") = [escape |-> FALSE, at |-> UNION {i..Len(text) : i \in begin.at}]
    BY <2>1 DEF ReadChar
  <2> QED
    BY <2>1, <2>3, <2>4 DEF begin, piece
<1>3. PICK states :
        /\ DOMAIN states = 0..(m + 2)
        /\ states[0] = State({0})
        /\ \A k \in 1..(m + 2) : states[k] = ReadPiece(text, states[k - 1], pattern[k])
        /\ ILike(text, pattern) <=> l \in states[m + 2].at
  <2>1. PICK n \in Nat : n = m + 2
    OBVIOUS
  <2>2. Len(pattern) = n
    BY <2>1
  <2>3. \E states : Reading(text, pattern, n, states)
    BY <2>2, ReadIs
  <2> QED
    BY <2>1, <2>3 DEF Reading
<1> DEFINE T == {k \in 0..m : states[k + 1] = State(Ends(text, asked, k))}
<1>4. 0 \in T
  <2>1. 1 \in 1..(m + 2) /\ 1 - 1 = 0 /\ 0 + 1 = 1 /\ 0 \in 0..m
    OBVIOUS
  <2>2. states[1] = ReadPiece(text, State({0}), <<"%">>)
    BY <1>3, <2>1
  <2>3. states[1] = State(UNION {i..l : i \in {0}})
    BY <1>2, <2>2
  <2>4. UNION {i..l : i \in {0}} = 0..l
    OBVIOUS
  <2>5. Ends(text, asked, 0) = 0..l
    BY DEF Ends
  <2> HIDE DEF State, l
  <2> QED
    BY <2>1, <2>3, <2>4, <2>5
<1>5. ASSUME NEW k \in 1..m, k - 1 \in T
      PROVE  k \in T
  <2>1. /\ k + 1 \in 1..(m + 2) /\ (k + 1) - 1 = k /\ (k - 1) + 1 = k /\ k \in 0..m
        /\ k \in Nat \ {0}
    OBVIOUS
  <2>2. states[k] = State(Ends(text, asked, k - 1))
    BY <1>5, <2>1
  <2>3. states[k + 1] = ReadPiece(text, states[k], pattern[k + 1])
    BY <1>3, <2>1
  <2>4. ReadPiece(text, State(Ends(text, asked, k - 1)), pattern[k + 1])
          = State(Literally(text, Ends(text, asked, k - 1), asked[k]))
    <3> DEFINE at == Ends(text, asked, k - 1)
               piece == pattern[k + 1]
               p == asked[k]
    <3>1. StandsFor(piece, p)
      OBVIOUS
    <3> HIDE DEF at, piece, p
    <3> QED
      BY <3>1, PieceIsLiteral DEF at, piece, p
  <2>5. Literally(text, Ends(text, asked, k - 1), asked[k]) = Ends(text, asked, k)
    BY <2>1, EndsGrow
  <2> HIDE DEF State
  <2> QED
    BY <2>1, <2>2, <2>3, <2>4, <2>5
<1>6. states[m + 1] = State(Ends(text, asked, m))
  <2> HIDE DEF T
  <2>1. 0..m \subseteq T
    BY <1>4, <1>5, StepByStep
  <2> QED
    BY <2>1 DEF T
<1> DEFINE ends == Ends(text, asked, m)
<1>7. states[m + 2] = State(UNION {i..l : i \in ends})
  <2>1. m + 2 \in 1..(m + 2) /\ (m + 2) - 1 = m + 1
    OBVIOUS
  <2>2. states[m + 2] = ReadPiece(text, states[m + 1], <<"%">>)
    BY <1>3, <2>1
  <2> HIDE DEF State, ends, l
  <2> QED
    BY <1>2, <1>6, <2>2 DEF ends
<1>8. ILike(text, pattern) <=> \E e \in ends : l \in e..l
  BY <1>3, <1>7
<1>9. \A e \in ends : l \in e..l
  BY <1>1 DEF Ends
<1>10. (\E e : e \in ends)
          <=> \E i \in 0..(l - m) : \A j \in 1..m : text[i + j] = asked[j]
  <2>1. ASSUME NEW e \in ends
        PROVE  \E i \in 0..(l - m) : \A j \in 1..m : text[i + j] = asked[j]
    <3>1. e \in m..l /\ \A j \in 1..m : text[(e - m) + j] = asked[j]
      BY DEF Ends
    <3>2. e - m \in 0..(l - m)
      BY <1>1, <3>1
    <3> QED
      BY <3>1, <3>2
  <2>2. ASSUME NEW i \in 0..(l - m), \A j \in 1..m : text[i + j] = asked[j]
        PROVE  \E e : e \in ends
    <3>1. i + m \in m..l /\ \A j \in 1..m : ((i + m) - m) + j = i + j
      BY <1>1
    <3>2. i + m \in ends
      BY <2>2, <3>1 DEF Ends
    <3> QED
      BY <3>2
  <2> QED
    BY <2>1, <2>2
<1> HIDE DEF ends
<1> QED
  BY <1>8, <1>9, <1>10 DEF l, InARow

(* A list between two pieces that are alike. *)
LEMMA Between ==
  ASSUME NEW P, NEW one \in P, NEW m \in Nat, NEW pieces \in Seq(P), Len(pieces) = m
  PROVE  LET pattern == <<one>> \o pieces \o <<one>>
         IN /\ Len(pattern) = m + 2 /\ pattern[1] = one /\ pattern[m + 2] = one
            /\ \A k \in 1..m : pattern[k + 1] = pieces[k]
<1> DEFINE single == <<one>>
           front == single \o pieces
           pattern == front \o single
<1>1. single \in Seq(P) /\ Len(single) = 1 /\ single[1] = one
  OBVIOUS
<1> HIDE DEF single
<1>2. front \in Seq(P) /\ Len(front) = 1 + m
  BY <1>1, ConcatProperties
<1>3. \A i \in 1..(1 + m) : front[i] = IF i <= 1 THEN single[i] ELSE pieces[i - 1]
  <2>1. \A i \in 1..(Len(single) + Len(pieces)) :
          (single \o pieces)[i] = IF i <= Len(single) THEN single[i] ELSE pieces[i - Len(single)]
    BY <1>1, ConcatProperties
  <2> QED
    BY <1>1, <2>1
<1> HIDE DEF front
<1>4. Len(pattern) = (1 + m) + 1
  <2>1. Len(front \o single) = Len(front) + Len(single)
    BY <1>1, <1>2, ConcatProperties
  <2> QED
    BY <1>1, <1>2, <2>1
<1>5. \A i \in 1..((1 + m) + 1) :
        pattern[i] = IF i <= 1 + m THEN front[i] ELSE single[i - (1 + m)]
  <2>1. \A i \in 1..(Len(front) + Len(single)) :
          (front \o single)[i] = IF i <= Len(front) THEN front[i] ELSE single[i - Len(front)]
    BY <1>1, <1>2, ConcatProperties
  <2> QED
    BY <1>1, <1>2, <2>1
<1> HIDE DEF pattern
<1>6. pattern[1] = one
  <2>1. 1 \in 1..((1 + m) + 1) /\ 1 <= 1 + m /\ 1 \in 1..(1 + m) /\ 1 <= 1
    OBVIOUS
  <2> QED
    BY <1>1, <1>3, <1>5, <2>1
<1>7. pattern[m + 2] = one
  <2>1. m + 2 \in 1..((1 + m) + 1) /\ ~ (m + 2 <= 1 + m) /\ (m + 2) - (1 + m) = 1
    OBVIOUS
  <2> QED
    BY <1>1, <1>5, <2>1
<1>8. ASSUME NEW k \in 1..m
      PROVE  pattern[k + 1] = pieces[k]
  <2>1. /\ k + 1 \in 1..((1 + m) + 1) /\ k + 1 <= 1 + m /\ k + 1 \in 1..(1 + m)
        /\ ~ (k + 1 <= 1) /\ (k + 1) - 1 = k
    OBVIOUS
  <2>2. pattern[k + 1] = front[k + 1]
    BY <1>5, <2>1
  <2> QED
    BY <1>3, <2>1, <2>2
<1>9. Len(pattern) = m + 2
  BY <1>4
<1> QED
  BY <1>6, <1>7, <1>8, <1>9 DEF pattern, front, single

(* What is searched for: the query without the blanks at its ends. *)
Asked(query) == Trim([i \in DOMAIN query |-> Plain(query[i])], {" "})

(* SanitizeQuery has a piece for each character of it, in order. *)
LEMMA PiecesAre ==
  ASSUME NEW query, NEW n \in Nat, DOMAIN query = 1..n, \A i \in 1..n : Kept(query[i])
  PROVE  \E m \in Nat :
           /\ SanitizeQuery(query) = [i \in 1..m |-> SanitizeQuery(query)[i]]
           /\ DOMAIN Asked(query) = 1..m /\ Len(Asked(query)) = m
           /\ \A k \in 1..m : StandsFor(SanitizeQuery(query)[k], Asked(query)[k])
<1> DEFINE escaped == [i \in DOMAIN query |-> Escaped(query[i])]
           plain == [i \in DOMAIN query |-> Plain(query[i])]
           A == {<<" ">>, <<>>}
           B == {" "}
           asked == Asked(query)
           pieces == SanitizeQuery(query)
<1>1. ASSUME NEW i \in 1..n
      PROVE  StandsFor(escaped[i], plain[i]) /\ (escaped[i] \in A <=> plain[i] \in B)
  <2> DEFINE c == query[i]
  <2>1. escaped[i] = Escaped(c) /\ plain[i] = Plain(c) /\ Kept(c)
    OBVIOUS
  <2> HIDE DEF escaped, plain, c
  <2> QED
    BY <2>1, EscapedIs
<1>2. DOMAIN escaped = 1..n /\ DOMAIN plain = 1..n
  OBVIOUS
<1>3. pieces = Trim(escaped, A) /\ asked = Trim(plain, B)
  BY DEF SanitizeQuery, Asked
<1> HIDE DEF escaped, plain, A, B, asked, pieces
<1>4. PICK first \in Nat, m \in Nat :
        /\ first + m <= n
        /\ pieces = [i \in 1..m |-> escaped[first + i]]
        /\ asked = [i \in 1..m |-> plain[first + i]]
  <2>1. \A i \in 1..n : escaped[i] \in A <=> plain[i] \in B
    BY <1>1
  <2>2. \E first, m \in Nat :
          /\ first + m <= n
          /\ Trim(escaped, A) = Cut(escaped, first, m)
          /\ Trim(plain, B) = Cut(plain, first, m)
    BY <1>2, <2>1, TrimmedAlike
  <2> QED
    BY <1>3, <2>2 DEF Cut
<1>5. DOMAIN asked = 1..m /\ Len(asked) = m
  <2>1. asked = [i \in 1..m |-> asked[i]]
    BY <1>4
  <2> QED
    BY <1>4, <2>1
<1>6. \A k \in 1..m : StandsFor(pieces[k], asked[k])
  <2> TAKE k \in 1..m
  <2>1. first + k \in 1..n
    BY <1>4
  <2>2. pieces[k] = escaped[first + k] /\ asked[k] = plain[first + k]
    BY <1>4
  <2> QED
    BY <1>1, <2>1, <2>2
<1>7. pieces = [i \in 1..m |-> pieces[i]]
  BY <1>4
<1> QED
  BY <1>5, <1>6, <1>7 DEF pieces, asked

(* A name is found just where the query is in it. *)
FoundRight(text, query) ==
  Matches(text, query) <=>
    \E i \in 0..(Len(text) - Len(Asked(query))) :
      \A j \in DOMAIN Asked(query) : text[i + j] = Asked(query)[j]

(* A query is taken literally (opensearch.go SanitizeQuery and ILIKE of    *)
(* product_repo.go).                                                       *)
LEMMA TakenLiterally ==
  ASSUME NEW text, Len(text) \in Nat, NEW query, NEW n \in Nat, DOMAIN query = 1..n,
         \A i \in 1..n : Kept(query[i])
  PROVE  FoundRight(text, query)
<1> DEFINE asked == Asked(query)
           pieces == SanitizeQuery(query)
           one == <<"%">>
           pattern == <<one>> \o pieces \o <<one>>
<1>1. PICK m \in Nat :
        /\ pieces = [i \in 1..m |-> pieces[i]]
        /\ DOMAIN asked = 1..m /\ Len(asked) = m
        /\ \A k \in 1..m : StandsFor(pieces[k], asked[k])
  BY PiecesAre
<1>2. Matches(text, query) <=> ILike(text, pattern)
  BY DEF Matches
<1> HIDE DEF asked, pieces, one
<1> DEFINE P == {pieces[k] : k \in 1..m} \cup {one}
<1>3. pieces \in Seq(P) /\ Len(pieces) = m /\ one \in P
  <2>1. pieces \in [1..m -> P]
    BY <1>1
  <2> QED
    BY <2>1, ListIs
<1> HIDE DEF P
<1>4. /\ Len(pattern) = m + 2 /\ pattern[1] = one /\ pattern[m + 2] = one
      /\ \A k \in 1..m : pattern[k + 1] = pieces[k]
  <2>1. Len(pattern) = m + 2
    BY <1>3, Between
  <2>2. pattern[1] = one
    BY <1>3, Between
  <2>3. pattern[m + 2] = one
    BY <1>3, Between
  <2>4. \A k \in 1..m : pattern[k + 1] = pieces[k]
    BY <1>3, Between
  <2> HIDE DEF pattern
  <2> QED
    BY <2>1, <2>2, <2>3, <2>4
<1> HIDE DEF pattern
<1>5. \A k \in 1..m : StandsFor(pattern[k + 1], asked[k])
  BY <1>1, <1>4
<1>6. ILike(text, pattern) <=> InARow(text, asked, m)
  <2>1. pattern[1] = <<"%">> /\ pattern[m + 2] = <<"%">>
    BY <1>4 DEF one
  <2> QED
    BY <1>4, <1>5, <2>1, FoundWhereWritten
<1> QED
  BY <1>1, <1>2, <1>6 DEF asked, InARow, FoundRight

LEMMA WildcardsTaken ==
  ASSUME NEW x, x.text \in Seq(STRING), x.query \in Seq(STRING)
  PROVE  WildcardsAreLiteral(x)
<1>1. PICK text \in Seq(STRING), query \in Seq(STRING) : x.text = text /\ x.query = query
  OBVIOUS
<1>2. PICK n \in Nat : DOMAIN query = 1..n /\ \A i \in 1..n : query[i] \in STRING
  OBVIOUS
<1>3. Len(text) \in Nat
  OBVIOUS
<1>4. (\A i \in DOMAIN query : query[i] \notin {"'", ";", "\\"})
        => \A i \in 1..n : Kept(query[i])
  BY <1>2 DEF Kept
<1>5. (\A i \in 1..n : Kept(query[i])) =>
        FoundRight(text, query)
  BY <1>2, <1>3, TakenLiterally
<1>6. (\A i \in DOMAIN x.query : x.query[i] \notin {"'", ";", "\\"})
        => FoundRight(x.text, x.query)
  BY <1>1, <1>4, <1>5
<1> QED
  BY <1>6 DEF WildcardsAreLiteral, FoundRight, Asked, Plain

-----------------------------------------------------------------------------
(* The pages of a search and of a category, and the answers of a sync, show *)
(* every product that belongs to them once, in any table, and a query is    *)
(* taken literally, whatever was asked (search.go, sync.go, product_repo.go, *)
(* opensearch.go).                                                          *)
THEOREM PagesRight == AskedSpec => []PagesShownRight
<1>1. ASSUME sample \in Samples
      PROVE  PagesShownRight
  <2> DEFINE x == sample
  <2>1. x \in AskedInputs
    BY <1>1, SamplesAssumption
  <2> HIDE DEF x
  <2>2. SearchPagesAreComplete(x)
    <3>1. CASE x.kind = "pages"
      <4>1. x.table \in PricedTable /\ x.store \notin {"missing", "bad"} /\ x.limit \in Int
        BY <2>1, <3>1 DEF AskedInputs
      <4> QED
        BY <4>1, SearchPages
    <3>2. CASE x.kind # "pages"
      BY <3>2 DEF SearchPagesAreComplete
    <3> QED
      BY <3>1, <3>2
  <2>3. SyncPagesAreComplete(x)
    <3>1. CASE x.kind = "sync"
      <4>1. Asks(x.table, x.from, x.limit)
        BY <2>1, <3>1 DEF AskedInputs, Asks
      <4> QED
        BY <4>1, SyncPages
    <3>2. CASE x.kind # "sync"
      BY <3>2 DEF SyncPagesAreComplete
    <3> QED
      BY <3>1, <3>2
  <2>4. WildcardsAreLiteral(x)
    <3>1. CASE x.kind = "query"
      <4>1. x.text \in Seq(STRING) /\ x.query \in Seq(STRING)
        BY <2>1, <3>1 DEF AskedInputs
      <4> QED
        BY <4>1, WildcardsTaken
    <3>2. CASE x.kind # "query"
      BY <3>2 DEF WildcardsAreLiteral
    <3> QED
      BY <3>1, <3>2
  <2> QED
    BY <2>2, <2>3, <2>4 DEF PagesShownRight, x
<1>2. AskedSpec => [](sample \in Samples)
  <2>1. sample \in Samples /\ [UNCHANGED sample]_sample => (sample \in Samples)'
    OBVIOUS
  <2> QED
    BY <2>1, PTL DEF AskedSpec
<1>3. sample \in Samples => PagesShownRight
  BY <1>1
<1> QED
  BY <1>2, <1>3, PTL
=============================================================================
