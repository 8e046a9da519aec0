---------------------------- MODULE CatalogViews ----------------------------
(***************************************************************************)
(* What the catalog service shows of its products: the pages of a search,  *)
(* of a category and of a sync, and which names a search query matches.    *)
(* A product is [id, store, category, active, price, seq, hit], hit being  *)
(* whether the query of the search matches it.  The properties take one    *)
(* input each.                                                             *)
(***************************************************************************)
EXTENDS Integers, Sequences, FiniteSets

(* The inputs the properties are asked of, and the one asked about now.    *)
CONSTANT Samples
VARIABLE sample

Error(status) == [status |-> status, products |-> <<>>, total |-> 0, page |-> 0, limit |-> 0]

(* A parameter of the query string is a number, 0 standing for one that is *)
(* missing or cannot be read, or a text, "missing" when it is not given,   *)
(* "bad" when it is no identifier of a store, "blank" when it is blanks.   *)
(* Only a number in range replaces the default.                            *)
PageOf(asked) == IF asked > 0 THEN asked ELSE 1
LimitOf(asked, default) == IF asked \in 1..100 THEN asked ELSE default

(* LIMIT and OFFSET: the rows of a sorted list behind the offset. *)
Rows(sorted, offset, limit) ==
  [i \in 1..(IF limit < Len(sorted) - offset THEN limit ELSE Len(sorted) - offset) |->
     sorted[offset + i]]

(* Mutant of Window: pages are counted from 0. *)
WindowFromZero(sorted, page, limit) == Rows(sorted, page * limit, limit)

(* The page of a list, with LIMIT and OFFSET or with size and from. *)
Window(sorted, page, limit) == Rows(sorted, (page - 1) * limit, limit)

(* ORDER BY: rows of different ranks by ascending rank, each at the place  *)
(* that counts the rows up to it.                                          *)
Place(S, rank, p) == Cardinality({q \in S : rank[q] <= rank[p]})
Sorted(S, rank) == [i \in 1..Cardinality(S) |-> CHOOSE p \in S : Place(S, rank, p) = i]
Cheapest(S) == Sorted(S, [p \in S |-> p.price])
Earliest(S) == Sorted(S, [p \in S |-> p.seq])

Sold(table, store) == {p \in table : p.store = store /\ p.active}
Matching(table, store, category) ==
  {p \in Sold(table, store) : p.hit /\ category \in {"missing", p.category}}

(* Search of the repository counts without the category what it then lists *)
(* with it.                                                                *)
RepoSearch(table, store, category, page, limit) ==
  [products |-> Window(Cheapest(Matching(table, store, category)), page, limit),
   total |-> Cardinality(Matching(table, store, "missing"))]

(* Search of OpenSearch, over documents in the order of their score, for   *)
(* which price stands; it counts what it lists.                            *)
IndexSearch(table, store, category, page, limit) ==
  [products |-> Window(Cheapest(Matching(table, store, category)), page, limit),
   total |-> Cardinality(Matching(table, store, category))]

GetByCategory(table, store, category, page, limit) ==
  LET found == {p \in Sold(table, store) : p.category = category}
  IN [products |-> Window(Cheapest(found), page, limit), total |-> Cardinality(found)]

Answer(list, page, limit) ==
  [status |-> 200, products |-> list.products, total |-> list.total,
   page |-> page, limit |-> limit]

(* validateSearchRequest, of a request the handler has built. *)
ValidSearch(req, limit) == req.query # "blank" /\ limit \in 1..100

(* Handler and service Search.  The client of OpenSearch is "up", "down"   *)
(* or "none": a client that could not be built is called all the same, the *)
(* panic becomes a 500.                                                    *)
Search(table, req, client) ==
  LET page == PageOf(req.page)
      limit == LimitOf(req.limit, 20)
  IN IF req.store \in {"missing", "bad"} \/ req.query = "missing" \/ ~ ValidSearch(req, limit)
       THEN Error(400)
     ELSE IF client = "none" THEN Error(500)
     ELSE IF client = "up"
       THEN Answer(IndexSearch(table, req.store, req.category, page, limit), page, limit)
       ELSE Answer(RepoSearch(table, req.store, req.category, page, limit), page, limit)

(* Handler and service ByCategory. *)
ByCategory(table, req) ==
  LET page == PageOf(req.page)
      limit == LimitOf(req.limit, 50)
  IN IF req.store \in {"missing", "bad"} \/ req.category = "missing" THEN Error(400)
     ELSE Answer(GetByCategory(table, req.store, req.category, page, limit), page, limit)

(* The pages of a list have each row of S at one place, and nothing else.  *)
ShowOnce(pages, S) ==
  /\ \A n \in DOMAIN pages : \A i \in DOMAIN pages[n] : pages[n][i] \in S
  /\ \A p \in S : \E n \in DOMAIN pages : \E i \in DOMAIN pages[n] : pages[n][i] = p
  /\ \A n, m \in DOMAIN pages : \A i \in DOMAIN pages[n], j \in DOMAIN pages[m] :
       pages[n][i] = pages[m][j] => n = m /\ i = j

(* The pages a client asks for, of the limit it was answered with, until   *)
(* it has seen as many products as the total says: every product that      *)
(* belongs to the answer is on one of them, once, whatever page and limit  *)
(* it wrote.  The total is what is listed, except in the search of the     *)
(* database with a category, where it may be more.  One source answers all *)
(* the pages: OpenSearch orders by score, the database by price, so that   *)
(* pages of the one and of the other do not fit together.  Products have   *)
(* different prices; among equal ones the order of the database is open.   *)
SearchPagesAreComplete(x) ==
  x.kind = "pages" =>
    LET req(n) == [store |-> x.store, query |-> "q", category |-> x.category,
                   page |-> n, limit |-> x.limit]
        Find(n) == Search(x.table, req(n), x.client)
        List(n) == ByCategory(x.table, req(n))
        Count(first) == (first.total + first.limit - 1) \div first.limit
        found == [n \in 1..Count(Find(1)) |-> Find(n).products]
        listed == [n \in 1..Count(List(1)) |-> List(n).products]
        hits == {p \in x.table : /\ p.store = x.store /\ p.active /\ p.hit
                                 /\ x.category = "missing" \/ x.category = p.category}
        shelf == {p \in x.table : p.store = x.store /\ p.active /\ p.category = x.category}
    IN /\ x.client # "none" =>
            /\ Find(1).status = 200 /\ ShowOnce(found, hits)
            /\ (x.category = "missing" \/ x.client = "up") => Find(1).total = Cardinality(hits)
       /\ x.category # "missing" =>
            /\ List(1).status = 200 /\ ShowOnce(listed, shelf)
            /\ List(1).total = Cardinality(shelf)

-----------------------------------------------------------------------------
(* Service Sync, validateSyncRequest first: the rows behind last_sync_seq, *)
(* and whether there are more behind the last of them.                     *)
RepoSync(table, store, last, limit) ==
  Rows(Earliest({p \in table : p.store = store /\ p.seq > last}), 0, limit)

(* Mutant of NextSyncSeq: the number after the last one. *)
NextSyncSeqPlusOne(products, last) ==
  IF products = <<>> THEN last ELSE products[Len(products)].seq + 1

NextSyncSeq(products, last) ==
  IF products = <<>> THEN last ELSE products[Len(products)].seq

(* Mutant of Sync: a second query that fails leaves next_sync_seq alone. *)
SyncForgetful(table, store, last, limit, blind) ==
  LET products == RepoSync(table, store, last, limit)
      next == NextSyncSeq(products, last)
  IN IF last < 0 \/ limit \notin 1..1000 THEN [status |-> 400]
     ELSE [status |-> 200, products |-> products, next |-> IF blind THEN last ELSE next,
           more |-> ~ blind /\ products # <<>> /\ RepoSync(table, store, next, 1) # <<>>]

(* The query for what is behind the last row may fail (blind): the service *)
(* logs it and answers with has_more false.  When the first one fails, the *)
(* answer is a 500, and the client asks again.                             *)
Sync(table, store, last, limit, blind) ==
  LET products == RepoSync(table, store, last, limit)
      next == NextSyncSeq(products, last)
  IN IF last < 0 \/ limit \notin 1..1000 THEN [status |-> 400]
     ELSE [status |-> 200, products |-> products, next |-> next,
           more |-> ~ blind /\ products # <<>> /\ RepoSync(table, store, next, 1) # <<>>]

(* What a client gets that goes on behind from while has_more is set, then *)
(* nothing.  The second query fails in the answers of the numbers blind.   *)
SyncAnswers(table, store, from, limit, blind) ==
  LET answer[n \in 0..Cardinality(table)] ==
        IF n = 0 THEN Sync(table, store, from, limit, 0 \in blind)
        ELSE IF answer[n - 1].more
          THEN Sync(table, store, answer[n - 1].next, limit, n \in blind)
        ELSE [answer[n - 1] EXCEPT !.products = <<>>]
  IN answer

(* Wherever such a client begins and wherever a second query that failed   *)
(* makes it stop, it has every row between where it began and the number   *)
(* it was given last, sold or not, once: nothing is skipped that it would  *)
(* not get by coming back with that number.  It gets further whenever a    *)
(* row is left, and nothing is left when no query failed.  (Rows have      *)
(* different numbers here.  Upsert numbers them one by one, so in the      *)
(* database they need not, and the second of two rows with one number at   *)
(* the end of a page is never sent.)                                       *)
SyncPagesAreComplete(x) ==
  x.kind = "sync" =>
    LET answers == SyncAnswers(x.table, x.store, x.from, x.limit, x.blind)
        last == answers[Cardinality(x.table)]
        left == {p \in x.table : p.store = x.store /\ p.seq > last.next}
    IN /\ ShowOnce([n \in DOMAIN answers |-> answers[n].products],
                   {p \in x.table : p.store = x.store /\ p.seq > x.from /\ p.seq <= last.next})
       /\ ~ last.more
       /\ left # {} => last.next > x.from /\ x.blind # {}

-----------------------------------------------------------------------------
(* Texts are sequences of characters, upper and lower case being one; "nl" *)
(* and "tab" stand for the two.  A text that was made from a query is kept *)
(* as the sequence of what became of each character, none to two of them.  *)
(* Mutant of Escaped: an underscore is left alone. *)
EscapedPercentOnly(c) ==
  CASE c = "%" -> <<"\\", "%">>
    [] c \in {"nl", "tab"} -> <<" ">>
    [] c = "'" -> <<"'", "'">>
    [] c = ";" -> <<>>
    [] OTHER -> <<c>>

(* What SanitizeQuery makes of one character. *)
Escaped(c) ==
  CASE c \in {"%", "_"} -> <<"\\", c>>
    [] c \in {"nl", "tab"} -> <<" ">>
    [] c = "'" -> <<"'", "'">>
    [] c = ";" -> <<>>
    [] OTHER -> <<c>>

(* strings.TrimSpace *)
Trim(text, blanks) ==
  LET ink == {i \in DOMAIN text : text[i] \notin blanks}
      first == CHOOSE i \in ink : \A j \in ink : i <= j
      last == CHOOSE i \in ink : \A j \in ink : j <= i
  IN IF ink = {} THEN <<>> ELSE [i \in 1..(last - first + 1) |-> text[first - 1 + i]]

SanitizeQuery(query) ==
  Trim([i \in DOMAIN query |-> Escaped(query[i])], {<<" ">>, <<>>})

(* ILIKE reads a pattern and keeps the places of the text where what it    *)
(* has read may end; a backslash takes the next character as it is.        *)
Literally(text, at, c) == {i + 1 : i \in {j \in at : j < Len(text) /\ text[j + 1] = c}}
ReadChar(text, read, c) ==
  IF read.escape THEN [escape |-> FALSE, at |-> Literally(text, read.at, c)]
  ELSE IF c = "\\" THEN [escape |-> TRUE, at |-> read.at]
  ELSE [escape |-> FALSE,
        at |-> IF c = "%" THEN UNION {i..Len(text) : i \in read.at}
               ELSE IF c = "_" THEN {i + 1 : i \in {j \in read.at : j < Len(text)}}
               ELSE Literally(text, read.at, c)]
ReadPiece(text, read, piece) ==
  IF piece = <<>> THEN read
  ELSE IF Len(piece) = 1 THEN ReadChar(text, read, piece[1])
  ELSE ReadChar(text, ReadChar(text, read, piece[1]), piece[2])

ILike(text, pattern) ==
  LET read[k \in 0..Len(pattern)] ==
        IF k = 0 THEN [escape |-> FALSE, at |-> {0}]
        ELSE ReadPiece(text, read[k - 1], pattern[k])
  IN Len(text) \in read[Len(pattern)].at

Matches(text, query) ==
  ILike(text, <<<<"%">>>> \o SanitizeQuery(query) \o <<<<"%">>>>)

(* A search in the database takes what the customer wrote literally, the   *)
(* characters % and _ included: it finds the names that contain the query, *)
(* apart from blanks at its ends.  (It drops a semicolon, doubles a quote  *)
(* and passes a backslash on, so a query with one of those may find less   *)
(* or more.)                                                               *)
WildcardsAreLiteral(x) ==
  (x.kind = "query" /\ \A i \in DOMAIN x.query : x.query[i] \notin {"'", ";", "\\"}) =>
    LET asked == Trim([i \in DOMAIN x.query |->
                         IF x.query[i] \in {"nl", "tab"} THEN " " ELSE x.query[i]], {" "})
    IN Matches(x.text, x.query) <=>
         \E i \in 0..(Len(x.text) - Len(asked)) :
           \A j \in DOMAIN asked : x.text[i + j] = asked[j]

-----------------------------------------------------------------------------
(* Every input the service may compute with.  A table is what a store has; *)
(* rows of different stores may be alike in price and number.  OpenSearch  *)
(* answers for 10000 documents, so that a table has some less.             *)
ProductRow == [id : Nat, store : STRING, category : STRING, active : BOOLEAN,
               price : Int, seq : Int, hit : BOOLEAN]
PricedTable ==
  {T \in SUBSET ProductRow :
     /\ IsFiniteSet(T) /\ Cardinality(T) <= 9900
     /\ \A p, q \in T : p.store = q.store /\ p.price = q.price => p = q}
NumberedTable ==
  {T \in SUBSET ProductRow :
     /\ IsFiniteSet(T)
     /\ \A p, q \in T : p.store = q.store /\ p.seq = q.seq => p = q}
AskedInputs ==
  [kind : {"pages"}, table : PricedTable, store : STRING \ {"missing", "bad"}, category : STRING,
   limit : Int, client : {"up", "down", "none"}]
  \union [kind : {"sync"}, table : NumberedTable, store : STRING, from : Nat, limit : 1..1000,
          blind : SUBSET Nat]
  \union [kind : {"query"}, text : Seq(STRING), query : Seq(STRING)]
  \union [kind : {"none"}]
ASSUME SamplesAssumption == Samples \subseteq AskedInputs

(* One input after another is asked about on its own. *)
AskedSpec == sample \in Samples /\ [][UNCHANGED sample]_sample

(* The pages of Search and ByCategory show everything that belongs to the  *)
(* answer, Sync skips and repeats no row, and a query is taken literally.  *)
PagesShownRight ==
  /\ SearchPagesAreComplete(sample)
  /\ SyncPagesAreComplete(sample)
  /\ WildcardsAreLiteral(sample)
=============================================================================
