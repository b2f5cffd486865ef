--------------------------- MODULE ListPagesProofs ---------------------------
(***************************************************************************)
(* What ListPages promises of the rows on the screen, for any rows, pages, *)
(* requests and operations under way: they answer the query on the screen, *)
(* and those removed are gone.                                             *)
(***************************************************************************)
EXTENDS ListPages, FiniteSetTheorems, TLAPS

Shown == [query: Query, rows: SUBSET Rows, pages: Nat]

Types ==
  /\ kind \in Kinds
  /\ live \subseteq Rows /\ gone \subseteq Rows
  /\ query \in Query
  /\ loads \in [Slots -> Load \cup {None}]
  /\ shown \in Shown
  /\ error \in BOOLEAN /\ mixed \in BOOLEAN
  /\ box \in Box
  /\ ops \subseteq Op

\* What was removed is no longer on the server, nor in a list it answered then;
\* a page without operations removes nothing and loads only by its effect.
Removals ==
  /\ gone \cap live = {}
  /\ \A o \in ops : o.does = "remove" /\ o.applied /\ o.at.filter # "deleted" => o.row \notin o.left
  /\ kind.acts.again = "none" => ops = {} /\ gone = {} /\ \A i \in Slots : Busy(i) => loads[i].effect

\* What is awaited asks the query on the screen, and without it, or a keyword
\* to search, what is shown answers that query.
Answering ==
  /\ \A i \in Slots : Awaited(i) => loads[i].query = query
  /\ (\E i \in Slots : Awaited(i)) \/ error \/ box.pending \/ shown.query = query

\* Nothing that is awaited, or shown, brings back a row that was removed, where
\* removed rows are not asked for.
Clean(q, rows) == q.filter # "deleted" => rows \cap gone = {}
Removing ==
  /\ \A i \in Slots : Awaited(i) => Clean(loads[i].query, loads[i].rows)
  /\ kind.acts.again = "answer" => \A o \in ops : Clean(o.at, o.left)
  /\ (\E i \in Slots : Awaited(i)) \/ error \/ Clean(shown.query, shown.rows)

Inv == Types /\ Removals /\ (Orderly => Answering) /\ (~ mixed => Removing)

-----------------------------------------------------------------------------
USE KindsAssumption, RowsAssumption, BoundsAssumption, NoneAssumption

LEMMA FreshType ==
  ASSUME NEW q \in Query, NEW b \in BOOLEAN
  PROVE  /\ Fresh(q, b) \in Load /\ Fresh(q, b) # None
         /\ Fresh(q, b).query = q /\ Fresh(q, b).rows = {} /\ ~ Fresh(q, b).dropped /\ Fresh(q, b).effect = b
<1>1. Fresh(q, b) \in Load
  BY DEF Fresh, Load
<1>2. /\ Fresh(q, b).query = q /\ Fresh(q, b).rows = {} /\ ~ Fresh(q, b).dropped
      /\ Fresh(q, b).effect = b
  BY DEF Fresh
<1> QED BY <1>1, <1>2

LEMMA DroppedFields ==
  ASSUME NEW l \in Load, NEW b \in BOOLEAN
  PROVE  /\ [l EXCEPT !.dropped = b] \in Load /\ [l EXCEPT !.dropped = b] # None
         /\ [l EXCEPT !.dropped = b].query = l.query /\ [l EXCEPT !.dropped = b].rows = l.rows
         /\ [l EXCEPT !.dropped = b].dropped = b /\ [l EXCEPT !.dropped = b].effect = l.effect
BY DEF Load

LEMMA SearchFields ==
  ASSUME NEW l \in Load, NEW b \in BOOLEAN
  PROVE  /\ [l EXCEPT !.search = b] \in Load /\ [l EXCEPT !.search = b] # None
         /\ [l EXCEPT !.search = b].query = l.query /\ [l EXCEPT !.search = b].dropped = l.dropped
         /\ [l EXCEPT !.search = b].effect = l.effect
BY DEF Load

LEMMA AnswerRows ==
  ASSUME NEW rows \in SUBSET Rows, NEW q
  PROVE  /\ Answer(rows, q) \in SUBSET Rows
         /\ q.filter # "deleted" => Answer(rows, q) \subseteq rows
<1>1. Matches(rows, q.filter) \subseteq Rows /\ (q.filter # "deleted" => Matches(rows, q.filter) \subseteq rows)
  BY DEF Matches
<1> QED BY <1>1 DEF Answer

\* The requests once another has started: the new one, and the earlier ones,
\* of which the page may have dropped some.
Started(L, q, b, i) ==
  /\ L \in [Slots -> Load \cup {None}]
  /\ L[i] = Fresh(q, b)
  /\ \A j \in Slots \ {i} :
       /\ L[j] = None <=> loads[j] = None
       /\ L[j] # None => /\ L[j].query = loads[j].query /\ L[j].rows = loads[j].rows
                         /\ L[j].effect = loads[j].effect
                         /\ loads[j].dropped => L[j].dropped
       /\ kind.load.drops /\ b /\ Busy(j) /\ loads[j].effect => L[j].dropped

LEMMA StartLoads ==
  ASSUME Types, NEW q \in Query, NEW b \in BOOLEAN, NEW i \in Slots
  PROVE  Started(Start(q, b, i), q, b, i)
<1> DEFINE L == Start(q, b, i)
<1>1. L[i] = Fresh(q, b) /\ L[i] \in Load
  BY FreshType DEF Start
<1>2. ASSUME NEW j \in Slots \ {i}
      PROVE  /\ L[j] \in Load \cup {None}
             /\ L[j] = None <=> loads[j] = None
             /\ L[j] # None => /\ L[j].query = loads[j].query /\ L[j].rows = loads[j].rows
                               /\ L[j].effect = loads[j].effect
                               /\ loads[j].dropped => L[j].dropped
             /\ kind.load.drops /\ b /\ Busy(j) /\ loads[j].effect => L[j].dropped
  <2>1. loads[j] \in Load \cup {None}
    BY DEF Types
  <2>2. CASE Busy(j) /\ kind.load.drops /\ b /\ loads[j].effect
    <3>1. L[j] = [loads[j] EXCEPT !.dropped = TRUE]
      BY <2>2 DEF Start
    <3>2. loads[j] \in Load
      BY <2>1, <2>2 DEF Busy
    <3> QED BY <3>1, <3>2, DroppedFields
  <2>3. CASE ~ (Busy(j) /\ kind.load.drops /\ b /\ loads[j].effect)
    <3>1. L[j] = loads[j]
      BY <2>3 DEF Start
    <3> QED BY <2>1, <2>3, <3>1 DEF Busy
  <2> QED BY <2>2, <2>3
<1>3. L = [j \in Slots |-> L[j]]
  BY DEF Start
<1> HIDE DEF L
<1>4. Started(L, q, b, i)
  BY <1>1, <1>2, <1>3 DEF Started
<1> QED BY <1>4 DEF L

-----------------------------------------------------------------------------
LEMMA InitInv == Init => Inv
<1> SUFFICES ASSUME Init PROVE Inv
  OBVIOUS
<1>1. PICK i \in Slots : loads = [j \in Slots |-> IF j = i THEN Fresh(query, TRUE) ELSE None]
  BY DEF Init
<1>2. query \in Query /\ shown \in Shown /\ shown.query = query /\ shown.rows = {}
  BY DEF Init, Query, Filters, Shown
<1>3. /\ Fresh(query, TRUE) \in Load /\ Fresh(query, TRUE).query = query /\ Fresh(query, TRUE).rows = {}
      /\ Fresh(query, TRUE).effect
  BY <1>2, FreshType
<1>4. Types
  BY <1>1, <1>2, <1>3 DEF Init, Types, Box, Keywords
<1>5. Removals
  BY <1>1, <1>3 DEF Init, Removals, Busy
<1>6. Answering
  BY <1>1, <1>2, <1>3 DEF Answering, Awaited, Busy
<1>7. Removing
  BY <1>1, <1>2, <1>3 DEF Init, Removing, Clean, Awaited, Busy
<1> QED BY <1>4, <1>5, <1>6, <1>7 DEF Inv

LEMMA AskInv ==
  ASSUME Inv, NEW q \in Query, Ask(q)
  PROVE  Inv'
<1> USE DEF Inv
<1>1. PICK i \in Slots : NextFree(i) /\ loads' = Start(q, TRUE, i)
  BY DEF Ask
<1>2. /\ query' = q /\ error' = FALSE /\ mixed' = Overlaps
      /\ UNCHANGED <<kind, live, shown, box, ops, gone>>
  BY DEF Ask
<1>3. Started(loads', q, TRUE, i)
  BY <1>1, StartLoads
<1>4. /\ Fresh(q, TRUE) \in Load /\ Fresh(q, TRUE) # None /\ Fresh(q, TRUE).query = q
      /\ Fresh(q, TRUE).rows = {} /\ ~ Fresh(q, TRUE).dropped /\ Fresh(q, TRUE).effect
  BY FreshType
<1>5. \A j \in Slots \ {i} : loads'[j] # None /\ ~ loads'[j].dropped => Awaited(j)
  BY <1>3 DEF Started, Awaited, Busy
<1>6. ~ mixed' => ops = {} /\ \A j \in Slots : ~ Awaited(j)
  BY <1>2 DEF Overlaps
<1>7. Types'
  BY <1>2, <1>3, <1>6 DEF Started, Types, Overlaps
<1>8. Removals'
  BY <1>2, <1>3, <1>4 DEF Started, Removals, Busy
<1>9. ASSUME Orderly' PROVE Answering'
  <2>1. \A j \in Slots \ {i} : loads'[j] = None \/ loads'[j].dropped
    <3>1. CASE ~ mixed'
      BY <1>5, <1>6, <3>1
    <3>2. CASE kind.load.drops /\ kind.acts.again = "none"
      BY <1>3, <3>2 DEF Started, Removals, Busy
    <3> QED BY <1>2, <1>9, <3>1, <3>2 DEF Orderly, Robust
  <2> QED BY <1>2, <1>3, <1>4, <2>1 DEF Started, Answering, Awaited, Busy
<1>10. ASSUME ~ mixed' PROVE Removing'
  <2>1. \A j \in Slots : Awaited(j)' => j = i
    BY <1>5, <1>6, <1>10 DEF Awaited, Busy
  <2>2. Awaited(i)' /\ loads'[i].rows = {}
    BY <1>3, <1>4 DEF Awaited, Busy, Started
  <2> QED BY <1>2, <1>6, <1>10, <2>1, <2>2 DEF Removing, Clean
<1> QED BY <1>7, <1>8, <1>9, <1>10

LEMMA QueryInv ==
  ASSUME Inv,
         \/ \E f \in Filters : Filter(f)
         \/ \E p \in 1 .. MaxPage : Turn(p)
  PROVE  Inv'
<1>1. ASSUME NEW f \in Filters, Filter(f) PROVE Inv'
  <2>1. [filter |-> f, page |-> IF kind.load.resets = "with" THEN 1 ELSE query.page] \in Query
    BY DEF Inv, Types, Query
  <2> QED BY <1>1, <2>1, AskInv DEF Filter
<1>2. ASSUME NEW p \in 1 .. MaxPage, Turn(p) PROVE Inv'
  <2>1. [query EXCEPT !.page = p] \in Query
    BY DEF Inv, Types, Query
  <2> QED BY <1>2, <2>1, AskInv DEF Turn
<1> QED BY <1>1, <1>2

LEMMA ResetInv ==
  ASSUME Inv, NEW f \in Filters, FilterThenReset(f)
  PROVE  Inv'
<1> USE DEF Inv
<1> DEFINE q == [filter |-> f, page |-> 1]
           old == [query EXCEPT !.filter = f]
           late == [Fresh(old, TRUE) EXCEPT !.dropped = kind.load.drops]
<1>1. /\ query' = q /\ error' = FALSE /\ mixed' = TRUE
      /\ UNCHANGED <<kind, live, shown, box, ops, gone>>
  BY DEF FilterThenReset
<1>2. PICK i \in Slots, k \in Slots : i # k /\ loads' = [Start(q, TRUE, i) EXCEPT ![k] = late]
  BY DEF FilterThenReset
<1>3. q \in Query /\ old \in Query /\ kind.load.drops \in BOOLEAN
  BY DEF Types, Query, PageKind, LoadKind
<1> HIDE DEF q, old
<1>4. late \in Load /\ late # None /\ late.dropped = kind.load.drops /\ late.effect
  <2>1. Fresh(old, TRUE) \in Load /\ Fresh(old, TRUE).effect
    BY <1>3, FreshType
  <2> QED BY <1>3, <2>1, DroppedFields
<1> HIDE DEF late
<1>5. /\ loads' \in [Slots -> Load \cup {None}]
      /\ loads'[i] = Fresh(q, TRUE) /\ loads'[k] = late
      /\ \A j \in Slots \ {i, k} :
           /\ loads'[j] = None <=> loads[j] = None
           /\ loads'[j] # None => loads'[j].effect = loads[j].effect
           /\ kind.load.drops /\ Busy(j) /\ loads[j].effect => loads'[j].dropped
  <2> DEFINE L == Start(q, TRUE, i)
  <2>1. loads' = [L EXCEPT ![k] = late]
    BY <1>2
  <2>2. Started(L, q, TRUE, i)
    BY <1>3, StartLoads
  <2> HIDE DEF L
  <2>3. /\ loads' \in [Slots -> Load \cup {None}] /\ loads'[k] = late
        /\ \A j \in Slots \ {k} : loads'[j] = L[j]
    BY <1>4, <2>1, <2>2 DEF Started
  <2> QED BY <1>2, <2>2, <2>3 DEF Started
<1>6. /\ Fresh(q, TRUE) # None /\ Fresh(q, TRUE).query = q /\ ~ Fresh(q, TRUE).dropped
      /\ Fresh(q, TRUE).effect
  BY <1>3, FreshType
<1>7. Types'
  BY <1>1, <1>3, <1>5 DEF Types
<1>8. Removals'
  BY <1>1, <1>4, <1>5, <1>6 DEF Removals, Busy
<1>9. ASSUME Orderly' PROVE Answering'
  <2>1. kind.load.drops /\ kind.acts.again = "none"
    BY <1>1, <1>9 DEF Orderly, Robust
  <2>2. \A j \in Slots \ {i} : loads'[j] = None \/ loads'[j].dropped
    BY <1>4, <1>5, <2>1 DEF Removals, Busy
  <2> QED BY <1>1, <1>5, <1>6, <2>2 DEF Answering, Awaited, Busy
<1> QED BY <1>1, <1>7, <1>8, <1>9

-----------------------------------------------------------------------------
LEMMA ServedType ==
  ASSUME NEW l \in Load, NEW R \in SUBSET Rows, NEW n \in Nat, NEW b \in BOOLEAN
  PROVE  [l EXCEPT !.served = b, !.rows = R, !.pages = n] \in Load
BY DEF Load

LEMMA ServeInv ==
  ASSUME Inv, NEW i \in Slots, Serve(i)
  PROVE  Inv'
<1> USE DEF Inv
<1> DEFINE l == loads[i]
           R == Answer(live, l.query)
           n == Total(l.query.filter)
           m == [l EXCEPT !.served = TRUE, !.rows = R, !.pages = n]
<1>1. l \in Load /\ Busy(i)
  BY DEF Serve, Types, Busy
<1>2. R \in SUBSET Rows /\ (l.query.filter # "deleted" => R \cap gone = {})
  BY AnswerRows DEF Types, Removals
<1>3. n \in Nat
  <2>1. Matches(live, l.query.filter) \subseteq Rows
    BY DEF Matches, Types
  <2>2. IsFiniteSet(Matches(live, l.query.filter))
    BY <2>1, FS_Subset
  <2> QED BY <2>2, FS_CardinalityType DEF Total
<1>4. loads' = [loads EXCEPT ![i] = m]
  BY <1>1 DEF Serve, Types
<1>5. m \in Load /\ m # None /\ m.query = l.query /\ m.rows = R /\ m.dropped = l.dropped /\ m.effect = l.effect
  <2> HIDE DEF l, R, n
  <2>1. l \in Load /\ R \in SUBSET Rows /\ n \in Nat
    BY <1>1, <1>2, <1>3
  <2>2. TRUE \in BOOLEAN
    OBVIOUS
  <2>3. m \in Load
    BY <2>1, <2>2, ServedType
  <2>4. m.query = l.query /\ m.rows = R /\ m.dropped = l.dropped /\ m.effect = l.effect
    BY <2>1 DEF Load
  <2> QED BY <2>3, <2>4
<1>6. UNCHANGED <<kind, live, query, shown, loading, error, box, ops, mixed, gone, acts>>
  BY DEF Serve
<1> HIDE DEF m, R, n
<1>7. Types'
  BY <1>4, <1>5, <1>6 DEF Types
<1>8. Removals'
  BY <1>1, <1>4, <1>5, <1>6 DEF Removals, Busy, Types
<1>9. \A j \in Slots : Awaited(j)' <=> Awaited(j)
  BY <1>1, <1>4, <1>5 DEF Awaited, Busy, Types
<1>10. Answering => Answering'
  BY <1>1, <1>4, <1>5, <1>6, <1>9 DEF Answering, Types
<1>11. Removing => Removing'
  BY <1>1, <1>2, <1>4, <1>5, <1>6, <1>9 DEF Removing, Clean, Types
<1> QED BY <1>6, <1>7, <1>8, <1>10, <1>11 DEF Orderly, Robust

\* A request ends: what it brought is shown, it was dropped, or it is an error.
LEMMA EndInv ==
  ASSUME Inv, NEW i \in Slots, Receive(i) \/ Fail(i)
  PROVE  Inv'
<1> USE DEF Inv
<1>1. /\ loads' = [loads EXCEPT ![i] = None] /\ Busy(i) /\ loads[i] \in Load
      /\ UNCHANGED <<kind, live, query, ops, mixed, gone>>
  BY DEF Receive, Fail, Ends, Types, Busy
<1>2. \/ loads[i].dropped /\ UNCHANGED <<shown, error, box>>
      \/ /\ ~ loads[i].dropped /\ UNCHANGED <<error, box>>
         /\ shown' = [query |-> loads[i].query, rows |-> loads[i].rows, pages |-> loads[i].pages]
      \/ /\ error' = TRUE /\ shown' \in {shown, [shown EXCEPT !.rows = {}, !.pages = 0]}
         /\ box' = [box EXCEPT !.pending = @ /\ ~ loads[i].search]
  BY DEF Receive, Fail, Ends
<1>3. Types'
  <2>1. loads[i].query \in Query /\ loads[i].rows \in SUBSET Rows /\ loads[i].pages \in Nat
    BY <1>1 DEF Load
  <2>2. [query |-> loads[i].query, rows |-> loads[i].rows, pages |-> loads[i].pages] \in Shown
    BY <2>1 DEF Shown
  <2>3. [shown EXCEPT !.rows = {}, !.pages = 0] \in Shown
    BY DEF Types, Shown
  <2>4. shown' \in Shown /\ error' \in BOOLEAN
    BY <1>2, <2>2, <2>3 DEF Types
  <2>5. loads[i].search \in BOOLEAN
    BY <1>1 DEF Load
  <2>6. [box EXCEPT !.pending = @ /\ ~ loads[i].search] \in Box
    BY <2>5 DEF Types, Box
  <2>7. box' \in Box
    BY <1>2, <2>6 DEF Types
  <2> QED BY <1>1, <2>4, <2>7 DEF Types
<1>4. Removals'
  BY <1>1 DEF Removals, Busy, Types
<1>5. \A j \in Slots : Awaited(j)' <=> j # i /\ Awaited(j)
  BY <1>1 DEF Awaited, Busy, Types
<1>6. \A j \in Slots \ {i} : loads'[j] = loads[j]
  BY <1>1 DEF Types
<1>7. Answering => Answering'
  BY <1>1, <1>2, <1>5, <1>6 DEF Answering, Awaited
<1>8. Removing => Removing'
  BY <1>1, <1>2, <1>5, <1>6 DEF Removing, Clean, Awaited
<1> QED BY <1>1, <1>3, <1>4, <1>7, <1>8 DEF Orderly, Robust

-----------------------------------------------------------------------------
\* On a page with a typed keyword nothing is removed, and it drops what is late.
LEMMA TypedPage ==
  ASSUME Inv, kind.view.types
  PROVE  Robust /\ ops = {} /\ gone = {} /\ \A j \in Slots : Busy(j) => loads[j].effect
BY DEF Inv, Types, Removals, Robust

\* Where every load but the new one is dropped, the new one is awaited.
LEMMA TypedInv ==
  ASSUME Inv, kind.view.types, NEW q \in Query, NEW i \in Slots,
         loads' \in [Slots -> Load \cup {None}],
         loads'[i] # None, loads'[i].query = q, ~ loads'[i].dropped, loads'[i].effect,
         \A j \in Slots \ {i} : loads'[j] = None \/ (loads'[j].dropped /\ loads'[j].effect),
         query' = q, box' \in Box, error' \in BOOLEAN, mixed' \in BOOLEAN,
         UNCHANGED <<kind, live, shown, ops, gone>>
  PROVE  Inv'
<1>1. Robust /\ ops = {} /\ gone = {}
  BY TypedPage
<1>2. Types'
  BY DEF Inv, Types
<1>3. Removals'
  BY <1>1 DEF Inv, Removals, Busy
<1>4. Answering'
  BY DEF Answering, Awaited, Busy
<1>5. Removing'
  BY <1>1 DEF Removing, Clean, Robust
<1> QED BY <1>2, <1>3, <1>4, <1>5 DEF Inv

LEMMA AgainInv ==
  ASSUME Inv, kind.view.types, NEW f \in Filters, Again(f), box' \in Box,
         UNCHANGED <<kind, live, shown, ops, gone>>
  PROVE  Inv'
<1> DEFINE q == [query EXCEPT !.filter = f]
<1>1. q \in Query
  BY DEF Inv, Types, Query
<1>2. PICK i \in Slots : loads' = Start(q, TRUE, i)
  BY DEF Again
<1>3. query' = q /\ error' = FALSE /\ mixed' \in BOOLEAN
  BY DEF Again, Overlaps
<1> HIDE DEF q
<1>4. Started(loads', q, TRUE, i)
  BY <1>1, <1>2, StartLoads DEF Inv
<1>5. /\ Fresh(q, TRUE) # None /\ Fresh(q, TRUE).query = q
      /\ ~ Fresh(q, TRUE).dropped /\ Fresh(q, TRUE).effect
  BY <1>1, FreshType
<1>6. Robust /\ \A j \in Slots : Busy(j) => loads[j].effect
  BY TypedPage
<1>7. \A j \in Slots \ {i} : loads'[j] = None \/ (loads'[j].dropped /\ loads'[j].effect)
  BY <1>4, <1>6 DEF Started, Robust, Busy
<1>8. /\ loads' \in [Slots -> Load \cup {None}] /\ loads'[i] # None
      /\ loads'[i].query = q /\ ~ loads'[i].dropped /\ loads'[i].effect
  BY <1>4, <1>5 DEF Started
<1> QED BY <1>1, <1>3, <1>7, <1>8, TypedInv

LEMMA SearchInv ==
  ASSUME Inv, kind.view.types, Search, box' \in Box, UNCHANGED <<kind, live, shown, ops, gone>>
  PROVE  Inv'
<1> DEFINE q == [query EXCEPT !.filter = box.typed]
           S(i) == Start(q, TRUE, i)
           m == [Fresh(q, TRUE) EXCEPT !.search = TRUE]
<1>1. q \in Query
  <2>1. box.typed \in Filters
    BY DEF Inv, Types, Box, Keywords, Filters
  <2> QED BY <2>1 DEF Inv, Types, Query
<1>2. PICK i \in Slots : loads' = [S(i) EXCEPT ![i].search = TRUE]
  BY DEF Search
<1>3. query' = q /\ error' = FALSE /\ mixed' \in BOOLEAN
  BY DEF Search, Overlaps
<1> HIDE DEF q
<1>4. Started(S(i), q, TRUE, i)
  BY <1>1, StartLoads DEF Inv
<1>5. /\ m \in Load /\ m # None /\ m.query = q /\ ~ m.dropped /\ m.effect
  <2>1. Fresh(q, TRUE) \in Load /\ Fresh(q, TRUE).query = q /\ ~ Fresh(q, TRUE).dropped /\ Fresh(q, TRUE).effect
    BY <1>1, FreshType
  <2> QED BY <2>1, SearchFields
<1> HIDE DEF S
<1>6. /\ loads' \in [Slots -> Load \cup {None}] /\ loads'[i] = m
      /\ \A j \in Slots \ {i} : loads'[j] = S(i)[j]
  BY <1>2, <1>4, <1>5 DEF Started
<1>7. Robust /\ \A j \in Slots : Busy(j) => loads[j].effect
  BY TypedPage
<1> HIDE DEF m
<1>8. \A j \in Slots \ {i} : loads'[j] = None \/ (loads'[j].dropped /\ loads'[j].effect)
  BY <1>4, <1>6, <1>7 DEF Started, Robust, Busy
<1> QED BY <1>1, <1>3, <1>5, <1>6, <1>8, TypedInv

\* The typed keyword: cleared, typed, its timer, its button, and its search.
LEMMA KeywordInv ==
  ASSUME Inv, Clear \/ Submit \/ TimerEnds \/ \E f \in Keywords : Type(f)
  PROVE  Inv'
<1>1. box \in Box /\ "all" \in Filters /\ "all" \in Keywords
  BY DEF Inv, Types, Filters, Keywords
<1>2. CASE Clear
  <2>1. /\ kind.view.types /\ Again("all") /\ UNCHANGED <<kind, live, shown, ops, gone>>
        /\ box' = [typed |-> "all", timer |-> FALSE, pending |-> FALSE, same |-> FALSE]
    BY <1>2 DEF Clear
  <2>2. box' \in Box
    BY <1>1, <2>1 DEF Box
  <2> QED BY <1>1, <2>1, <2>2, AgainInv
<1>3. CASE Submit
  BY <1>1, <1>3, SearchInv DEF Submit
<1>4. CASE TimerEnds
  <2>1. kind.view.types /\ UNCHANGED <<kind, live, shown, ops, gone, acts>>
    BY <1>4 DEF TimerEnds
  <2>2. CASE Search /\ box' = [box EXCEPT !.timer = FALSE]
    <3>1. box' \in Box
      BY <1>1, <2>2 DEF Box
    <3> QED BY <2>1, <2>2, <3>1, SearchInv
  <2>3. CASE /\ UNCHANGED <<query, loads, loading, error, mixed>>
             /\ box' = [box EXCEPT !.timer = FALSE, !.same = box.pending /\ ~Searching]
    <3>1. box' \in Box /\ box'.pending = box.pending
      BY <1>1, <2>3 DEF Box, Searching
    <3> QED BY <2>1, <2>3, <3>1 DEF Inv, Types, Removals, Busy, Orderly, Robust, Answering, Removing, Clean, Awaited
  <2> QED BY <1>4, <2>2, <2>3 DEF TimerEnds
<1>5. ASSUME NEW f \in Keywords, Type(f) PROVE Inv'
  <2>1. /\ kind.view.types /\ UNCHANGED <<kind, live, shown, ops, gone>>
        /\ box' = [typed |-> f, timer |-> TRUE, pending |-> TRUE, same |-> FALSE]
    BY <1>5 DEF Type
  <2>2. box' \in Box /\ box'.pending
    BY <2>1 DEF Box
  <2>3. CASE Again("all")
    BY <1>1, <2>1, <2>2, <2>3, AgainInv
  <2>4. CASE UNCHANGED <<query, loads, loading, error, mixed>>
    BY <2>1, <2>2, <2>4 DEF Inv, Types, Removals, Busy, Orderly, Robust, Answering, Removing, Clean, Awaited
  <2>5. CASE /\ loads' = [j \in Slots |-> IF Busy(j) THEN [loads[j] EXCEPT !.dropped = TRUE] ELSE None]
             /\ UNCHANGED <<query, loading, error, mixed>>
    <3>1. Robust /\ ops = {} /\ gone = {} /\ \A j \in Slots : Busy(j) => loads[j].effect
      BY <2>1, TypedPage
    <3>2. ASSUME NEW j \in Slots
          PROVE  /\ loads'[j] \in Load \cup {None}
                 /\ loads'[j] = None \/ (loads'[j].dropped /\ loads'[j].effect)
      <4>1. CASE Busy(j)
        <5>1. loads[j] \in Load /\ loads'[j] = [loads[j] EXCEPT !.dropped = TRUE]
          BY <2>5, <4>1 DEF Inv, Types, Busy
        <5> QED BY <3>1, <4>1, <5>1, DroppedFields
      <4>2. CASE ~ Busy(j)
        BY <2>5, <4>2
      <4> QED BY <4>1, <4>2
    <3>3. loads' \in [Slots -> Load \cup {None}]
      BY <2>5, <3>2
    <3>4. Types'
      BY <2>1, <2>2, <2>5, <3>3 DEF Inv, Types
    <3>5. Removals'
      BY <2>1, <3>1, <3>2 DEF Inv, Removals, Busy
    <3>6. Answering'
      BY <2>2, <3>2 DEF Answering, Awaited, Busy
    <3>7. Removing'
      BY <2>1, <3>1 DEF Removing, Clean, Robust
    <3> QED BY <3>4, <3>5, <3>6, <3>7 DEF Inv
  <2> QED BY <1>5, <2>3, <2>4, <2>5 DEF Type
<1> QED BY <1>2, <1>3, <1>4, <1>5

\* The end of a search asks for the rows, with the same query.
LEMMA FoundInv ==
  ASSUME Inv, NEW i \in Slots, Found(i)
  PROVE  Inv'
<1> DEFINE l == loads[i]
           m == Fresh(l.query, TRUE)
<1>1. l \in Load /\ l.query \in Query /\ Awaited(i)
  BY DEF Found, Inv, Types, Busy, Awaited, Load
<1>2. loads' = [loads EXCEPT ![i] = m] /\ UNCHANGED <<kind, live, query, shown, error, ops, mixed, gone>>
  BY DEF Found
<1>3. box' \in Box
  BY DEF Found, Inv, Types, Box
<1> HIDE DEF l
<1>4. m \in Load /\ m # None /\ m.query = l.query /\ m.rows = {} /\ ~ m.dropped /\ m.effect
  BY <1>1, FreshType
<1> HIDE DEF m
<1>5. /\ loads' \in [Slots -> Load \cup {None}] /\ loads'[i] = m
      /\ \A j \in Slots \ {i} : loads'[j] = loads[j]
  BY <1>2, <1>4 DEF Inv, Types
<1>6. Awaited(i)' /\ \A j \in Slots \ {i} : Awaited(j)' <=> Awaited(j)
  BY <1>4, <1>5 DEF Awaited, Busy
<1>7. Types'
  BY <1>2, <1>3, <1>5 DEF Inv, Types
<1>8. Removals'
  BY <1>2, <1>4, <1>5 DEF Inv, Removals, Busy
<1>9. Answering => Answering'
  BY <1>1, <1>2, <1>4, <1>5, <1>6 DEF Answering, l
<1>10. Removing => Removing'
  BY <1>2, <1>4, <1>5, <1>6 DEF Removing, Clean
<1> QED BY <1>2, <1>7, <1>8, <1>9, <1>10 DEF Inv, Orderly, Robust

-----------------------------------------------------------------------------
LEMMA OpFields ==
  ASSUME NEW o \in Op
  PROVE  /\ o.row \in Rows /\ o.at \in Query /\ o.left \subseteq Rows
         /\ \A b \in BOOLEAN, R \in SUBSET Rows :
              LET n == [o EXCEPT !.applied = b, !.left = R]
              IN n \in Op /\ n.row = o.row /\ n.does = o.does /\ n.at = o.at /\ n.left = R
BY DEF Op

LEMMA ActInv ==
  ASSUME Inv, NEW r \in Rows, NEW does \in Does, Act(r, does)
  PROVE  Inv'
<1> USE DEF Inv
<1> DEFINE n == [row |-> r, does |-> does, at |-> query, applied |-> FALSE, left |-> {}]
<1>1. n \in Op /\ ~ n.applied /\ n.left = {}
  BY DEF Types, Op
<1>2. /\ ops' = ops \cup {n} /\ kind.acts.again # "none"
      /\ UNCHANGED <<kind, live, query, loads, shown, loading, error, box, mixed, gone>>
  BY DEF Act
<1> HIDE DEF n
<1>3. Types'
  BY <1>1, <1>2 DEF Types
<1>4. Removals'
  BY <1>1, <1>2 DEF Removals, Busy
<1>5. Answering => Answering'
  BY <1>2 DEF Answering, Awaited, Busy
<1>6. Removing => Removing'
  BY <1>1, <1>2 DEF Removing, Clean, Awaited, Busy
<1> QED BY <1>2, <1>3, <1>4, <1>5, <1>6 DEF Orderly, Robust

LEMMA ApplyInv ==
  ASSUME Inv, NEW o \in ops, Apply(o)
  PROVE  Inv'
<1> USE DEF Inv
<1> DEFINE R == IF kind.acts.again = "answer" THEN Answer(live', o.at) ELSE {}
           n == [o EXCEPT !.applied = TRUE, !.left = R]
<1>1. /\ live' \in {live, live \ {o.row}, live \cup {o.row}}
      /\ o.does = "remove" => o.row \notin live'
      /\ gone' = gone \ live' /\ ops' = (ops \ {o}) \cup {n}
      /\ UNCHANGED <<kind, query, loads, shown, loading, error, box, mixed>>
  BY DEF Apply
<1>2. o \in Op /\ o.row \in Rows
  BY OpFields DEF Types
<1>3. live' \in SUBSET Rows /\ R \in SUBSET Rows /\ (o.at.filter # "deleted" => R \subseteq live')
  <2>1. live' \in SUBSET Rows
    BY <1>1, <1>2 DEF Types
  <2> QED BY <2>1, AnswerRows
<1>4. n \in Op /\ n.row = o.row /\ n.does = o.does /\ n.at = o.at /\ n.left = R
  <2> HIDE DEF R
  <2> QED BY <1>2, <1>3, OpFields
<1> HIDE DEF R, n
<1>5. Types'
  BY <1>1, <1>3, <1>4 DEF Types
<1>6. Removals'
  BY <1>1, <1>3, <1>4 DEF Removals, Busy
<1>7. Answering => Answering'
  BY <1>1 DEF Answering, Awaited, Busy
<1>8. Removing => Removing'
  <2>1. gone' \subseteq gone /\ gone' \cap live' = {}
    BY <1>1
  <2> QED BY <1>1, <1>3, <1>4, <2>1 DEF Removing, Clean, Awaited, Busy
<1> QED BY <1>1, <1>5, <1>6, <1>7, <1>8 DEF Orderly, Robust

\* The answer to an operation: the row is patched, the answer is the list, or
\* the list is asked for again.
LEMMA DoneInv ==
  ASSUME Inv, NEW o \in ops, Done(o)
  PROVE  Inv'
<1> USE DEF Inv
<1>1. /\ ops' = ops \ {o} /\ o.applied
      /\ gone' = IF o.does = "remove" THEN gone \cup ({o.row} \ live) ELSE gone
      /\ UNCHANGED <<kind, live, query, box>>
  BY DEF Done
<1>2. o \in Op /\ o.row \in Rows /\ o.at \in Query /\ o.left \subseteq Rows
  BY OpFields DEF Types
<1>3. gone' \subseteq Rows /\ gone' \cap live = {} /\ kind.acts.again # "none"
  BY <1>1, <1>2 DEF Types, Removals
<1>4. CASE kind.acts.again = "patch" /\ Patch(o)
  <2>1. /\ shown' = IF o.does = "remove" THEN [shown EXCEPT !.rows = shown.rows \ {o.row}] ELSE shown
        /\ mixed' = (mixed \/ \E j \in Slots : Awaited(j))
        /\ UNCHANGED <<loads, loading, error>>
    BY <1>4 DEF Patch
  <2>2. /\ shown' \in Shown /\ shown'.query = shown.query
        /\ Clean(shown.query, shown.rows) => Clean(shown.query, shown.rows)'
    BY <1>1, <2>1 DEF Types, Shown, Clean
  <2>3. Types'
    BY <1>1, <1>3, <2>1, <2>2 DEF Types
  <2>4. Removals'
    BY <1>1, <1>3, <2>1 DEF Removals, Busy
  <2>5. Answering => Answering'
    BY <1>1, <2>1, <2>2 DEF Answering, Awaited, Busy
  <2>6. ASSUME ~ mixed' PROVE Removing'
    BY <1>1, <1>4, <2>1, <2>2, <2>6 DEF Removing, Clean, Awaited, Busy, Types
  <2> QED BY <1>1, <1>3, <2>1, <2>3, <2>4, <2>5, <2>6 DEF Orderly, Robust, Types
<1>5. CASE kind.acts.again = "answer" /\ ShowLeft(o)
  <2>1. /\ shown' = [shown EXCEPT !.query = o.at, !.rows = o.left]
        /\ mixed' = (mixed \/ o.at # query \/ ops # {o} \/ \E j \in Slots : Awaited(j))
        /\ UNCHANGED <<loads, loading, error>>
    BY <1>5 DEF ShowLeft
  <2>2. shown' \in Shown /\ shown'.query = o.at /\ shown'.rows = o.left
    BY <1>2, <2>1 DEF Types, Shown
  <2>3. Types'
    BY <1>1, <1>3, <2>1, <2>2 DEF Types
  <2>4. Removals'
    BY <1>1, <1>3, <2>1 DEF Removals, Busy
  <2>5. ASSUME ~ mixed' PROVE Answering'
    BY <1>1, <2>1, <2>2, <2>5 DEF Answering, Awaited, Busy
  <2>6. ASSUME ~ mixed' PROVE Removing'
    <3>1. ops' = {} /\ \A j \in Slots : ~ Awaited(j)
      BY <1>1, <2>1, <2>6
    <3>2. Clean(o.at, o.left)'
      BY <1>1, <1>5, <2>1, <2>6 DEF Removing, Removals, Clean
    <3> QED BY <2>1, <2>2, <3>1, <3>2 DEF Removing, Clean, Awaited, Busy
  <2> QED BY <1>1, <1>3, <2>3, <2>4, <2>5, <2>6 DEF Orderly, Robust
<1>6. CASE kind.acts.again = "closure" /\ \E i \in Slots : Reload(o, i)
  <2>1. PICK i \in Slots : loads' = Start(o.at, FALSE, i)
    BY <1>6 DEF Reload
  <2>2. /\ error' = FALSE /\ shown' = shown
        /\ mixed' = (mixed \/ o.at # query \/ ops # {o} \/ \E j \in Slots : Awaited(j))
    BY <1>6 DEF Reload
  <2>3. Started(loads', o.at, FALSE, i)
    BY <1>2, <2>1, StartLoads
  <2>4. /\ Fresh(o.at, FALSE) # None /\ Fresh(o.at, FALSE).query = o.at
        /\ Fresh(o.at, FALSE).rows = {} /\ ~ Fresh(o.at, FALSE).dropped
    BY <1>2, FreshType
  <2>5. \A j \in Slots \ {i} : loads'[j] # None /\ ~ loads'[j].dropped => Awaited(j)
    BY <2>3 DEF Started, Awaited, Busy
  <2>6. Types'
    BY <1>1, <1>3, <2>2, <2>3 DEF Types, Started
  <2>7. Removals'
    BY <1>1, <1>3 DEF Removals
  <2>8. ASSUME ~ mixed' PROVE Answering'
    BY <1>1, <2>2, <2>3, <2>4, <2>5, <2>8 DEF Answering, Awaited, Busy, Started
  <2>9. ASSUME ~ mixed' PROVE Removing'
    <3>1. \A j \in Slots : Awaited(j)' => j = i
      BY <2>2, <2>5, <2>9 DEF Awaited, Busy
    <3>2. Awaited(i)' /\ loads'[i].rows = {}
      BY <2>3, <2>4 DEF Awaited, Busy, Started
    <3> QED BY <1>1, <1>6, <3>1, <3>2 DEF Removing, Clean
  <2> QED BY <1>1, <1>3, <2>6, <2>7, <2>8, <2>9 DEF Orderly, Robust
<1> QED BY <1>4, <1>5, <1>6 DEF Done

LEMMA OtherInv ==
  ASSUME Inv,
         \/ \E o \in ops : Refused(o)
         \/ \E r \in Rows : OtherUser(r)
         \/ UNCHANGED vars
  PROVE  Inv'
<1> USE DEF Inv
<1>1. /\ ops' \subseteq ops /\ live' \subseteq Rows /\ gone' \subseteq gone /\ gone' \cap live' = {}
      /\ UNCHANGED <<kind, query, loads, shown, error, box, mixed>>
  BY DEF Refused, OtherUser, vars, Types, Removals
<1>2. Types'
  BY <1>1 DEF Types
<1>3. Removals'
  BY <1>1 DEF Removals, Busy
<1>4. Answering => Answering'
  BY <1>1 DEF Answering, Awaited, Busy
<1>5. Removing => Removing'
  BY <1>1 DEF Removing, Clean, Awaited, Busy
<1> QED BY <1>1, <1>2, <1>3, <1>4, <1>5 DEF Orderly, Robust

LEMMA NextInv ==
  ASSUME Inv, [Next]_vars
  PROVE  Inv'
BY QueryInv, ResetInv, KeywordInv, FoundInv, ServeInv, EndInv, ActInv, ApplyInv, DoneInv, OtherInv DEF Next

-----------------------------------------------------------------------------
\* However many rows, pages and requests there are: when nothing is under way
\* the rows on the screen answer the query on the screen, unless requests
\* overlapped on a page that does not drop late answers.
THEOREM ListAnswersQuery == Spec => []RowsAnswerQuery
<1>1. Init => Inv
  BY InitInv
<1>2. Inv /\ [Next]_vars => Inv'
  BY NextInv
<1>3. Inv => RowsAnswerQuery
  BY DEF Inv, Answering, RowsAnswerQuery, AtRest, Awaited
<1> QED BY <1>1, <1>2, <1>3, PTL DEF Spec

\* A row that a page removed, and nobody restored, is not on its screen once
\* everything is answered, unless its removed rows were asked for: whatever other
\* operations, reloads and users were at work.
THEOREM RemovedStaysAway == Spec => []RemovedIsGone
<1>1. Init => Inv
  BY InitInv
<1>2. Inv /\ [Next]_vars => Inv'
  BY NextInv
<1>3. Inv => RemovedIsGone
  BY DEF Inv, Removals, Removing, Clean, RemovedIsGone, Orderly, Robust, AtRest, Awaited
<1> QED BY <1>1, <1>2, <1>3, PTL DEF Spec
=============================================================================
