-------------------------- MODULE PosDraftsProofs ---------------------------
(***************************************************************************)
(* What PosDrafts promises of the draft on the screen, for any pages,      *)
(* businesses, and numbers of drafts, operations and failures.             *)
(***************************************************************************)
EXTENDS PosDrafts, TLAPS

Draft == [business: Businesses, v: Nat]

Phases == {"create", "refresh", "work", "reload"}

SaleRequest == [
  n: Nat, op: SaleOp \cup {None}, phase: Phases,
  id: Nat \cup {None}, at: Nat \cup {None}, base: [id: Nat, v: Nat] \cup {None},
  business: Businesses, part: Nat, served: BOOLEAN, v: Nat, left: BOOLEAN]

\* A request names a draft, unless it creates one that is not there yet. Only
\* loads are of no operation. What is cleared item by item is read back.
Fitting(r) ==
  /\ r.op # None => r.op \in page.ops
  /\ r.op = None => r.phase = "reload"
  /\ IF r.phase = "create" /\ ~ r.served THEN r.id = None ELSE r.id \in Known
  /\ r.at \in Known \cup {None}
  /\ r.op # None => (r.op.starts = "work" => r.at # None)
  /\ r.part > 0 /\ (r.part > 1 => r.op # None /\ r.op.times # "once")

Types ==
  /\ page \in Pages /\ business \in Businesses
  /\ server \in Seq(Draft) /\ Len(server) <= MaxDrafts
  /\ draft \in [id: Known, v: Nat] \cup {None}
  /\ order \in Known \cup {None}
  /\ busy \subseteq Flags
  /\ reqs \subseteq SaleRequest /\ \A r \in reqs : Fitting(r)
  /\ acked \in [Numbers -> Nat] /\ charged \in [Numbers -> Nat] /\ unread \subseteq Numbers
  /\ {twice, crossed, reordered, partly} \subseteq BOOLEAN
  /\ failed \in Nat /\ acts \in Nat

\* No answer and nothing acknowledged is ahead of the server.
Behind ==
  /\ \A r \in reqs : r.served => r.v <= server[r.id].v
  /\ \A d \in Numbers : acked[d] > 0 => d \in Known /\ acked[d] <= server[d].v
  /\ \A d \in Numbers : charged[d] > 0 => d \in Known /\ charged[d] <= server[d].v

\* One list of charges is under way at a time: their buttons wait for their flag.
Charging(r) == r.op # None /\ r.op.replaces

OneList ==
  /\ \A r \in reqs : Charging(r) => "charge" \in busy
  /\ \A p, r \in reqs : Charging(p) /\ Charging(r) => p = r

-----------------------------------------------------------------------------
(* As long as nothing has failed and no answer came out of turn.           *)

Undisturbed == failed = 0 /\ ~ twice /\ ~ crossed /\ ~ reordered /\ ~ partly

\* The draft on the screen, and every draft a request names, is of the business
\* it was asked under.
OwnBusiness ==
  /\ order # None => server[order].business = business
  /\ \A r \in reqs :
       /\ ~ r.left => r.business = business
       /\ r.id # None => server[r.id].business = r.business
       /\ r.at # None => server[r.at].business = r.business

\* The load with which a page is opened on a draft.
Opening(r) == r.op = None /\ ~ r.left

\* There is one draft: the one the page works on is the one shown, or about to be
\* shown by the load that opened the page; what is not left behind works on it
\* or creates it; nothing else has been acknowledged. Lists of charges are its own.
OneDraft ==
  /\ draft # None => draft.id = order
  /\ order # None /\ draft = None => \E r \in reqs : Opening(r)
  /\ \A d \in Numbers : acked[d] > 0 => order = d
  /\ \A d \in Numbers : charged[d] > 0 => order = d
  /\ \A r \in reqs :
       /\ Opening(r) => r.id = 1 /\ order \in {1, None}
       /\ r.op # None /\ ~ r.left => /\ r.phase # "create" => r.id = order
                                     /\ r.at # None => r.at = order
                                     /\ r.base # None => r.base.id = order

\* The load r will show all that was acknowledged of draft d. So will the one at
\* the end of several requests.
Brings(r, d) ==
  /\ r.id = d
  /\ \/ r.phase \in {"refresh", "reload"} /\ (r.served => r.v >= acked[d])
     \/ r.phase = "work" /\ r.part > 1 /\ ~ r.left

Shown(d) == draft # None /\ draft.id = d /\ draft.v >= acked[d]

\* What was acknowledged is shown, or a load that brings it is under way.
Followed ==
  \A d \in Numbers \ unread : acked[d] > 0 => Shown(d) \/ \E r \in reqs : Brings(r, d)

\* The list of charges that was last accepted is in the draft x of d.
Has(x, d) == x # None /\ x.id = d /\ x.v >= charged[d]

Reads(r, d) == Charging(r) /\ r.phase = "reload" /\ r.id = d /\ (r.served => r.v >= charged[d])

\* The list that was accepted is shown, or the operation that sent it reads it
\* back; and the list under way was made from it.
Charges ==
  \A d \in Numbers : charged[d] > 0 =>
    /\ Has(draft, d) \/ \E r \in reqs : Reads(r, d)
    /\ \A r \in reqs : Charging(r) /\ r.phase # "reload" => Has(r.base, d)

DraftInv == OwnBusiness /\ OneDraft /\ Followed /\ Charges

Inv == Types /\ Behind /\ OneList /\ (Undisturbed => DraftInv)

-----------------------------------------------------------------------------
(* Requests and drafts                                                     *)

LEMMA KnownDrafts ==
  ASSUME Types
  PROVE  /\ Known = 1 .. Len(server) /\ Known \subseteq Numbers /\ None \notin Known
         /\ \A d \in Known : server[d] \in Draft
  <1>1. Len(server) \in Nat /\ Known = 1 .. Len(server) /\ \A d \in 1 .. Len(server) : server[d] \in Draft
    BY DEF Types, Known
  <1>2. None \notin Nat
    BY NoneAssumption
  <1>3. QED
    BY <1>1, <1>2, BoundsAssumption DEF Types, Numbers

LEMMA NoneIsNoDraft == \A n, v \in Nat : [id |-> n, v |-> v] # None
  BY NoneAssumption

LEMMA PageOps ==
  ASSUME Types
  PROVE  /\ page.ops \subseteq SaleOp /\ None \notin page.ops
         /\ page.reads \in {"order", "known"}
         /\ \A op \in page.ops : op.flag \in Flags
  <1>1. page \in PosPage
    BY PagesAssumption DEF Types
  <1>2. page.ops \subseteq SaleOp /\ page.reads \in {"order", "known"}
    BY <1>1 DEF PosPage
  <1>3. None \notin SaleOp
    BY NoneAssumption
  <1>4. \A op \in SaleOp : op.flag \in Flags
    BY DEF SaleOp
  <1>5. QED
    BY <1>2, <1>3, <1>4

LEMMA ListOps ==
  ASSUME Types, NEW op \in page.ops
  PROVE  /\ op.replaces <=> op.flag = "charge"
         /\ op.replaces => /\ "charge" \in op.waits /\ op.starts # "new"
                           /\ op.times = "once" /\ ~ op.leaves
                           /\ op.answers \/ page.reads = "order"
         /\ op.times # "once" => op.starts = "work" /\ ~ op.answers /\ ~ op.leaves
  BY ChargesAssumption, ItemsAssumption DEF Types

LEMMA RequestFields ==
  ASSUME Types, NEW n \in Nat, NEW op \in SaleOp \cup {None},
         NEW phase \in Phases, NEW id \in Nat \cup {None}
  PROVE  LET q == Request(n, op, phase, id)
         IN  /\ q \in SaleRequest
             /\ q.op = op /\ q.phase = phase /\ q.id = id /\ q.at = order
             /\ q.business = business /\ ~ q.served /\ ~ q.left /\ q.base = None /\ q.part = 1
  <1>1. order \in Nat \cup {None}
    BY KnownDrafts DEF Types
  <1>2. QED
    BY <1>1 DEF Request, SaleRequest, Types

LEMMA ThenFields ==
  ASSUME NEW r \in SaleRequest,
         NEW phase \in Phases, NEW id \in Nat \cup {None}
  PROVE  LET q == Then(r, phase, id)
         IN  /\ q \in SaleRequest
             /\ q.op = r.op /\ q.phase = phase /\ q.id = id /\ q.at = r.at
             /\ q.business = r.business /\ ~ q.served /\ q.left = r.left
             /\ q.base = r.base /\ q.part = r.part
  BY DEF Then, SaleRequest

LEMMA LeaveFields ==
  ASSUME NEW S, S \subseteq SaleRequest, NEW q \in Leave(S)
  PROVE  /\ q \in SaleRequest /\ q.left
         /\ \E r \in S : /\ q.op = r.op /\ q.phase = r.phase /\ q.id = r.id /\ q.at = r.at
                         /\ q.business = r.business /\ q.served = r.served /\ q.v = r.v
                         /\ q.part = r.part /\ q = [r EXCEPT !.left = TRUE]
  <1>1. PICK r \in S : q = [r EXCEPT !.left = TRUE]
    BY DEF Leave
  <1>2. r \in SaleRequest
    OBVIOUS
  <1>3. QED
    BY <1>1, <1>2 DEF SaleRequest

\* What fits goes on fitting while drafts are only added.
LEMMA StillFits ==
  ASSUME Types, page' = page, Known \subseteq Known', NEW r \in reqs
  PROVE  Fitting(r)'
  BY DEF Types, Fitting

\* A request that fits, after it was left.
LEMMA LeftFits ==
  ASSUME Types, NEW q \in Leave(reqs)
  PROVE  q \in SaleRequest /\ Fitting(q)
  <1>1. q \in SaleRequest
    BY LeaveFields DEF Types
  <1>2. PICK r \in reqs : /\ q.op = r.op /\ q.phase = r.phase /\ q.id = r.id /\ q.at = r.at
                          /\ q.served = r.served /\ q.part = r.part
    BY LeaveFields DEF Types
  <1>3. QED
    BY <1>1, <1>2 DEF Types, Fitting

\* Requests that are left stay what they are.
LEMMA LeaveList ==
  ASSUME Types, OneList, NEW S, S \subseteq reqs
  PROVE  /\ \A q \in Leave(S) : Charging(q) => "charge" \in busy
         /\ \A p, q \in Leave(S) : Charging(p) /\ Charging(q) => p = q
  <1>1. S \subseteq SaleRequest
    BY DEF Types
  <1>2. ASSUME NEW p \in Leave(S), NEW q \in Leave(S), Charging(p), Charging(q)
        PROVE  "charge" \in busy /\ p = q
    <2>1. PICK a \in S : p.op = a.op /\ p = [a EXCEPT !.left = TRUE]
      BY <1>1, LeaveFields
    <2>2. PICK c \in S : q.op = c.op /\ q = [c EXCEPT !.left = TRUE]
      BY <1>1, LeaveFields
    <2>3. Charging(a) /\ Charging(c)
      BY <1>2, <2>1, <2>2 DEF Charging
    <2>4. a = c /\ "charge" \in busy
      BY <2>3 DEF OneList
    <2>5. QED
      BY <2>1, <2>2, <2>4
  <1>3. QED
    BY <1>2

LEMMA EndsFlags ==
  ASSUME Types, NEW r
  PROVE  Ends(r) \subseteq Flags
  BY DEF Types, Ends

\* The end of a request puts out its own flag.
LEMMA EndedList ==
  ASSUME Types, OneList, NEW r \in reqs, reqs' \subseteq reqs \ {r}, busy' \in {busy, Ends(r)}
  PROVE  OneList'
  <1>1. ASSUME NEW p \in reqs', Charging(p) PROVE "charge" \in busy'
    <2>1. p \in reqs /\ p # r /\ "charge" \in busy /\ ~ Charging(r)
      BY <1>1 DEF OneList
    <2>2. r.op # None => r.op \in page.ops /\ ~ r.op.replaces
      BY <2>1 DEF Types, Fitting, Charging
    <2>3. r.op # None => r.op.flag # "charge"
      BY <2>2, ListOps
    <2>4. QED
      BY <2>1, <2>3 DEF Ends
  <1>2. \A p, q \in reqs' : Charging(p) /\ Charging(q) => p = q
    BY DEF OneList
  <1>3. QED
    BY <1>1, <1>2 DEF OneList, Charging

\* So does its going on with the next one keep it up; loads of no operation do not
\* matter.
LEMMA MovedList ==
  ASSUME OneList, NEW r \in reqs, NEW q, q.op = r.op, busy' = busy,
         \A p \in reqs' : p \in reqs \ {r} \/ p = q \/ p.op = None
  PROVE  OneList'
  <1>1. ASSUME NEW p \in reqs', Charging(p) PROVE "charge" \in busy'
    BY <1>1 DEF OneList, Charging
  <1>2. ASSUME NEW p \in reqs', NEW o \in reqs', Charging(p), Charging(o) PROVE p = o
    <2>1. /\ p \in reqs \ {r} \/ p = q
          /\ o \in reqs \ {r} \/ o = q
          /\ Charging(q) <=> Charging(r)
      BY <1>2 DEF Charging
    <2>2. QED
      BY <1>2, <2>1 DEF OneList
  <1>3. QED
    BY <1>1, <1>2 DEF OneList, Charging

-----------------------------------------------------------------------------
(* The initial states                                                      *)

LEMMA InitInv == Init => Inv
  <1> SUFFICES ASSUME Init PROVE Inv
    OBVIOUS
  <1>1. CASE server = <<>> /\ order = None /\ reqs = {}
    <2>1. Types
      <3>1. server \in Seq(Draft) /\ Len(server) = 0
        BY <1>1
      <3>2. acked \in [Numbers -> Nat] /\ charged \in [Numbers -> Nat]
        BY DEF Init, Nothing
      <3>3. page \in Pages /\ business \in Businesses /\ draft = None /\ order = None /\ unread = {}
        BY <1>1 DEF Init
      <3>4. 0 <= MaxDrafts
        BY BoundsAssumption
      <3>5. QED
        BY <1>1, <3>1, <3>2, <3>3, <3>4 DEF Init, Types
    <2>2. Behind /\ OneList /\ DraftInv
      BY <1>1 DEF Init, Nothing, Behind, OneList, DraftInv, OwnBusiness, OneDraft, Followed, Charges
    <2>3. QED
      BY <2>1, <2>2 DEF Inv
  <1>2. CASE /\ server = <<[business |-> business, v |-> 0]>>
             /\ order = IF page.reads = "known" THEN 1 ELSE None
             /\ reqs = {Request(0, None, "reload", 1)}
    <2> DEFINE q == Request(0, None, "reload", 1)
    <2>1. /\ server \in Seq(Draft) /\ Len(server) = 1 /\ Known = {1} /\ server[1].business = business
          /\ server[1].v = 0
      BY <1>2 DEF Init, Draft, Known
    <2>2. /\ q.op = None /\ q.phase = "reload" /\ q.id = 1 /\ q.at = order /\ q.part = 1
          /\ q.business = business /\ ~ q.served /\ ~ q.left /\ q \in SaleRequest
      BY <1>2 DEF Init, Request, SaleRequest, Phases
    <2>3. Types
      <3>1. Fitting(q)
        BY <1>2, <2>1, <2>2 DEF Fitting
      <3>2. acked \in [Numbers -> Nat] /\ charged \in [Numbers -> Nat]
        BY DEF Init, Nothing
      <3>3. page \in Pages /\ business \in Businesses /\ draft = None /\ order \in Known \cup {None}
        BY <1>2, <2>1 DEF Init
      <3>4. 1 <= MaxDrafts
        BY BoundsAssumption
      <3>5. QED
        BY <1>2, <2>1, <2>2, <3>1, <3>2, <3>3, <3>4 DEF Init, Types
    <2>4. Behind /\ OneList
      BY <1>2, <2>2 DEF Init, Nothing, Behind, OneList, Charging
    <2>5. OwnBusiness
      BY <1>2, <2>1, <2>2 DEF OwnBusiness
    <2>6. OneDraft
      BY <1>2, <2>2 DEF Init, Nothing, OneDraft, Opening
    <2>7. Followed /\ Charges
      BY DEF Init, Nothing, Followed, Charges
    <2>8. QED
      BY <2>3, <2>4, <2>5, <2>6, <2>7 DEF Inv, DraftInv
  <1>3. QED
    BY <1>1, <1>2 DEF Init

-----------------------------------------------------------------------------
(* The user                                                                *)

LEMMA FirstRequest ==
  ASSUME Types, NEW op \in page.ops, op.starts = "work" => order # None,
         NEW first \in Firsts(op)
  PROVE  /\ first.phase \in {"create", "refresh", "work", "reload"}
         /\ first.phase = "reload" => op.times = "any"
         /\ IF first.phase = "create" THEN first.id = None
            ELSE first.id \in Known /\ (first.id = order \/ (draft # None /\ first.id = draft.id))
  <1>1. op.starts \in {"new", "ensure", "work"}
    BY PageOps DEF SaleOp
  <1>2. order \in Known \cup {None}
    BY DEF Types
  <1>3. CASE op.starts = "new"
    BY <1>3 DEF Firsts
  <1>4. CASE op.starts = "work"
    BY <1>2, <1>4 DEF Firsts
  <1>5. CASE op.starts = "ensure"
    <2>1. first = Ensures
      BY <1>5 DEF Firsts
    <2>2. draft # None => draft.id \in Known
      BY DEF Types
    <2>3. QED
      BY <1>2, <2>1, <2>2 DEF Ensures
  <1>6. QED
    BY <1>1, <1>3, <1>4, <1>5

LEMMA PressInv ==
  ASSUME Inv, NEW op \in page.ops, Press(op)
  PROVE  Inv'
  <1> USE DEF Inv
  <1> DEFINE list == IF op.replaces THEN draft ELSE None
  <1>1. PICK first \in Firsts(op) :
          reqs' = reqs \cup {[Request(acts + 1, op, first.phase, first.id) EXCEPT !.base = list]}
    BY DEF Press, Acts
  <1>2. /\ acts' = acts + 1 /\ busy' = busy \cup {op.flag} /\ op.waits \cap busy = {}
        /\ UNCHANGED <<page, server, business, draft, order, acked, charged, unread,
                       twice, crossed, reordered, partly, failed>>
        /\ op.starts = "work" => order # None
    BY DEF Press, Acts
  <1>3. /\ first.phase \in {"create", "refresh", "work", "reload"}
        /\ first.phase = "reload" => op.times = "any"
        /\ IF first.phase = "create" THEN first.id = None
           ELSE first.id \in Known /\ (first.id = order \/ (draft # None /\ first.id = draft.id))
    BY <1>2, FirstRequest
  <1>4. /\ op \in SaleOp /\ op # None /\ op.flag \in Flags
        /\ op.replaces <=> op.flag = "charge"
        /\ op.replaces => "charge" \in op.waits /\ op.times = "once"
    BY PageOps, ListOps
  <1>5. Known = 1 .. Len(server) /\ None \notin Known
    BY KnownDrafts
  <1> DEFINE n == acts + 1
             phase == first.phase
             id == first.id
             q == [Request(n, op, phase, id) EXCEPT !.base = list]
  <1>6. reqs' = reqs \cup {q}
    BY <1>1
  <1>7. n \in Nat /\ id \in Nat \cup {None} /\ phase \in Phases /\ list \in {draft, None}
    BY <1>3, <1>5 DEF Types, Phases
  <1>8. op.replaces => list = draft
    OBVIOUS
  <1> HIDE DEF n, phase, id, list
  <1>9. /\ q \in SaleRequest
        /\ q.op = op /\ q.phase = phase /\ q.id = id /\ q.at = order /\ q.part = 1 /\ q.base = list
        /\ q.business = business /\ ~ q.served /\ ~ q.left
    <2> DEFINE p == Request(n, op, phase, id)
    <2>1. /\ p \in SaleRequest
          /\ p.op = op /\ p.phase = phase /\ p.id = id /\ p.at = order
          /\ p.business = business /\ ~ p.served /\ ~ p.left /\ p.part = 1
      BY <1>4, <1>7, RequestFields
    <2>2. list \in [id: Nat, v: Nat] \cup {None}
      BY <1>7, KnownDrafts DEF Types
    <2> HIDE DEF p
    <2>3. q = [p EXCEPT !.base = list]
      BY DEF p
    <2> HIDE DEF q
    <2>4. QED
      BY <2>1, <2>2, <2>3 DEF SaleRequest
  <1> HIDE DEF q
  <1>10. Types'
    <2>1. Fitting(q)
      BY <1>2, <1>3, <1>4, <1>9 DEF Fitting, Types, phase, id
    <2>2. \A r \in reqs' : Fitting(r)'
      BY <1>2, <1>6, <2>1 DEF Fitting, Types, Known
    <2>3. reqs' \subseteq SaleRequest /\ busy' \subseteq Flags /\ acts' \in Nat
      BY <1>2, <1>4, <1>6, <1>9 DEF Types
    <2>4. QED
      BY <1>2, <2>2, <2>3 DEF Types, Known
  <1>11. Behind'
    BY <1>2, <1>6, <1>9 DEF Behind, Known
  \* The button of a list of charges waits for the one under way.
  <1>12. op.replaces => \A r \in reqs : ~ Charging(r)
    BY <1>2, <1>4 DEF OneList
  <1>13. OneList'
    BY <1>2, <1>4, <1>6, <1>9, <1>12 DEF OneList, Charging
  <1>14. ASSUME Undisturbed' PROVE DraftInv'
    <2>1. DraftInv
      BY <1>2, <1>14 DEF Undisturbed
    <2>2. q.phase # "create" => q.id = order /\ order # None
      BY <1>3, <1>5, <1>9, <2>1 DEF DraftInv, OneDraft, phase, id
    <2>3. q.id # None => server[q.id].business = business
      BY <1>3, <1>9, <2>1, <2>2 DEF DraftInv, OwnBusiness, phase, id
    <2>4. OwnBusiness'
      BY <1>2, <1>6, <1>9, <2>1, <2>3 DEF DraftInv, OwnBusiness
    <2>5. q.base # None => q.base.id = order
      BY <1>7, <1>9, <2>1 DEF DraftInv, OneDraft
    <2>6. OneDraft'
      BY <1>2, <1>4, <1>6, <1>9, <2>1, <2>2, <2>5 DEF DraftInv, OneDraft, Opening
    <2>7. Followed'
      BY <1>2, <1>6, <2>1 DEF DraftInv, Followed, Shown, Brings
    <2>8. Charges'
      <3> SUFFICES ASSUME NEW d \in Numbers, charged[d] > 0
                   PROVE  /\ Has(draft, d) \/ \E r \in reqs' : Reads(r, d)
                          /\ \A r \in reqs' : Charging(r) /\ r.phase # "reload" => Has(r.base, d)
        BY <1>2 DEF Charges, Has, Reads, Charging
      <3>1. /\ Has(draft, d) \/ \E r \in reqs : Reads(r, d)
            /\ \A r \in reqs : Charging(r) /\ r.phase # "reload" => Has(r.base, d)
        BY <2>1 DEF DraftInv, Charges
      <3>2. Charging(q) => Has(q.base, d)
        BY <1>8, <1>9, <1>12, <3>1 DEF Charging, Reads
      <3>3. QED
        BY <1>6, <3>1, <3>2
    <2>9. QED
      BY <2>4, <2>6, <2>7, <2>8 DEF DraftInv
  <1>15. QED
    BY <1>10, <1>11, <1>13, <1>14

LEMMA ChangeBusinessInv ==
  ASSUME Inv, NEW b \in Businesses, ChangeBusiness(b)
  PROVE  Inv'
  <1> USE DEF Inv
  <1>1. /\ business' = b /\ draft' = None /\ order' = None /\ reqs' = Leave(reqs)
        /\ acked' = Nothing /\ charged' = Nothing
        /\ UNCHANGED <<page, server, busy, unread, twice, crossed, reordered, partly, failed>>
        /\ acts' = acts + 1
    BY DEF ChangeBusiness, Acts
  <1>2. /\ acked' \in [Numbers -> Nat] /\ \A d \in Numbers : acked'[d] = 0
        /\ charged' \in [Numbers -> Nat] /\ \A d \in Numbers : charged'[d] = 0
    BY <1>1 DEF Nothing
  <1>3. reqs \subseteq SaleRequest
    BY DEF Types
  <1>4. \A q \in reqs' :
          /\ q.left
          /\ \E r \in reqs : /\ q.id = r.id /\ q.at = r.at /\ q.business = r.business
                             /\ q.served = r.served /\ q.v = r.v /\ q.op = r.op
                             /\ q = [r EXCEPT !.left = TRUE]
    BY <1>1, <1>3, LeaveFields
  <1>5. Types'
    <2>1. \A q \in reqs' : q \in SaleRequest /\ Fitting(q)
      BY <1>1, LeftFits
    <2>2. \A q \in reqs' : Fitting(q)'
      BY <1>1, <2>1 DEF Fitting, Known
    <2>3. QED
      BY <1>1, <1>2, <2>1, <2>2 DEF Types, Known
  <1>6. Behind'
    BY <1>1, <1>2, <1>4 DEF Behind
  <1>7. OneList'
    <2>1. /\ \A q \in reqs' : Charging(q) => "charge" \in busy
          /\ \A p, q \in reqs' : Charging(p) /\ Charging(q) => p = q
      BY <1>1, LeaveList
    <2>2. QED
      BY <1>1, <2>1 DEF OneList, Charging
  <1>8. ASSUME Undisturbed' PROVE DraftInv'
    <2>1. OwnBusiness
      BY <1>1, <1>8 DEF Undisturbed, DraftInv
    <2>2. OwnBusiness'
      BY <1>1, <1>4, <2>1 DEF OwnBusiness
    <2>3. OneDraft'
      BY <1>1, <1>2, <1>4 DEF OneDraft, Opening
    <2>4. Followed' /\ Charges'
      BY <1>2 DEF Followed, Charges
    <2>5. QED
      BY <2>2, <2>3, <2>4 DEF DraftInv
  <1>9. QED
    BY <1>5, <1>6, <1>7, <1>8

-----------------------------------------------------------------------------
(* The server                                                              *)

\* A draft is added, or one changes once more, or none.
LEMMA ServerMoves ==
  ASSUME Types, NEW r \in reqs, Serve(r)
  PROVE  /\ server' \in Seq(Draft) /\ Len(server') <= MaxDrafts
         /\ Known \subseteq Known'
         /\ \A d \in Known : server'[d].business = server[d].business /\ server'[d].v >= server[d].v
         /\ r.phase = "create" => /\ Len(server') \in Known'
                                  /\ server'[Len(server')].business = r.business
  <1>1. /\ server' = CASE r.phase = "create" -> Append(server, [business |-> r.business, v |-> 0])
                       [] r.phase = "work" -> [server EXCEPT ![r.id].v = @ + 1]
                       [] OTHER -> server
        /\ Len(server') <= MaxDrafts
    BY DEF Serve
  <1>2. /\ Known = 1 .. Len(server) /\ \A d \in Known : server[d] \in Draft
        /\ server \in Seq(Draft) /\ Len(server) \in Nat
    BY KnownDrafts DEF Types
  <1>3. r \in SaleRequest /\ (r.phase # "create" => r.id \in Known)
    BY DEF Types, Fitting
  <1>4. CASE r.phase = "create"
    <2>1. [business |-> r.business, v |-> 0] \in Draft
      BY <1>3 DEF SaleRequest, Draft
    <2>2. server' = Append(server, [business |-> r.business, v |-> 0])
      BY <1>1, <1>4
    <2>3. /\ server' \in Seq(Draft) /\ Len(server') = Len(server) + 1
          /\ \A d \in 1 .. Len(server) : server'[d] = server[d]
          /\ server'[Len(server) + 1] = [business |-> r.business, v |-> 0]
      BY <1>2, <2>1, <2>2
    <2>4. Known' = 1 .. (Len(server) + 1)
      BY <2>3 DEF Known
    <2>5. \A d \in Known : server[d].v \in Nat
      BY <1>2 DEF Draft
    <2>6. QED
      BY <1>1, <1>2, <1>4, <2>3, <2>4, <2>5
  <1>5. CASE r.phase = "work"
    <2>1. server' = [server EXCEPT ![r.id] = [business |-> server[r.id].business, v |-> server[r.id].v + 1]]
      <3>1. server[r.id] \in Draft
        BY <1>2, <1>3, <1>5
      <3>2. [server[r.id] EXCEPT !.v = @ + 1] = [business |-> server[r.id].business, v |-> server[r.id].v + 1]
        BY <3>1 DEF Draft
      <3>3. server' = [server EXCEPT ![r.id] = [server[r.id] EXCEPT !.v = @ + 1]]
        BY <1>1, <1>5
      <3>4. QED
        BY <3>2, <3>3
    <2>2. [business |-> server[r.id].business, v |-> server[r.id].v + 1] \in Draft
      BY <1>2, <1>3, <1>5 DEF Draft
    <2>3. /\ server' \in Seq(Draft) /\ Known' = Known /\ Len(server') = Len(server)
          /\ \A d \in Known : d # r.id => server'[d] = server[d]
          /\ server'[r.id] = [business |-> server[r.id].business, v |-> server[r.id].v + 1]
      BY <1>2, <1>3, <1>5, <2>1, <2>2 DEF Known
    <2>4. \A d \in Known : server[d].v \in Nat
      BY <1>2 DEF Draft
    <2>5. QED
      BY <1>1, <1>5, <2>3, <2>4
  <1>6. CASE r.phase \in {"refresh", "reload"}
    <2>1. server' = server
      BY <1>1, <1>6
    <2>2. \A d \in Known : server[d].v \in Nat
      BY <1>2 DEF Draft
    <2>3. Known' = Known
      BY <2>1 DEF Known
    <2>4. \A d \in Known : server'[d].business = server[d].business /\ server'[d].v >= server[d].v
      BY <2>1, <2>2
    <2>5. QED
      BY <1>1, <1>2, <1>6, <2>1, <2>3, <2>4
  <1>7. QED
    BY <1>3, <1>4, <1>5, <1>6 DEF SaleRequest, Phases

LEMMA ServeInv ==
  ASSUME Inv, NEW r \in reqs, Serve(r)
  PROVE  Inv'
  <1> USE DEF Inv
  <1> DEFINE id == IF r.phase = "create" THEN Len(server') ELSE r.id
  <1>1. /\ reqs' = (reqs \ {r}) \cup {[r EXCEPT !.served = TRUE, !.id = id, !.v = server'[id].v]}
        /\ ~ r.served
        /\ r.phase # "create" => server[r.id].business = r.business
        /\ UNCHANGED <<page, business, draft, order, busy, acked, charged, unread,
                       twice, crossed, reordered, partly, failed, acts>>
    BY DEF Serve
  <1>2. /\ server' \in Seq(Draft) /\ Len(server') <= MaxDrafts
        /\ Known \subseteq Known'
        /\ \A d \in Known : server'[d].business = server[d].business /\ server'[d].v >= server[d].v
        /\ r.phase = "create" => /\ Len(server') \in Known'
                                 /\ server'[Len(server')].business = r.business
    BY ServerMoves
  <1>3. /\ Known' = 1 .. Len(server') /\ Len(server') \in Nat
        /\ \A d \in Known' : server'[d].v \in Nat
    <2>1. Known' = 1 .. Len(server') /\ Len(server') \in Nat /\ \A d \in Known' : server'[d] \in Draft
      BY <1>2 DEF Known
    <2>2. QED
      BY <2>1 DEF Draft
  <1>4. /\ Known \subseteq Numbers /\ Known \subseteq Nat /\ None \notin Known
        /\ \A d \in Known : server[d].v \in Nat
    <2>1. \A d \in Known : server[d] \in Draft
      BY KnownDrafts
    <2>2. QED
      BY <2>1, KnownDrafts DEF Draft
  <1>5. r \in SaleRequest /\ Fitting(r)
    BY DEF Types
  <1>6. id \in Known' /\ (r.phase # "create" => id = r.id /\ id \in Known)
    BY <1>1, <1>2, <1>5 DEF Fitting
  <1>7. server'[id].business = r.business
    BY <1>1, <1>2, <1>6
  <1> HIDE DEF id
  <1>8. PICK q : q = [r EXCEPT !.served = TRUE, !.id = id, !.v = server'[id].v]
    OBVIOUS
  <1>9. /\ q \in SaleRequest
        /\ q.op = r.op /\ q.phase = r.phase /\ q.id = id /\ q.at = r.at /\ q.business = r.business
        /\ q.served /\ q.v = server'[id].v /\ q.left = r.left /\ q.base = r.base /\ q.part = r.part
    <2>1. id \in Nat /\ server'[id].v \in Nat
      BY <1>3, <1>6
    <2>2. QED
      BY <1>5, <1>8, <2>1 DEF SaleRequest
  <1>10. reqs' = (reqs \ {r}) \cup {q}
    BY <1>1, <1>8
  <1>11. Types'
    <2>1. Fitting(q)'
      BY <1>1, <1>2, <1>5, <1>6, <1>9 DEF Fitting
    <2>2. \A p \in reqs : Fitting(p)'
      BY <1>1, <1>2, StillFits
    <2>3. draft' \in [id: Known', v: Nat] \cup {None} /\ order' \in Known' \cup {None}
      BY <1>1, <1>2 DEF Types
    <2>4. reqs' \subseteq SaleRequest /\ \A p \in reqs' : Fitting(p)'
      BY <1>1, <1>10, <1>9, <2>1, <2>2 DEF Types
    <2>5. QED
      BY <1>1, <1>2, <2>3, <2>4 DEF Types
  <1>12. Behind'
    <2>1. \A p \in reqs : p.served => p.v <= server'[p.id].v
      <3>1. \A p \in reqs : p.served => p.id \in Known /\ p.v \in Nat
        BY DEF Types, Fitting, SaleRequest
      <3>2. \A d \in Known : server'[d].v \in Nat
        BY <1>2, <1>3
      <3>3. \A d \in Known : server[d].v \in Nat /\ server'[d].v >= server[d].v
        BY <1>2, <1>4
      <3>4. ASSUME NEW p \in reqs, p.served PROVE p.v <= server'[p.id].v
        <4>1. p.v <= server[p.id].v
          BY <3>4 DEF Behind
        <4>2. QED
          BY <3>1, <3>2, <3>3, <3>4, <4>1
      <3>5. QED
        BY <3>4
    <2>2. q.v <= server'[q.id].v
      BY <1>3, <1>6, <1>9
    <2>3. \A d \in Numbers : acked'[d] > 0 => d \in Known' /\ acked'[d] <= server'[d].v
      <3>1. \A d \in Numbers : acked[d] \in Nat
        BY DEF Types
      <3>2. \A d \in Known : server'[d].v \in Nat
        BY <1>2, <1>3
      <3>3. QED
        BY <1>1, <1>2, <1>4, <3>1, <3>2 DEF Behind
    <2>4. \A d \in Numbers : charged'[d] > 0 => d \in Known' /\ charged'[d] <= server'[d].v
      <3>1. \A d \in Numbers : charged[d] \in Nat
        BY DEF Types
      <3>2. \A d \in Known : server'[d].v \in Nat
        BY <1>2, <1>3
      <3>3. QED
        BY <1>1, <1>2, <1>4, <3>1, <3>2 DEF Behind
    <2>5. QED
      BY <1>1, <1>10, <2>1, <2>2, <2>3, <2>4 DEF Behind
  <1>13. OneList'
    BY <1>1, <1>9, <1>10 DEF OneList, Charging
  <1>14. ASSUME Undisturbed' PROVE DraftInv'
    <2>1. DraftInv
      BY <1>1, <1>14 DEF Undisturbed
    <2>2. \A p \in reqs : /\ p.id # None => p.id \in Known
                          /\ p.at # None => p.at \in Known
      BY DEF Types, Fitting
    <2>3. order # None => order \in Known
      BY DEF Types
    <2>4. OwnBusiness'
      BY <1>1, <1>10, <1>2, <1>7, <1>9, <2>1, <2>2, <2>3 DEF DraftInv, OwnBusiness
    <2>5. OneDraft'
      <3>1. Opening(r) <=> Opening(q)
        BY <1>9 DEF Opening
      <3>2. r.op = None => r.phase = "reload"
        BY <1>5 DEF Fitting
      <3>3. order' # None /\ draft' = None => \E p \in reqs' : Opening(p)
        BY <1>1, <1>10, <2>1, <3>1 DEF DraftInv, OneDraft
      <3>4. /\ Opening(q) => q.id = 1 /\ order' \in {1, None}
            /\ q.op # None /\ ~ q.left => /\ q.phase # "create" => q.id = order'
                                          /\ q.at # None => q.at = order'
                                          /\ q.base # None => q.base.id = order'
        BY <1>1, <1>6, <1>9, <2>1, <3>1, <3>2 DEF DraftInv, OneDraft, Opening
      <3>5. QED
        BY <1>1, <1>10, <2>1, <3>3, <3>4 DEF DraftInv, OneDraft, Opening
    <2>6. Followed'
      <3> SUFFICES ASSUME NEW d \in Numbers \ unread, acked[d] > 0, ~ Shown(d)
                   PROVE  \E p \in reqs' : Brings(p, d)'
        BY <1>1 DEF Followed, Shown
      <3>1. PICK p \in reqs : Brings(p, d)
        BY <2>1 DEF DraftInv, Followed
      <3>2. CASE p = r
        <4>1. q.id = d /\ d \in Known /\ q.phase = r.phase /\ q.part = r.part /\ q.left = r.left
          BY <1>5, <1>6, <1>9, <3>1, <3>2 DEF Brings, Fitting
        <4>2. acked[d] <= server[d].v /\ acked[d] \in Nat
          BY DEF Behind, Types
        <4>3. server[d].v \in Nat /\ server'[d].v \in Nat /\ server'[d].v >= server[d].v
          BY <1>2, <1>3, <1>4, <4>1
        <4>4. q.v >= acked[d]
          BY <1>9, <4>1, <4>2, <4>3
        <4>5. QED
          BY <1>1, <1>10, <3>1, <3>2, <4>1, <4>4 DEF Brings
      <3>3. CASE p # r
        BY <1>1, <1>10, <3>1, <3>3 DEF Brings
      <3>4. QED
        BY <3>2, <3>3
    <2>7. Charges'
      <3> SUFFICES ASSUME NEW d \in Numbers, charged[d] > 0
                   PROVE  /\ Has(draft, d) \/ \E p \in reqs' : Reads(p, d)
                          /\ \A p \in reqs' : Charging(p) /\ p.phase # "reload" => Has(p.base, d)
        BY <1>1 DEF Charges, Has, Reads, Charging
      <3>1. /\ Has(draft, d) \/ \E p \in reqs : Reads(p, d)
            /\ \A p \in reqs : Charging(p) /\ p.phase # "reload" => Has(p.base, d)
        BY <2>1 DEF DraftInv, Charges
      <3>2. Charging(q) /\ q.phase # "reload" => Has(q.base, d)
        BY <1>9, <3>1 DEF Charging
      <3>3. Reads(r, d) => Reads(q, d)
        <4> SUFFICES ASSUME Reads(r, d) PROVE q.v >= charged[d]
          BY <1>6, <1>9 DEF Reads, Charging
        <4>1. d \in Known /\ q.v = server'[d].v
          BY <1>5, <1>6, <1>9 DEF Reads, Fitting
        <4>2. charged[d] <= server[d].v /\ charged[d] \in Nat
          BY DEF Behind, Types
        <4>3. server[d].v \in Nat /\ server'[d].v \in Nat /\ server'[d].v >= server[d].v
          BY <1>2, <1>3, <1>4, <4>1
        <4>4. QED
          BY <4>1, <4>2, <4>3
      <3>4. QED
        BY <1>10, <3>1, <3>2, <3>3
    <2>8. QED
      BY <2>4, <2>5, <2>6, <2>7 DEF DraftInv
  <1>15. QED
    BY <1>11, <1>12, <1>13, <1>14

-----------------------------------------------------------------------------
(* The answers                                                             *)

LEMMA RefusedInv ==
  ASSUME Inv, NEW r \in reqs, Refused(r)
  PROVE  Inv'
  <1> USE DEF Inv
  <1>1. /\ r.phase \in {"create", "work"} /\ reqs' = reqs \ {r} /\ busy' = Ends(r)
        /\ partly' = (partly \/ r.part > 1)
        /\ UNCHANGED <<page, server, business, draft, order, acked, charged, unread,
                       twice, crossed, reordered, failed, acts>>
    BY DEF Refused
  <1>2. Types'
    <2>1. \A p \in reqs' : Fitting(p)'
      BY <1>1 DEF Types, Fitting, Known
    <2>2. busy' \subseteq Flags
      BY <1>1, EndsFlags
    <2>3. QED
      BY <1>1, <2>1, <2>2 DEF Types, Known
  <1>3. Behind'
    BY <1>1 DEF Behind, Known
  <1>4. OneList'
    BY <1>1, EndedList
  <1>5. ASSUME Undisturbed' PROVE DraftInv'
    <2>1. DraftInv /\ ~ (r.part > 1)
      BY <1>1, <1>5 DEF Undisturbed
    <2>2. ~ Opening(r)
      BY <1>1 DEF Types, Fitting, Opening
    <2>3. OwnBusiness' /\ OneDraft'
      BY <1>1, <2>1, <2>2 DEF DraftInv, OwnBusiness, OneDraft, Opening
    <2>4. \A d : ~ Brings(r, d) /\ ~ Reads(r, d)
      BY <1>1, <2>1 DEF Brings, Reads
    <2>5. Followed'
      BY <1>1, <2>1, <2>4 DEF DraftInv, Followed, Shown, Brings
    <2>6. Charges'
      BY <1>1, <2>1, <2>4 DEF DraftInv, Charges, Has, Reads, Charging
    <2>7. QED
      BY <2>3, <2>5, <2>6 DEF DraftInv
  <1>6. QED
    BY <1>2, <1>3, <1>4, <1>5

LEMMA LoadFailsInv ==
  ASSUME Inv, NEW r \in reqs, LoadFails(r)
  PROVE  Inv'
  <1> USE DEF Inv
  <1> DEFINE q == Then(r, "create", None)
  <1>1. /\ r.phase \in {"refresh", "reload"}
        /\ failed < MaxFailures \/ server[r.id].business # r.business
        /\ failed' = IF failed < MaxFailures THEN failed + 1 ELSE failed
        /\ draft' \in {draft, None} /\ order' \in {order, None}
        /\ \/ r.phase = "refresh" /\ reqs' = (reqs \ {r}) \cup {q} /\ busy' = busy
           \/ r.phase = "reload" /\ reqs' = reqs \ {r} /\ busy' = Ends(r)
        /\ UNCHANGED <<page, server, business, acked, charged, unread,
                       twice, crossed, reordered, partly, acts>>
    BY DEF LoadFails
  <1>2. r \in SaleRequest /\ Fitting(r)
    BY DEF Types
  <1>3. /\ q \in SaleRequest
        /\ q.op = r.op /\ q.phase = "create" /\ q.id = None /\ q.at = r.at
        /\ q.business = r.business /\ ~ q.served /\ q.left = r.left /\ q.part = r.part
    <2>1. "create" \in Phases /\ None \in Nat \cup {None}
      BY DEF Phases
    <2>2. QED
      BY <1>2, <2>1, ThenFields
  <1> HIDE DEF q
  <1>4. Types'
    <2>1. r.phase = "refresh" => Fitting(q)'
      BY <1>1, <1>2, <1>3 DEF Fitting, Known
    <2>2. reqs' \subseteq SaleRequest /\ \A p \in reqs' : Fitting(p)'
      BY <1>1, <1>3, <2>1 DEF Types, Fitting, Known
    <2>3. busy' \subseteq Flags /\ failed' \in Nat
      BY <1>1, EndsFlags DEF Types
    <2>4. draft' \in [id: Known, v: Nat] \cup {None} /\ order' \in Known \cup {None}
      BY <1>1 DEF Types
    <2>5. QED
      BY <1>1, <2>2, <2>3, <2>4 DEF Types, Known
  <1>5. Behind'
    BY <1>1, <1>3 DEF Behind, Known
  <1>6. OneList'
    <2>1. CASE reqs' = (reqs \ {r}) \cup {q} /\ busy' = busy
      <3>1. \A p \in reqs' : p \in reqs \ {r} \/ p = q \/ p.op = None
        BY <2>1
      <3>2. QED
        BY <1>3, <2>1, <3>1, MovedList
    <2>2. CASE reqs' = reqs \ {r} /\ busy' = Ends(r)
      BY <2>2, EndedList
    <2>3. QED
      BY <1>1, <2>1, <2>2
  <1>7. ASSUME Undisturbed' PROVE FALSE
    <2>1. failed \in Nat /\ failed' = 0
      BY <1>7 DEF Types, Undisturbed
    <2>2. ~ (failed < MaxFailures) /\ failed = 0
      BY <1>1, <2>1
    <2>3. DraftInv
      BY <1>1, <1>7, <2>2 DEF Undisturbed
    <2>4. r.id # None
      BY <1>1, <1>2, KnownDrafts DEF Fitting
    <2>5. QED
      BY <1>1, <2>2, <2>3, <2>4 DEF DraftInv, OwnBusiness
  <1>8. QED
    BY <1>4, <1>5, <1>6, <1>7

\* What an answer puts on the screen.
LEMMA ShownDraft ==
  ASSUME Types, NEW r \in reqs, r.id \in Known, Shows(r)
  PROVE  /\ draft' # None /\ draft'.id = r.id /\ draft'.v = r.v
         /\ draft' \in [id: Known, v: Nat]
         /\ crossed' \in BOOLEAN /\ reordered' \in BOOLEAN
         /\ ~ crossed' => ~ crossed /\ ~ r.left
         /\ ~ reordered' => ~ reordered /\ (draft # None /\ draft.id = r.id => r.v >= draft.v)
  <1>1. /\ draft' = [id |-> r.id, v |-> r.v]
        /\ crossed' = (crossed \/ r.left)
        /\ reordered' = (reordered \/ (draft # None /\ draft.id = r.id /\ r.v < draft.v))
    BY DEF Shows
  <1>2. r.v \in Nat /\ r.left \in BOOLEAN /\ r.id \in Nat
    BY KnownDrafts DEF Types, SaleRequest
  <1>3. draft # None => draft.v \in Nat
    BY DEF Types
  <1>4. draft' # None
    BY <1>1, <1>2, NoneIsNoDraft
  <1>5. crossed \in BOOLEAN /\ reordered \in BOOLEAN
    BY DEF Types
  <1>6. draft # None /\ draft.id = r.id /\ ~ (r.v < draft.v) => r.v >= draft.v
    BY <1>2, <1>3
  <1>7. draft'.id = r.id /\ draft'.v = r.v /\ draft' \in [id: Known, v: Nat]
    BY <1>1, <1>2
  <1>8. ~ crossed' => ~ crossed /\ ~ r.left
    BY <1>1
  <1>9. ~ reordered' => ~ reordered /\ ~ (draft # None /\ draft.id = r.id /\ r.v < draft.v)
    BY <1>1
  <1>10. crossed' \in BOOLEAN /\ reordered' \in BOOLEAN
    BY <1>1, <1>2, <1>5
  <1>11. QED
    BY <1>4, <1>6, <1>7, <1>8, <1>9, <1>10

LEMMA EffectFields ==
  ASSUME Types, NEW r \in reqs, r.id \in Known, NEW q \in Effect(r)
  PROVE  /\ q \in SaleRequest /\ Fitting(q)
         /\ ~ q.served /\ business # r.business /\ q.op = None
  <1> DEFINE n == r.n
             id == r.id
             e == Request(n, None, "reload", id)
  <1>1. q = [e EXCEPT !.left = TRUE] /\ business # r.business
    BY DEF Effect
  <1>2. n \in Nat /\ None \in SaleOp \cup {None} /\ id \in Nat \cup {None} /\ "reload" \in Phases
    BY KnownDrafts DEF Types, SaleRequest, Phases
  <1> HIDE DEF n, id
  <1>3. e \in SaleRequest /\ e.op = None /\ e.phase = "reload" /\ e.id = id /\ e.at = order /\ ~ e.served
        /\ e.part = 1
    <2>1. order \in Nat \cup {None} /\ business \in Businesses
      BY KnownDrafts DEF Types
    <2>2. QED
      BY <1>2, <2>1 DEF Request, SaleRequest
  <1> HIDE DEF e
  <1>4. q \in SaleRequest /\ q.op = None /\ q.phase = "reload" /\ q.id = id /\ q.at = order /\ ~ q.served
        /\ q.part = 1
    BY <1>1, <1>3 DEF SaleRequest
  <1>5. QED
    BY <1>1, <1>4 DEF Fitting, Types, id

\* As long as the page works on no draft, nothing is acknowledged, and requests
\* in time create one or are the load that opened the page.
LEMMA NoDraftYet ==
  ASSUME Types, DraftInv, order = None
  PROVE  /\ \A d \in Numbers : ~ (acked[d] > 0) /\ ~ (charged[d] > 0)
         /\ \A p \in reqs : p.op # None /\ ~ p.left => /\ p.phase = "create" /\ p.at = None
                                                         /\ p.base = None
  <1>1. \A d \in Numbers : (acked[d] > 0 => order = d) /\ (charged[d] > 0 => order = d)
    BY DEF DraftInv, OneDraft
  <1>2. None \notin Numbers
    BY NoneAssumption DEF Numbers
  <1>3. ASSUME NEW p \in reqs, p.op # None, ~ p.left
        PROVE  p.phase = "create" /\ p.at = None /\ p.base = None
    <2>1. /\ p.phase # "create" => p.id = order
          /\ p.at # None => p.at = order
          /\ p.base # None => p.base.id = order
      BY <1>3 DEF DraftInv, OneDraft
    <2>2. /\ p.phase # "create" => p.id \in Known
          /\ p.base # None => p.base.id # None
      <3>1. p.base \in [id: Nat, v: Nat] \cup {None}
        BY DEF Types, SaleRequest
      <3>2. QED
        BY <3>1, NoneAssumption DEF Types, Fitting
    <2>3. QED
      BY <2>1, <2>2, KnownDrafts
  <1>4. QED
    BY <1>1, <1>2, <1>3

LEMMA CreatedInv ==
  ASSUME Inv, NEW r \in reqs, Created(r)
  PROVE  Inv'
  <1> USE DEF Inv
  <1> DEFINE q == Then(r, "work", r.id)
  <1>1. /\ r.phase = "create" /\ r.served /\ Shows(r) /\ order' = r.id
        /\ \/ /\ reqs' = Leave(reqs \ {r}) \cup Effect(r)
              /\ busy' = Ends(r) /\ acked' = Nothing /\ charged' = Nothing /\ twice' = twice
              /\ r.op.starts = "new"
           \/ /\ reqs' = (reqs \ {r}) \cup {q} \cup Effect(r)
              /\ twice' = (twice \/ draft # None \/ \E p \in reqs : p.op = None /\ ~ p.left)
              /\ busy' = busy /\ acked' = acked /\ charged' = charged
        /\ UNCHANGED <<page, server, business, unread, partly, failed, acts>>
    BY DEF Created
  <1>2. r \in SaleRequest /\ Fitting(r) /\ r.id \in Known /\ r.op # None
    BY <1>1 DEF Types, Fitting
  <1>3. /\ q \in SaleRequest
        /\ q.op = r.op /\ q.phase = "work" /\ q.id = r.id /\ q.at = r.at
        /\ q.business = r.business /\ ~ q.served /\ q.left = r.left
        /\ q.base = r.base /\ q.part = r.part
    <2>1. "work" \in Phases /\ r.id \in Nat \cup {None}
      BY <1>2, KnownDrafts DEF Phases
    <2>2. QED
      BY <1>2, <2>1, ThenFields
  <1> HIDE DEF q
  <1>4. /\ draft' # None /\ draft'.id = r.id /\ draft' \in [id: Known, v: Nat]
        /\ crossed' \in BOOLEAN /\ reordered' \in BOOLEAN
        /\ ~ crossed' => ~ crossed /\ ~ r.left
        /\ ~ reordered' => ~ reordered
    BY <1>1, <1>2, ShownDraft
  <1>5. Nothing \in [Numbers -> Nat] /\ \A d \in Numbers : Nothing[d] = 0
    BY DEF Nothing
  <1>6. Leave(reqs \ {r}) \subseteq Leave(reqs) /\ reqs \subseteq SaleRequest
    BY DEF Leave, Types
  <1>7. \A p \in Effect(r) : /\ p \in SaleRequest /\ Fitting(p) /\ ~ p.served
                             /\ business # r.business /\ p.op = None
    BY <1>2, EffectFields
  <1>8. \A p \in Leave(reqs \ {r}) :
          /\ p \in SaleRequest /\ Fitting(p) /\ p.left
          /\ \E o \in reqs : /\ p.id = o.id /\ p.at = o.at /\ p.business = o.business
                             /\ p.served = o.served /\ p.v = o.v
    BY <1>6, LeftFits, LeaveFields
  <1>9. Types'
    <2>1. Fitting(q)
      BY <1>2, <1>3 DEF Fitting
    <2>2. \A p \in reqs' : p \in SaleRequest /\ Fitting(p)
      BY <1>1, <1>3, <1>7, <1>8, <2>1 DEF Types
    <2>3. \A p \in reqs' : Fitting(p)'
      BY <1>1, <2>2 DEF Fitting, Known
    <2>4. busy' \subseteq Flags /\ twice' \in BOOLEAN
      BY <1>1, EndsFlags DEF Types
    <2>5. acked' \in [Numbers -> Nat] /\ charged' \in [Numbers -> Nat]
      BY <1>1, <1>5 DEF Types
    <2>6. order' \in Known \cup {None} /\ draft' \in [id: Known, v: Nat] \cup {None}
      BY <1>1, <1>2, <1>4
    <2>7. QED
      BY <1>1, <1>4, <2>2, <2>3, <2>4, <2>5, <2>6 DEF Types, Known
  <1>10. Behind'
    <2>1. \A p \in reqs' : p.served => p.v <= server[p.id].v
      BY <1>1, <1>3, <1>7, <1>8 DEF Behind
    <2>2. \A d \in Numbers : /\ acked'[d] > 0 => d \in Known /\ acked'[d] <= server[d].v
                             /\ charged'[d] > 0 => d \in Known /\ charged'[d] <= server[d].v
      BY <1>1, <1>5 DEF Behind
    <2>3. QED
      BY <1>1, <2>1, <2>2 DEF Behind, Known
  <1>11. OneList'
    <2>1. CASE reqs' = (reqs \ {r}) \cup {q} \cup Effect(r) /\ busy' = busy
      <3>1. \A p \in reqs' : p \in reqs \ {r} \/ p = q \/ p.op = None
        BY <1>7, <2>1
      <3>2. QED
        BY <1>3, <2>1, <3>1, MovedList
    <2>2. CASE /\ reqs' = Leave(reqs \ {r}) \cup Effect(r) /\ busy' = Ends(r)
               /\ r.op.starts = "new"
      <3>1. /\ \A p \in Leave(reqs \ {r}) : Charging(p) => "charge" \in busy
            /\ \A p, o \in Leave(reqs \ {r}) : Charging(p) /\ Charging(o) => p = o
        BY LeaveList
      <3>2. r.op \in page.ops
        BY <1>2 DEF Fitting
      <3>3. r.op.flag # "charge"
        BY <2>2, <3>2, ListOps
      <3>4. \A p \in Effect(r) : ~ Charging(p)
        BY <1>7 DEF Charging
      <3>5. QED
        BY <1>2, <2>2, <3>1, <3>3, <3>4 DEF OneList, Charging, Ends
    <2>3. QED
      BY <1>1, <2>1, <2>2
  <1>12. ASSUME Undisturbed' PROVE DraftInv'
    <2>1. DraftInv /\ ~ r.left
      <3>1. failed' = failed /\ partly' = partly
        BY <1>1
      <3>2. failed = 0 /\ ~ twice' /\ ~ crossed' /\ ~ reordered' /\ ~ partly
        BY <1>12, <3>1 DEF Undisturbed
      <3>3. ~ twice
        BY <1>1, <3>2
      <3>4. QED
        BY <1>4, <3>2, <3>3 DEF Undisturbed
    <2>2. r.business = business /\ server[r.id].business = business
      BY <1>2, <2>1, KnownDrafts DEF DraftInv, OwnBusiness
    <2>3. Effect(r) = {}
      BY <1>7, <2>2
    <2>4. order' # None /\ order' = r.id
      BY <1>1, <1>2, KnownDrafts
    <2>5. CASE reqs' = Leave(reqs \ {r}) /\ acked' = Nothing /\ charged' = Nothing
      <3>1. OwnBusiness'
        <4>1. server' = server /\ business' = business
          BY <1>1
        <4>2. \A p \in reqs' : /\ p.left
                               /\ p.id # None => server[p.id].business = p.business
                               /\ p.at # None => server[p.at].business = p.business
          <5>1. OwnBusiness
            BY <2>1 DEF DraftInv
          <5>2. \A o \in reqs : /\ o.id # None => server[o.id].business = o.business
                                /\ o.at # None => server[o.at].business = o.business
            BY <5>1 DEF OwnBusiness
          <5>3. QED
            BY <1>8, <2>5, <5>2
        <4>3. QED
          BY <2>2, <2>4, <4>1, <4>2 DEF OwnBusiness
      <3>2. OneDraft'
        <4>1. \A p \in reqs' : p.left
          BY <1>8, <2>5
        <4>2. \A d \in Numbers : ~ (acked'[d] > 0) /\ ~ (charged'[d] > 0)
          BY <1>5, <2>5
        <4>3. draft' # None /\ draft'.id = order'
          BY <1>4, <2>4
        <4>4. QED
          BY <4>1, <4>2, <4>3 DEF OneDraft, Opening
      <3>3. Followed' /\ Charges'
        BY <1>5, <2>5 DEF Followed, Charges
      <3>4. QED
        BY <3>1, <3>2, <3>3 DEF DraftInv
    <2>6. CASE /\ reqs' = (reqs \ {r}) \cup {q} /\ acked' = acked /\ charged' = charged
               /\ draft = None /\ \A p \in reqs : ~ (p.op = None /\ ~ p.left)
      <3>1. order = None /\ \A p \in reqs : ~ Opening(p)
        BY <2>1, <2>6 DEF DraftInv, OneDraft, Opening
      <3>2. \A d \in Numbers : ~ (acked[d] > 0) /\ ~ (charged[d] > 0)
        BY <2>1, <3>1, NoDraftYet
      <3>3. \A p \in reqs : p.op # None /\ ~ p.left => p.phase = "create" /\ p.at = None /\ p.base = None
        BY <2>1, <3>1, NoDraftYet
      <3>4. OwnBusiness'
        BY <1>1, <1>2, <1>3, <2>1, <2>2, <2>4, <2>6 DEF DraftInv, OwnBusiness
      <3>5. OneDraft'
        <4>1. \A p \in reqs' : ~ Opening(p)
          BY <1>2, <1>3, <2>6, <3>1 DEF Opening
        <4>2. q.at = None /\ q.base = None
          BY <1>2, <1>3, <2>1, <3>3
        <4>3. \A p \in reqs' : p.op # None /\ ~ p.left => /\ p.phase # "create" => p.id = order'
                                                          /\ p.at = None /\ p.base = None
          BY <1>3, <2>4, <2>6, <3>3, <4>2
        <4>4. \A p \in reqs' : (Opening(p))' <=> Opening(p)
          BY DEF Opening
        <4>5. QED
          BY <1>4, <2>4, <2>6, <3>2, <4>1, <4>3, <4>4 DEF OneDraft
      <3>6. Followed' /\ Charges'
        BY <2>6, <3>2 DEF Followed, Charges
      <3>7. QED
        BY <3>4, <3>5, <3>6 DEF DraftInv
    <2>7. QED
      BY <1>1, <1>12, <2>3, <2>5, <2>6 DEF Undisturbed
  <1>13. QED
    BY <1>9, <1>10, <1>11, <1>12

\* An answer that is applied in its turn was asked for under the business and for
\* the draft of the screen.
LEMMA Timely ==
  ASSUME Types, DraftInv, NEW r \in reqs, ~ r.left, r.phase # "create"
  PROVE  /\ r.id \in Known /\ r.id # None
         /\ r.business = business /\ server[r.id].business = business
         /\ r.id = order \/ (Opening(r) /\ r.id = 1 /\ order = None)
  <1>1. r.id \in Known /\ r.id # None
    BY KnownDrafts DEF Types, Fitting
  <1>2. r.business = business /\ server[r.id].business = business
    BY <1>1 DEF DraftInv, OwnBusiness
  <1>3. Opening(r) => r.id = 1 /\ order \in {1, None}
    BY DEF DraftInv, OneDraft
  <1>4. r.op # None => r.id = order
    BY DEF DraftInv, OneDraft
  <1>5. r.op = None => Opening(r)
    BY DEF Opening
  <1>6. QED
    BY <1>1, <1>2, <1>3, <1>4, <1>5

LEMMA LoadedInv ==
  ASSUME Inv, NEW r \in reqs, Loaded(r)
  PROVE  Inv'
  <1> USE DEF Inv
  <1> DEFINE q == Then(r, "work", r.id)
  <1>1. /\ r.phase \in {"refresh", "reload"} /\ r.served /\ Shows(r)
        /\ order' = r.id /\ business' = server[r.id].business
        /\ unread' = IF r.v >= acked[r.id] THEN unread \ {r.id} ELSE unread
        /\ \/ r.phase = "refresh" /\ reqs' = (reqs \ {r}) \cup {q} /\ busy' = busy
           \/ r.phase = "reload" /\ reqs' = reqs \ {r} /\ busy' = Ends(r)
        /\ UNCHANGED <<page, server, acked, charged, twice, partly, failed, acts>>
    BY DEF Loaded
  <1>2. r \in SaleRequest /\ Fitting(r) /\ r.id \in Known
    BY <1>1 DEF Types, Fitting
  <1>3. /\ q \in SaleRequest
        /\ q.op = r.op /\ q.phase = "work" /\ q.id = r.id /\ q.at = r.at
        /\ q.business = r.business /\ ~ q.served /\ q.left = r.left
        /\ q.base = r.base /\ q.part = r.part
    <2>1. "work" \in Phases /\ r.id \in Nat \cup {None}
      BY <1>2, KnownDrafts DEF Phases
    <2>2. QED
      BY <1>2, <2>1, ThenFields
  <1> HIDE DEF q
  <1>4. /\ draft' # None /\ draft'.id = r.id /\ draft'.v = r.v /\ draft' \in [id: Known, v: Nat]
        /\ crossed' \in BOOLEAN /\ reordered' \in BOOLEAN
        /\ ~ crossed' => ~ crossed /\ ~ r.left
        /\ ~ reordered' => ~ reordered /\ (draft # None /\ draft.id = r.id => r.v >= draft.v)
    BY <1>1, <1>2, ShownDraft
  <1>5. Types'
    <2>1. r.phase = "refresh" => Fitting(q)
      BY <1>2, <1>3 DEF Fitting
    <2>2. \A p \in reqs' : p \in SaleRequest /\ Fitting(p)
      BY <1>1, <1>3, <2>1 DEF Types
    <2>3. \A p \in reqs' : Fitting(p)'
      BY <1>1, <2>2 DEF Fitting, Known
    <2>4. busy' \subseteq Flags /\ unread' \subseteq Numbers
      BY <1>1, EndsFlags DEF Types
    <2>5. business' \in Businesses
      BY <1>1, <1>2, KnownDrafts DEF Draft
    <2>6. order' \in Known \cup {None} /\ draft' \in [id: Known, v: Nat] \cup {None}
      BY <1>1, <1>2, <1>4
    <2>7. QED
      BY <1>1, <1>4, <2>2, <2>3, <2>4, <2>5, <2>6 DEF Types, Known
  <1>6. Behind'
    <2>1. \A p \in reqs' : p.served => p.v <= server[p.id].v
      BY <1>1, <1>3 DEF Behind
    <2>2. QED
      BY <1>1, <2>1 DEF Behind, Known
  <1>7. OneList'
    <2>1. CASE reqs' = (reqs \ {r}) \cup {q} /\ busy' = busy
      <3>1. \A p \in reqs' : p \in reqs \ {r} \/ p = q \/ p.op = None
        BY <2>1
      <3>2. QED
        BY <1>3, <2>1, <3>1, MovedList
    <2>2. CASE reqs' = reqs \ {r} /\ busy' = Ends(r)
      BY <2>2, EndedList
    <2>3. QED
      BY <1>1, <2>1, <2>2
  <1>8. ASSUME Undisturbed' PROVE DraftInv'
    <2>1. /\ DraftInv /\ ~ r.left
          /\ draft # None /\ draft.id = r.id => r.v >= draft.v
      <3>1. failed' = failed /\ twice' = twice /\ partly' = partly
        BY <1>1
      <3>2. QED
        BY <1>4, <1>8, <3>1 DEF Undisturbed
    <2>2. /\ r.id # None /\ r.business = business /\ server[r.id].business = business
          /\ r.id = order \/ (Opening(r) /\ r.id = 1 /\ order = None)
      BY <1>1, <2>1, Timely
    <2>3. server' = server /\ business' = business /\ order' = r.id /\ order' # None
          /\ acked' = acked /\ charged' = charged
      BY <1>1, <2>2
    <2>4. OwnBusiness'
      <3>1. \A p \in reqs' : /\ ~ p.left => p.business = business
                             /\ p.id # None => server[p.id].business = p.business
                             /\ p.at # None => server[p.at].business = p.business
        BY <1>1, <1>3, <2>1, <2>2 DEF DraftInv, OwnBusiness
      <3>2. QED
        BY <2>2, <2>3, <3>1 DEF OwnBusiness
    <2>5. order = None => /\ \A d \in Numbers : ~ (acked[d] > 0) /\ ~ (charged[d] > 0)
                          /\ \A p \in reqs : p.op # None /\ ~ p.left => /\ p.phase = "create" /\ p.at = None
                                                                          /\ p.base = None
      BY <2>1, NoDraftYet
    <2>6. \A d \in Numbers : (acked[d] > 0 => d = r.id) /\ (charged[d] > 0 => d = r.id)
      BY <2>1, <2>2, <2>5 DEF DraftInv, OneDraft
    <2>7. r.phase = "refresh" => r.op # None
      BY <1>2 DEF Fitting
    <2>8. OneDraft'
      <3>1. ASSUME NEW p \in reqs
            PROVE  /\ Opening(p) => p.id = 1 /\ r.id = 1
                   /\ p.op # None /\ ~ p.left => /\ p.phase # "create" => p.id = r.id
                                                 /\ p.at # None => p.at = r.id
                                                 /\ p.base # None => p.base.id = r.id
        BY <2>1, <2>2, <2>5 DEF DraftInv, OneDraft
      <3>2. r.phase = "refresh" => /\ ~ Opening(q) /\ q.id = r.id
                                   /\ q.at # None => q.at = r.id
                                   /\ q.base # None => q.base.id = r.id
        BY <1>3, <2>1, <2>7, <3>1 DEF Opening
      <3>3. \A p \in reqs' :
              /\ Opening(p) => p.id = 1 /\ order' = 1
              /\ p.op # None /\ ~ p.left => /\ p.phase # "create" => p.id = order'
                                            /\ p.at # None => p.at = order'
                                            /\ p.base # None => p.base.id = order'
        BY <1>1, <2>3, <3>1, <3>2
      <3>4. \A p \in reqs' : Opening(p)' <=> Opening(p)
        BY DEF Opening
      <3>5. QED
        BY <1>4, <2>3, <2>6, <3>3, <3>4 DEF OneDraft
    <2>9. Followed'
      <3> SUFFICES ASSUME NEW d \in Numbers \ unread', acked[d] > 0, ~ Shown(d)'
                   PROVE  \E p \in reqs' : Brings(p, d)
        BY <2>3 DEF Followed, Brings
      <3>1. d = r.id
        BY <2>6
      <3>2. /\ r.v \in Nat /\ acked[d] \in Nat /\ ~ (r.v >= acked[d])
            /\ draft # None => draft.v \in Nat
        BY <1>2, <1>4, <2>3, <3>1 DEF Shown, Types, SaleRequest
      <3>3. d \notin unread
        BY <1>1, <3>1, <3>2
      <3>4. ~ Shown(d)
        BY <2>1, <3>1, <3>2 DEF Shown
      <3>5. PICK p \in reqs : Brings(p, d)
        BY <2>1, <3>3, <3>4 DEF DraftInv, Followed
      <3>6. p # r
        BY <1>1, <3>2, <3>5 DEF Brings
      <3>7. QED
        BY <1>1, <3>5, <3>6
    <2>10. Charges'
      <3> SUFFICES ASSUME NEW d \in Numbers, charged[d] > 0
                   PROVE  /\ Has(draft', d) \/ \E p \in reqs' : Reads(p, d)
                          /\ \A p \in reqs' : Charging(p) /\ p.phase # "reload" => Has(p.base, d)
        BY <2>3 DEF Charges, Has, Reads, Charging
      <3>1. /\ Has(draft, d) \/ \E p \in reqs : Reads(p, d)
            /\ \A p \in reqs : Charging(p) /\ p.phase # "reload" => Has(p.base, d)
        BY <2>1 DEF DraftInv, Charges
      <3>2. d = r.id
        BY <2>6
      <3>3. \A p \in reqs' : Charging(p) /\ p.phase # "reload" => Has(p.base, d)
        <4>1. r.phase = "refresh" /\ Charging(q) => Has(q.base, d)
          BY <1>3, <3>1 DEF Charging
        <4>2. QED
          BY <1>1, <3>1, <4>1
      <3>4. CASE Has(draft, d)
        <4>1. draft.v \in Nat /\ charged[d] \in Nat /\ r.v \in Nat
          BY <1>2, <3>4 DEF Has, Types, SaleRequest
        <4>2. Has(draft', d)
          BY <1>4, <2>1, <3>2, <3>4, <4>1 DEF Has
        <4>3. QED
          BY <4>2, <3>1, <3>3
      <3>5. CASE \E p \in reqs : Reads(p, d)
        <4>1. PICK p \in reqs : Reads(p, d)
          BY <3>5
        <4>2. CASE p = r
          BY <1>1, <1>4, <3>2, <3>3, <4>1, <4>2 DEF Has, Reads
        <4>3. CASE p # r
          BY <1>1, <3>3, <4>1, <4>3
        <4>4. QED
          BY <4>2, <4>3
      <3>6. QED
        BY <3>1, <3>4, <3>5
    <2>11. QED
      BY <2>4, <2>8, <2>9, <2>10 DEF DraftInv
  <1>9. QED
    BY <1>5, <1>6, <1>7, <1>8

\* A finalized sale leaves the page, and nothing behind.
LEMMA FinalizedInv ==
  ASSUME Inv, NEW r \in reqs, Worked(r), r.op.leaves
  PROVE  Inv'
  <1> USE DEF Inv
  <1>1. /\ draft' = None /\ order' = None /\ busy' = {} /\ reqs' = {} /\ unread' = {}
        /\ acked' = Nothing /\ charged' = Nothing
        /\ UNCHANGED <<page, server, business, twice, crossed, reordered, partly, failed, acts>>
    BY DEF Worked
  <1>2. Nothing \in [Numbers -> Nat] /\ \A d \in Numbers : ~ (Nothing[d] > 0)
    BY DEF Nothing
  <1>3. Types'
    BY <1>1, <1>2 DEF Types, Known
  <1>4. Behind' /\ OneList'
    BY <1>1, <1>2 DEF Behind, OneList
  <1>5. DraftInv'
    BY <1>1, <1>2 DEF DraftInv, OwnBusiness, OneDraft, Followed, Charges
  <1>6. QED
    BY <1>3, <1>4, <1>5

\* What is known from an answer is not ahead of the server.
LEMMA AcknowledgedVersions ==
  ASSUME Types, Behind, NEW r \in reqs, r.id \in Known, r.op # None, r.served, Acknowledged(r)
  PROVE  /\ acked' \in [Numbers -> Nat] /\ charged' \in [Numbers -> Nat]
         /\ \A d \in Numbers : d # r.id => acked'[d] = acked[d] /\ charged'[d] = charged[d]
         /\ r.left => acked' = acked
         /\ ~ r.left => acked'[r.id] = IF r.v > acked[r.id] THEN r.v ELSE acked[r.id]
         /\ r.left \/ ~ Charging(r) => charged' = charged
         /\ ~ r.left /\ Charging(r) => charged'[r.id] = r.v
         /\ \A d \in Numbers : /\ acked'[d] > 0 => d \in Known /\ acked'[d] <= server[d].v
                               /\ charged'[d] > 0 => d \in Known /\ charged'[d] <= server[d].v
  <1>1. /\ r.v \in Nat /\ r.left \in BOOLEAN /\ r.id \in Numbers
        /\ \A d \in Numbers : acked[d] \in Nat /\ charged[d] \in Nat
    BY KnownDrafts DEF Types, SaleRequest
  <1>2. /\ acked' = IF r.left THEN acked ELSE [acked EXCEPT ![r.id] = IF r.v > @ THEN r.v ELSE @]
        /\ charged' = IF r.left \/ ~ r.op.replaces THEN charged ELSE [charged EXCEPT ![r.id] = r.v]
    BY DEF Acknowledged
  <1>3. /\ acked' \in [Numbers -> Nat]
        /\ \A d \in Numbers : d # r.id => acked'[d] = acked[d]
        /\ r.left => acked' = acked
        /\ ~ r.left => acked'[r.id] = IF r.v > acked[r.id] THEN r.v ELSE acked[r.id]
    BY <1>1, <1>2 DEF Types
  <1>4. /\ charged' \in [Numbers -> Nat]
        /\ \A d \in Numbers : d # r.id => charged'[d] = charged[d]
        /\ r.left \/ ~ Charging(r) => charged' = charged
        /\ ~ r.left /\ Charging(r) => charged'[r.id] = r.v
    BY <1>1, <1>2 DEF Types, Charging
  <1>5. r.v <= server[r.id].v
    BY DEF Behind
  <1>6. ASSUME NEW d \in Numbers
        PROVE  /\ acked'[d] > 0 => d \in Known /\ acked'[d] <= server[d].v
               /\ charged'[d] > 0 => d \in Known /\ charged'[d] <= server[d].v
    <2>1. /\ acked[d] > 0 => d \in Known /\ acked[d] <= server[d].v
          /\ charged[d] > 0 => d \in Known /\ charged[d] <= server[d].v
      BY DEF Behind
    <2>2. acked'[d] \in {acked[d], r.v} /\ (acked'[d] # acked[d] => d = r.id)
      BY <1>3
    <2>3. charged'[d] \in {charged[d], r.v} /\ (charged'[d] # charged[d] => d = r.id)
      BY <1>4
    <2>4. QED
      BY <1>5, <2>1, <2>2, <2>3
  <1>7. QED
    BY <1>3, <1>4, <1>6

\* One item is cleared, and another one is to be.
LEMMA NextItemInv ==
  ASSUME Inv, NEW r \in reqs, NextItem(r)
  PROVE  Inv'
  <1> USE DEF Inv
  <1>1. /\ r.phase = "work" /\ r.served /\ r.op.times # "once" /\ Acknowledged(r)
        /\ UNCHANGED <<page, server, business, draft, order, busy, unread,
                       twice, crossed, reordered, partly, failed, acts>>
    BY DEF NextItem
  <1>2. r \in SaleRequest /\ Fitting(r) /\ r.id \in Known /\ r.op # None /\ r.op \in page.ops
    BY <1>1 DEF Types, Fitting
  <1>3. PICK q : q = [Then(r, "work", r.id) EXCEPT !.part = @ + 1]
    OBVIOUS
  <1>4. reqs' = (reqs \ {r}) \cup {q}
    BY <1>3 DEF NextItem
  <1>5. /\ q \in SaleRequest
        /\ q.op = r.op /\ q.phase = "work" /\ q.id = r.id /\ q.at = r.at
        /\ q.business = r.business /\ ~ q.served /\ q.left = r.left
        /\ q.base = r.base /\ q.part = r.part + 1
    <2> DEFINE p == Then(r, "work", r.id)
    <2>1. /\ p \in SaleRequest
          /\ p.op = r.op /\ p.phase = "work" /\ p.id = r.id /\ p.at = r.at
          /\ p.business = r.business /\ ~ p.served /\ p.left = r.left
          /\ p.base = r.base /\ p.part = r.part
      <3>1. "work" \in Phases /\ r.id \in Nat \cup {None}
        BY <1>2, KnownDrafts DEF Phases
      <3>2. QED
        BY <1>2, <3>1, ThenFields
    <2> HIDE DEF p
    <2>2. q = [p EXCEPT !.part = @ + 1]
      BY <1>3 DEF p
    <2>3. QED
      BY <1>2, <2>1, <2>2 DEF SaleRequest
  <1>6. ~ Charging(r) /\ ~ Charging(q)
    BY <1>1, <1>2, <1>5, ListOps DEF Charging
  <1>7. /\ acked' \in [Numbers -> Nat] /\ charged' = charged
        /\ \A d \in Numbers : d # r.id => acked'[d] = acked[d]
        /\ r.left => acked' = acked
        /\ \A d \in Numbers : acked'[d] > 0 => d \in Known /\ acked'[d] <= server[d].v
    BY <1>1, <1>2, <1>6, AcknowledgedVersions
  <1>8. Types'
    <2>1. Fitting(q)
      <3>1. r.part \in Nat
        BY <1>2 DEF SaleRequest
      <3>2. q.part > 0
        BY <1>2, <1>5, <3>1 DEF Fitting
      <3>3. q.op # None /\ q.op \in page.ops /\ q.op.times # "once" /\ q.phase # "create"
        BY <1>1, <1>2, <1>5
      <3>4. q.id \in Known /\ q.at \in Known \cup {None} /\ (q.op.starts = "work" => q.at # None)
        BY <1>2, <1>5 DEF Fitting
      <3>5. QED
        BY <3>2, <3>3, <3>4 DEF Fitting
    <2>2. \A p \in reqs' : p \in SaleRequest /\ Fitting(p)
      BY <1>4, <1>5, <2>1 DEF Types
    <2>3. \A p \in reqs' : Fitting(p)'
      BY <1>1, <2>2 DEF Fitting, Known
    <2>4. QED
      BY <1>1, <1>7, <2>2, <2>3 DEF Types, Known
  <1>9. Behind'
    BY <1>1, <1>4, <1>5, <1>7 DEF Behind, Known
  <1>10. OneList'
    BY <1>1, <1>4, <1>6 DEF OneList, Charging
  <1>11. ASSUME Undisturbed' PROVE DraftInv'
    <2>1. DraftInv
      BY <1>1, <1>11 DEF Undisturbed
    <2>2. ~ r.left => r.id = order
      BY <1>1, <1>2, <2>1 DEF DraftInv, OneDraft
    <2>3. OwnBusiness'
      BY <1>1, <1>4, <1>5, <2>1 DEF DraftInv, OwnBusiness
    <2>4. OneDraft'
      <3>1. \A d \in Numbers : acked'[d] > 0 => order = d
        BY <1>7, <2>1, <2>2 DEF DraftInv, OneDraft
      <3>2. ~ Opening(r) /\ ~ Opening(q)
        BY <1>2, <1>5 DEF Opening
      <3>3. \A p \in reqs' : /\ Opening(p) => p.id = 1 /\ order \in {1, None}
                             /\ p.op # None /\ ~ p.left => /\ p.phase # "create" => p.id = order
                                                           /\ p.at # None => p.at = order
                                                           /\ p.base # None => p.base.id = order
        BY <1>1, <1>2, <1>4, <1>5, <2>1, <3>2 DEF DraftInv, OneDraft
      <3>4. order # None /\ draft = None => \E p \in reqs' : Opening(p)
        BY <1>4, <2>1, <3>2 DEF DraftInv, OneDraft
      <3>5. \A p \in reqs' : Opening(p)' <=> Opening(p)
        BY DEF Opening
      <3>6. QED
        BY <1>1, <1>7, <2>1, <3>1, <3>3, <3>4, <3>5 DEF DraftInv, OneDraft
    <2>5. Followed'
      <3> SUFFICES ASSUME NEW d \in Numbers \ unread, acked'[d] > 0, ~ Shown(d)'
                   PROVE  \E p \in reqs' : Brings(p, d)'
        BY <1>1 DEF Followed
      <3>1. CASE d = r.id /\ ~ r.left
        <4>1. q.part > 1
          BY <1>2, <1>5 DEF SaleRequest, Fitting
        <4>2. q \in reqs' /\ q.phase = "work" /\ q.id = d /\ ~ q.left
          BY <1>4, <1>5, <3>1
        <4>3. QED
          BY <4>1, <4>2 DEF Brings
      <3>2. CASE d # r.id \/ r.left
        <4>1. acked'[d] = acked[d] /\ ~ Shown(d)
          BY <1>1, <1>7, <3>2 DEF Shown
        <4>2. PICK p \in reqs : Brings(p, d)
          BY <2>1, <4>1 DEF DraftInv, Followed
        <4>3. p # r /\ p \in reqs'
          BY <1>1, <1>4, <3>2, <4>2 DEF Brings
        <4>4. QED
          BY <4>1, <4>2, <4>3 DEF Brings
      <3>3. QED
        BY <3>1, <3>2
    <2>6. Charges'
      <3>1. \A d : ~ Reads(r, d)
        BY <1>6 DEF Reads
      <3>2. QED
        BY <1>1, <1>4, <1>6, <1>7, <2>1, <3>1 DEF DraftInv, Charges, Has, Reads, Charging
    <2>7. QED
      BY <2>3, <2>4, <2>5, <2>6 DEF DraftInv
  <1>12. QED
    BY <1>8, <1>9, <1>10, <1>11

LEMMA WorkedInv ==
  ASSUME Inv, NEW r \in reqs, Worked(r)
  PROVE  Inv'
  <1> USE DEF Inv
  <1>1. CASE r.op.leaves
    BY <1>1, FinalizedInv
  <1>2. SUFFICES ASSUME ~ r.op.leaves PROVE Inv'
    BY <1>1
  <1> DEFINE q == Then(r, "reload", ReadBack(r))
             read == unread \cup {r.id}
  <1>3. /\ r.phase = "work" /\ r.served
        /\ Acknowledged(r)
        /\ UNCHANGED <<page, server, business, order, twice, partly, failed, acts>>
        /\ \/ /\ r.op.answers
              /\ Shows(r) /\ reqs' = reqs \ {r} /\ busy' = Ends(r)
              /\ unread' = IF r.v >= acked[r.id] THEN unread \ {r.id} ELSE unread
           \/ /\ ~ r.op.answers /\ UNCHANGED <<draft, crossed, reordered>>
              /\ ReadBack(r) # None
              /\ reqs' = (reqs \ {r}) \cup {q} /\ UNCHANGED <<busy, unread>>
           \/ /\ ~ r.op.answers /\ UNCHANGED <<draft, crossed, reordered>>
              /\ ReadBack(r) = None
              /\ reqs' = reqs \ {r} /\ busy' = Ends(r)
              /\ unread' = IF page.reads = "known" THEN read ELSE unread
    BY <1>2 DEF Worked
  <1>4. r \in SaleRequest /\ Fitting(r) /\ r.id \in Known /\ r.op # None
    BY <1>3 DEF Types, Fitting
  <1>5. ReadBack(r) \in Known \cup {None}
    BY <1>4 DEF ReadBack, Fitting
  <1>6. /\ q \in SaleRequest
        /\ q.op = r.op /\ q.phase = "reload" /\ q.id = ReadBack(r) /\ q.at = r.at
        /\ q.business = r.business /\ ~ q.served /\ q.left = r.left
        /\ q.base = r.base /\ q.part = r.part
    <2>1. "reload" \in Phases /\ ReadBack(r) \in Nat \cup {None}
      BY <1>5, KnownDrafts DEF Phases
    <2>2. QED
      BY <1>4, <2>1, ThenFields
  <1> HIDE DEF q
  <1>7. /\ draft' \in {draft} \cup [id: Known, v: Nat]
        /\ ~ r.op.answers => draft' = draft
        /\ crossed' \in BOOLEAN /\ reordered' \in BOOLEAN
        /\ ~ crossed' => ~ crossed
        /\ ~ reordered' => ~ reordered
        /\ r.op.answers => /\ draft' # None /\ draft'.id = r.id /\ draft'.v = r.v
                           /\ ~ crossed' => ~ r.left
                           /\ ~ reordered' => (draft # None /\ draft.id = r.id => r.v >= draft.v)
    <2>1. CASE r.op.answers
      BY <1>3, <1>4, <2>1, ShownDraft
    <2>2. CASE ~ r.op.answers
      BY <1>3, <2>2 DEF Types
    <2>3. QED
      BY <2>1, <2>2
  <1>8. r.v \in Nat /\ r.left \in BOOLEAN /\ r.id \in Numbers /\ \A d \in Numbers : acked[d] \in Nat
    BY <1>4, KnownDrafts DEF Types, SaleRequest
  <1>9. /\ acked' \in [Numbers -> Nat] /\ charged' \in [Numbers -> Nat]
        /\ \A d \in Numbers : d # r.id => acked'[d] = acked[d] /\ charged'[d] = charged[d]
        /\ r.left => acked' = acked
        /\ ~ r.left => acked'[r.id] = IF r.v > acked[r.id] THEN r.v ELSE acked[r.id]
        /\ r.left \/ ~ Charging(r) => charged' = charged
        /\ ~ r.left /\ Charging(r) => charged'[r.id] = r.v
        /\ \A d \in Numbers : /\ acked'[d] > 0 => d \in Known /\ acked'[d] <= server[d].v
                              /\ charged'[d] > 0 => d \in Known /\ charged'[d] <= server[d].v
    BY <1>3, <1>4, AcknowledgedVersions
  <1>10. Types'
    <2>1. \A p \in reqs' : p \in SaleRequest /\ Fitting(p)
      <3>1. ReadBack(r) # None => Fitting(q)
        BY <1>4, <1>5, <1>6 DEF Fitting
      <3>2. QED
        BY <1>3, <1>6, <3>1 DEF Types
    <2>2. \A p \in reqs' : Fitting(p)'
      BY <1>3, <2>1 DEF Fitting, Known
    <2>3. busy' \subseteq Flags /\ unread' \subseteq Numbers
      BY <1>3, <1>8, EndsFlags DEF Types
    <2>4. draft' \in [id: Known, v: Nat] \cup {None}
      BY <1>7 DEF Types
    <2>5. QED
      BY <1>3, <1>7, <1>9, <2>1, <2>2, <2>3, <2>4 DEF Types, Known
  <1>11. Behind'
    <2>1. \A p \in reqs' : p.served => p.v <= server[p.id].v
      BY <1>3, <1>6 DEF Behind
    <2>2. QED
      BY <1>3, <1>9, <2>1 DEF Behind, Known
  <1>12. OneList'
    <2>1. CASE reqs' = (reqs \ {r}) \cup {q} /\ busy' = busy
      <3>1. \A p \in reqs' : p \in reqs \ {r} \/ p = q \/ p.op = None
        BY <2>1
      <3>2. QED
        BY <1>6, <2>1, <3>1, MovedList
    <2>2. CASE reqs' = reqs \ {r} /\ busy' = Ends(r)
      BY <2>2, EndedList
    <2>3. QED
      BY <1>3, <2>1, <2>2
  <1>13. ASSUME Undisturbed' PROVE DraftInv'
    <2>1. DraftInv
      <3>1. failed' = failed /\ twice' = twice /\ partly' = partly
        BY <1>3
      <3>2. QED
        BY <1>7, <1>13, <3>1 DEF Undisturbed
    <2>2. r.op.answers => ~ r.left /\ (draft # None /\ draft.id = r.id => r.v >= draft.v)
      BY <1>7, <1>13 DEF Undisturbed
    <2>3. ~ r.left => r.id = order /\ (r.at # None => r.at = r.id) /\ (r.base # None => r.base.id = order)
      BY <1>3, <1>4, <2>1 DEF DraftInv, OneDraft
    <2>4. server' = server /\ business' = business /\ order' = order /\ page' = page
      BY <1>3
    <2>5. ~ r.left => ReadBack(r) \in {r.id, None}
      BY <2>3 DEF ReadBack
    <2>6. OwnBusiness'
      <3>1. q.id # None => server[q.id].business = q.business
        BY <1>4, <1>6, <2>1 DEF ReadBack, DraftInv, OwnBusiness
      <3>2. \A p \in reqs' : /\ ~ p.left => p.business = business
                             /\ p.id # None => server[p.id].business = p.business
                             /\ p.at # None => server[p.at].business = p.business
        BY <1>3, <1>6, <2>1, <3>1 DEF DraftInv, OwnBusiness
      <3>3. QED
        BY <2>1, <2>4, <3>2 DEF DraftInv, OwnBusiness
    <2>7. OneDraft'
      <3>1. draft' # None => draft'.id = order
        BY <1>7, <2>1, <2>2, <2>3 DEF DraftInv, OneDraft
      <3>2. order # None /\ draft' = None => \E p \in reqs' : Opening(p)
        BY <1>3, <1>4, <1>7, <2>1 DEF DraftInv, OneDraft, Opening
      <3>3. \A d \in Numbers : (acked'[d] > 0 => order = d) /\ (charged'[d] > 0 => order = d)
        BY <1>9, <2>1, <2>3 DEF DraftInv, OneDraft
      <3>4. ReadBack(r) # None => /\ ~ Opening(q)
                                  /\ ~ q.left => /\ q.id = order /\ (q.at # None => q.at = order)
                                                 /\ q.base # None => q.base.id = order
        BY <1>4, <1>6, <2>3, <2>5 DEF Opening
      <3>5. \A p \in reqs' : /\ Opening(p) => p.id = 1 /\ order \in {1, None}
                             /\ p.op # None /\ ~ p.left => /\ p.phase # "create" => p.id = order
                                                           /\ p.at # None => p.at = order
                                                           /\ p.base # None => p.base.id = order
        BY <1>3, <2>1, <3>4 DEF DraftInv, OneDraft
      <3>6. \A p \in reqs' : Opening(p)' <=> Opening(p)
        BY DEF Opening
      <3>7. QED
        BY <2>4, <3>1, <3>2, <3>3, <3>5, <3>6 DEF OneDraft
    <2>8. Followed'
      <3> SUFFICES ASSUME NEW d \in Numbers \ unread', acked'[d] > 0, ~ Shown(d)'
                   PROVE  \E p \in reqs' : Brings(p, d)'
        BY DEF Followed
      \* The work just acknowledged is read back, unless it has answered.
      <3>1. CASE d = r.id /\ ~ r.left /\ ~ r.op.answers
        <4>1. ReadBack(r) # None
          <5>1. ReadBack(r) = None => page.reads = "known" /\ unread' = unread \cup {r.id}
            BY <1>3, <1>4, <3>1, PageOps, KnownDrafts DEF ReadBack
          <5>2. QED
            BY <3>1, <5>1
        <4>2. q \in reqs' /\ q.phase = "reload" /\ q.id = d /\ ~ q.served
          BY <1>3, <1>6, <2>5, <3>1, <4>1
        <4>3. QED
          BY <4>2 DEF Brings
      \* An answer is shown, unless more was acknowledged before.
      <3>2. CASE d = r.id /\ r.op.answers
        <4>1. acked'[d] = (IF r.v > acked[d] THEN r.v ELSE acked[d]) /\ acked[d] \in Nat
          BY <1>8, <1>9, <2>2, <3>2
        <4>2. ~ (r.v >= acked'[d])
          BY <1>7, <3>2 DEF Shown
        <4>3. acked'[d] = acked[d] /\ ~ (r.v >= acked[d])
          BY <1>8, <4>1, <4>2
        <4>4. d \notin unread
          BY <1>3, <3>2, <4>3
        <4>5. draft # None => draft.v \in Nat
          BY DEF Types
        <4>6. ~ Shown(d)
          BY <1>8, <2>2, <3>2, <4>3, <4>5 DEF Shown
        <4>7. PICK p \in reqs : Brings(p, d)
          BY <2>1, <4>3, <4>4, <4>6 DEF DraftInv, Followed
        <4>8. p # r /\ p \in reqs'
          <5>1. ~ (r.part > 1)
            BY <1>4, <3>2, ListOps DEF Fitting
          <5>2. QED
            BY <1>3, <3>2, <4>7, <5>1 DEF Brings
        <4>9. QED
          BY <4>3, <4>7, <4>8 DEF Brings
      <3>3. CASE d # r.id \/ (r.left /\ ~ r.op.answers)
        <4>1. acked'[d] = acked[d]
          BY <1>9, <3>3
        <4>2. d \notin unread
          BY <1>3, <3>3
        <4>3. ~ Shown(d)
          <5>1. CASE r.op.answers
            <6>1. d # r.id /\ order = r.id
              BY <2>2, <2>3, <3>3, <5>1
            <6>2. acked[d] > 0 => order = d
              BY <2>1 DEF DraftInv, OneDraft
            <6>3. QED
              BY <4>1, <6>1, <6>2
          <5>2. CASE ~ r.op.answers
            BY <1>3, <4>1, <5>2 DEF Shown
          <5>3. QED
            BY <5>1, <5>2
        <4>4. PICK p \in reqs : Brings(p, d)
          BY <2>1, <4>1, <4>2, <4>3 DEF DraftInv, Followed
        <4>5. p # r /\ p \in reqs'
          BY <1>3, <3>3, <4>4 DEF Brings
        <4>6. QED
          BY <4>1, <4>4, <4>5 DEF Brings
      <3>4. QED
        BY <2>2, <3>1, <3>2, <3>3
    <2>9. Charges'
      <3> SUFFICES ASSUME NEW d \in Numbers, charged'[d] > 0
                   PROVE  /\ Has(draft, d)' \/ \E p \in reqs' : Reads(p, d)'
                          /\ \A p \in reqs' : Charging(p) /\ p.phase # "reload" => Has(p.base, d)'
        BY DEF Charges, Charging
      \* A list that is accepted is shown, or read back.
      <3>1. CASE Charging(r) /\ ~ r.left
        <4>1. order = d
          BY <2>4, <2>7 DEF OneDraft
        <4>2. r.id = d /\ charged'[d] = r.v
          BY <1>9, <2>3, <3>1, <4>1
        <4>3. \A p \in reqs : Charging(p) => p = r
          BY <3>1 DEF OneList
        <4>4. \A p \in reqs' : Charging(p) => p = q /\ q.phase = "reload"
          BY <1>3, <1>6, <4>3
        <4>5. CASE r.op.answers
          <5>1. draft' # None /\ draft'.id = d /\ draft'.v >= charged'[d]
            BY <1>7, <1>8, <4>2, <4>5
          <5>2. QED
            BY <4>4, <5>1 DEF Has
        <4>6. CASE ~ r.op.answers
          <5>1. page.reads = "order"
            BY <1>4, <3>1, <4>6, ListOps DEF Fitting, Charging
          <5>2. ReadBack(r) = d /\ ReadBack(r) # None
            BY <1>4, <4>2, <5>1, KnownDrafts DEF ReadBack
          <5>3. q \in reqs' /\ q.phase = "reload" /\ q.id = d /\ ~ q.served /\ Charging(q)
            BY <1>3, <1>6, <3>1, <4>6, <5>2 DEF Charging
          <5>4. PICK p \in reqs' : p.phase = "reload" /\ p.id = d /\ ~ p.served /\ Charging(p)
            BY <5>3
          <5>5. Reads(p, d)'
            BY <5>4 DEF Reads, Charging
          <5>6. QED
            BY <4>4, <5>4, <5>5
        <4>7. QED
          BY <4>5, <4>6
      <3>2. CASE ~ Charging(r) \/ r.left
        <4>1. charged' = charged
          BY <1>9, <3>2
        <4>2. /\ Has(draft, d) \/ \E p \in reqs : Reads(p, d)
              /\ \A p \in reqs : Charging(p) /\ p.phase # "reload" => Has(p.base, d)
          BY <2>1, <4>1 DEF DraftInv, Charges
        <4>3. \A p \in reqs' : Charging(p) /\ p.phase # "reload" => Has(p.base, d)'
          BY <1>3, <1>6, <4>1, <4>2 DEF Has
        <4>4. Has(draft, d) => Has(draft, d)'
          <5>1. CASE r.op.answers /\ Has(draft, d)
            <6>1. draft.id = order /\ r.id = order /\ r.v >= draft.v
              BY <2>1, <2>2, <2>3, <5>1 DEF Has, DraftInv, OneDraft
            <6>2. draft.v \in Nat /\ charged[d] \in Nat
              BY <5>1 DEF Has, Types
            <6>3. QED
              BY <1>7, <1>8, <4>1, <5>1, <6>1, <6>2 DEF Has
          <5>2. CASE ~ r.op.answers
            BY <1>7, <4>1, <5>2 DEF Has
          <5>3. QED
            BY <5>1, <5>2
        <4>5. ASSUME NEW p \in reqs, Reads(p, d) PROVE p \in reqs' /\ Reads(p, d)'
          <5>1. p # r
            BY <1>3, <4>5 DEF Reads
          <5>2. QED
            BY <1>3, <4>1, <4>5, <5>1 DEF Reads, Charging
        <4>6. QED
          BY <4>2, <4>3, <4>4, <4>5
      <3>3. QED
        BY <3>1, <3>2
    <2>10. QED
      BY <2>6, <2>7, <2>8, <2>9 DEF DraftInv
  <1>14. QED
    BY <1>10, <1>11, <1>12, <1>13

-----------------------------------------------------------------------------
LEMMA StutterInv == ASSUME Inv, UNCHANGED vars PROVE Inv'
  BY DEF vars, Inv, Types, Known, Fitting, Behind, OneList, Undisturbed, DraftInv, OwnBusiness, OneDraft,
         Opening, Followed, Shown, Brings, Charges, Charging, Has, Reads

LEMMA InvStep == Inv /\ [Next]_vars => Inv'
  BY PressInv, ChangeBusinessInv, ServeInv, CreatedInv, LoadedInv, NextItemInv, WorkedInv, RefusedInv,
     LoadFailsInv, StutterInv DEF Next

LEMMA InvAlways == Spec => []Inv
  BY InitInv, InvStep, PTL DEF Spec

\* What was added to a sale is on the screen once everything is answered, on any
\* page: for as long as nothing failed and no answer was out of turn, whatever was
\* acknowledged is shown or followed by a load that brings it, and a list of
\* charges is made from a draft that has those accepted before.
THEOREM SaleIsShown == Spec => []LinesAreShown
  <1>1. ASSUME Inv, Undisturbed PROVE (reqs = {} => AddedIsShown) /\ ChargesAreKept
    <2>1. DraftInv
      BY <1>1 DEF Inv
    <2>2. reqs = {} => AddedIsShown
      BY <2>1 DEF DraftInv, Followed, Shown, AddedIsShown
    <2>3. ASSUME NEW r \in reqs, r.op # None, r.phase = "work", ~ r.left
          PROVE  /\ r.base # None => r.base.id = r.id
                 /\ r.op.replaces /\ charged[r.id] > 0 => r.base # None /\ r.base.v >= charged[r.id]
      <3>1. r.id = order /\ (r.base # None => r.base.id = order)
        BY <2>1, <2>3 DEF DraftInv, OneDraft
      <3>2. r.id \in Numbers
        BY <1>1, <2>3, KnownDrafts DEF Inv, Types, Fitting
      <3>3. r.op.replaces /\ charged[r.id] > 0 => Has(r.base, r.id)
        BY <2>1, <2>3, <3>2 DEF DraftInv, Charges, Charging
      <3>4. QED
        BY <3>1, <3>3 DEF Has
    <2>4. ChargesAreKept
      BY <2>3 DEF ChargesAreKept
    <2>5. QED
      BY <2>2, <2>4
  <1>2. Inv => LinesAreShown
    BY <1>1 DEF LinesAreShown, Undisturbed
  <1>3. QED
    BY <1>2, InvAlways, PTL
=============================================================================
