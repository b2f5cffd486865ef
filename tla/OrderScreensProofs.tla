------------------------- MODULE OrderScreensProofs -------------------------
(***************************************************************************)
(* What OrderScreens promises of every screen, for any orders and any      *)
(* number of requests under way: operations go to the order the screen was *)
(* opened on, and what they wrote ends up on the screen.                   *)
(***************************************************************************)
EXTENDS OrderScreens, TLAPS, FiniteSetTheorems, SequenceTheorems

Chains == {<<>>, <<"refresh">>, <<"copy", "refresh">>}
Kinds == {"detail", "op", "copy", "refresh", "panel", "form"}
ReqType == [what : Kinds, of : Orders,
            op : Operation \cup {None}, page : Orders \cup {None}, own : Orders \cup {None},
            at : Orders \cup {None}, left : BOOLEAN, then : Chains, fields : Orders \cup {None},
            part : Nat, served : BOOLEAN, v : Versions, rows : BOOLEAN,
            dropped : BOOLEAN, late : BOOLEAN]

\* The types of the state the screen is made of.
TypeInv ==
  /\ screen \in Screens
  /\ server \in [Orders -> Versions] /\ saved \in [Orders -> Versions]
  /\ asked \in Orders \cup {None}
  /\ held \in Copy \cup {None} /\ local \in Copy \cup {None} /\ panel \in Copy \cup {None}
  /\ forms \in [screen.ops -> Orders \cup {None}]
  /\ loading \in BOOLEAN /\ crossed \in BOOLEAN /\ reordered \in BOOLEAN /\ partly \in BOOLEAN
  /\ reqs \in Seq(ReqType)
  /\ failed \in Nat /\ acts \in Nat
  /\ ~screen.copies => local = None

\* What a request says of the order it was made for.
OpOK(r) == r.what = "op" => /\ r.op \in screen.ops /\ r.page # None /\ r.then = <<>>
                           /\ r.part \in 1 .. r.op.parts
                           /\ (~crossed => r.own = r.of /\ r.at = r.of /\ r.fields \in {None, r.of})
ReqOK(r) ==
  /\ ~r.left => asked # None /\ r.page = asked
  /\ LoadsOrder(r) => r.of = r.page
  /\ r.what = "copy" => screen.copies /\ r.of = r.own
  /\ OpOK(r)
  /\ ~crossed => r.own \in {None, r.page} /\ r.of = r.page
  /\ r.then # <<>> => r.op # None /\ r.page # None /\ (~crossed => r.own = r.of)
  /\ r.then = <<"copy", "refresh">> => screen.copies

ReqsInv == \A j \in DOMAIN reqs : ReqOK(reqs[j])

\* Until an answer of an earlier dialog has been applied, the screen has
\* nothing of another order.
ScreenInv ==
  ~crossed => /\ IdOf(held) \in {None, asked} /\ IdOf(local) \in {None, asked}
              /\ IdOf(panel) \in {None, asked}
FormsInv == ~crossed => \A op \in DOMAIN forms : forms[op] \in {None, asked}

\* The dialog has a copy of its own, and works, only once the page has loaded
\* the order.
Works(r) == r.what \in {"op", "copy"} \/ r.then # <<>>
KeptInv ==
  screen.copies /\ ~crossed /\ held = None =>
    local = None /\ \A j \in DOMAIN reqs : reqs[j].left \/ ~Works(reqs[j])

OrderInv == ReqsInv /\ ScreenInv /\ KeptInv

\* What the page knows it has written, it has written; what is answered is not
\* newer than the server.
WrittenInv ==
  /\ \A o \in Orders : saved[o].order <= server[o].order /\ saved[o].panel <= server[o].panel
  /\ \A j \in DOMAIN reqs : reqs[j].served =>
       reqs[j].v.order <= server[reqs[j].of].order /\ reqs[j].v.panel <= server[reqs[j].of].panel
  /\ screen.panel.loads = "none" => \A o \in Orders : saved[o].panel = 0
  /\ \A j \in DOMAIN reqs : reqs[j].dropped => reqs[j].what \in {"op", "panel"}

\* The answer of r is one the property excepts; it is older than what was
\* saved; it would put that on the screen; it, or what follows it, puts on the
\* screen what was saved.
Spoils(r) == r.left \/ r.late
VersionOf(v, part) == IF part = "order" THEN v.order ELSE v.panel
Old(r, part) == r.served /\ VersionOf(r.v, part) < VersionOf(saved[r.of], part)
Puts(r, part) == part \in Fills(r) /\ ~ (part = "panel" /\ Empties(r))
Behind(r, part) == ~r.dropped /\ Puts(r, part) /\ ~Spoils(r) /\ Old(r, part)
\* Something follows the answer of r that will bring part to the screen.
Leads(r, part) ==
  \/ part = "order" /\ r.what = "panel" /\ r.then = <<"copy", "refresh">>
  \/ part = "order" /\ r.what = "op" /\ r.part > 1
  \/ part = "panel" /\ LoadsOrder(r) /\ screen.panel.loads = "after"
Brings(r, part) ==
  /\ ~r.dropped
  /\ \/ /\ Puts(r, part) /\ (Old(r, part) => Spoils(r))
        /\ part = "order" /\ screen.copies => r.what = "copy"
     \/ Leads(r, part)

StaleOrder == shown # None /\ shown.v < saved[shown.of].order
StalePanel == panel # None /\ panel.v < saved[panel.of].panel
Stale(part) == IF part = "order" THEN StaleOrder ELSE StalePanel

\* Whatever is older than what was saved, on the screen or on its way to it,
\* is followed by an answer that is not.
Calm == failed = 0 /\ ~partly /\ ~reordered /\ ~crossed
CaughtUp(part) ==
  /\ Stale(part) => \E k \in DOMAIN reqs : Brings(reqs[k], part)
  /\ \A j \in DOMAIN reqs : Behind(reqs[j], part) => \E k \in DOMAIN reqs : k > j /\ Brings(reqs[k], part)
FollowInv == Calm => CaughtUp("order") /\ CaughtUp("panel")

IInv == TypeInv /\ OrderInv /\ FormsInv /\ WrittenInv /\ FollowInv

-----------------------------------------------------------------------------
(* The pieces of the state. *)

\* The orders and their copies, and None.
Order0 == Orders \cup {None}
Copy0 == Copy \cup {None}

LEMMA NoneIsNone == None \notin Orders /\ None \notin Operation /\ None \notin Copy
BY OrdersAssumption DEF Copy

LEMMA IdType ==
  ASSUME NEW x \in Copy0
  PROVE  IdOf(x) \in Order0 /\ (IdOf(x) = None <=> x = None)
BY NoneIsNone DEF IdOf, Copy0, Order0, Copy

LEMMA CopyType ==
  ASSUME NEW o \in Orders, NEW n \in Nat
  PROVE  [of |-> o, v |-> n] \in Copy
BY DEF Copy

LEMMA ShownType ==
  ASSUME NEW a \in Order0, NEW h \in Copy0, NEW l \in Copy0
  PROVE  Prop(a, h) \in Copy0 /\ Shown(Prop(a, h), l) \in Copy0
BY DEF Prop, Shown, Copy0

From == [page : Order0, own : Order0, at : Order0, left : BOOLEAN]

LEMMA RequestType ==
  ASSUME NEW what \in Kinds, NEW of \in Orders,
         NEW op \in Operation \cup {None}, NEW from, from.page \in Order0, from.own \in Order0,
         from.at \in Order0, from.left \in BOOLEAN, NEW then \in Chains
  PROVE  Request(what, of, op, from, then) \in ReqType
<1>1. Zero \in Versions
  BY DEF Zero, Versions
<1> HIDE DEF Zero, Versions
<1> QED BY <1>1 DEF Request, ReqType, Order0

LEMMA RequestFields ==
  ASSUME NEW what, NEW of, NEW op, NEW from, NEW then
  PROVE  LET r == Request(what, of, op, from, then)
         IN /\ r.what = what /\ r.of = of /\ r.op = op /\ r.page = from.page /\ r.own = from.own
            /\ r.at = from.at /\ r.fields = None /\ r.part = 1 /\ ~r.rows
            /\ r.left = from.left /\ r.then = then /\ ~r.served /\ ~r.dropped /\ ~r.late
BY DEF Request

LEMMA DetailType ==
  ASSUME NEW o \in Orders
  PROVE  /\ Detail(o) \in ReqType
         /\ Detail(o).what = "detail" /\ Detail(o).of = o /\ Detail(o).op = None
         /\ Detail(o).page = o /\ Detail(o).own = None /\ ~Detail(o).left
         /\ Detail(o).then = <<>> /\ ~Detail(o).served /\ ~Detail(o).dropped /\ ~Detail(o).late
<1> DEFINE from == [page |-> o, own |-> None, at |-> None, left |-> FALSE]
<1>1. from.page = o /\ from.own = None /\ from.at = None /\ ~from.left /\ from.left \in BOOLEAN
  OBVIOUS
<1>2. <<>> \in Chains
  BY DEF Chains
<1>3. Detail(o) = Request("detail", o, None, from, <<>>)
  BY DEF Detail
<1>4. from.page \in Order0 /\ from.own \in Order0 /\ from.at \in Order0 /\ "detail" \in Kinds
  BY <1>1 DEF Order0, Kinds
<1> HIDE DEF from
<1>5. Detail(o) \in ReqType
  BY <1>1, <1>2, <1>3, <1>4, RequestType
<1> QED BY <1>1, <1>3, <1>5, RequestFields

-----------------------------------------------------------------------------
(* Requests grow older: they are left, overtaken, dropped, nothing else. *)

Aged(r, q) ==
  /\ q.what = r.what /\ q.of = r.of /\ q.op = r.op /\ q.page = r.page /\ q.own = r.own
  /\ q.at = r.at /\ q.fields = r.fields /\ q.part = r.part /\ q.rows = r.rows
  /\ q.then = r.then /\ q.served = r.served /\ q.v = r.v
  /\ (r.left => q.left) /\ (r.late => q.late) /\ (r.dropped => q.dropped)

LEMMA FlagType ==
  ASSUME NEW r \in ReqType, NEW b \in BOOLEAN
  PROVE  /\ [r EXCEPT !.left = b] \in ReqType
         /\ [r EXCEPT !.late = b] \in ReqType
         /\ [r EXCEPT !.dropped = b] \in ReqType
<1> HIDE DEF Versions, Operation, Chains
<1>1. [r EXCEPT !.left = b] \in ReqType
  BY DEF ReqType
<1>2. [r EXCEPT !.late = b] \in ReqType
  BY DEF ReqType
<1>3. [r EXCEPT !.dropped = b] \in ReqType
  BY DEF ReqType
<1> QED BY <1>1, <1>2, <1>3

LEMMA FlagFields ==
  ASSUME NEW r \in ReqType, NEW b \in BOOLEAN
  PROVE  /\ [r EXCEPT !.left = r.left \/ b].left = (r.left \/ b)
         /\ [r EXCEPT !.left = r.left \/ b].late = r.late
         /\ [r EXCEPT !.left = r.left \/ b].dropped = r.dropped
         /\ Aged(r, [r EXCEPT !.left = r.left \/ b])
         /\ [r EXCEPT !.late = r.late \/ b].left = r.left
         /\ [r EXCEPT !.late = r.late \/ b].late = (r.late \/ b)
         /\ [r EXCEPT !.late = r.late \/ b].dropped = r.dropped
         /\ Aged(r, [r EXCEPT !.late = r.late \/ b])
         /\ [r EXCEPT !.dropped = r.dropped \/ b].left = r.left
         /\ [r EXCEPT !.dropped = r.dropped \/ b].late = r.late
         /\ [r EXCEPT !.dropped = r.dropped \/ b].dropped = (r.dropped \/ b)
         /\ Aged(r, [r EXCEPT !.dropped = r.dropped \/ b])
<1> USE DEF Aged, ReqType
<1>1. /\ [r EXCEPT !.left = r.left \/ b].left = (r.left \/ b)
      /\ [r EXCEPT !.left = r.left \/ b].late = r.late
      /\ [r EXCEPT !.left = r.left \/ b].dropped = r.dropped
      /\ Aged(r, [r EXCEPT !.left = r.left \/ b])
  OBVIOUS
<1>2. /\ [r EXCEPT !.late = r.late \/ b].left = r.left
      /\ [r EXCEPT !.late = r.late \/ b].late = (r.late \/ b)
      /\ [r EXCEPT !.late = r.late \/ b].dropped = r.dropped
      /\ Aged(r, [r EXCEPT !.late = r.late \/ b])
  OBVIOUS
<1>3. /\ [r EXCEPT !.dropped = r.dropped \/ b].left = r.left
      /\ [r EXCEPT !.dropped = r.dropped \/ b].late = r.late
      /\ [r EXCEPT !.dropped = r.dropped \/ b].dropped = (r.dropped \/ b)
      /\ Aged(r, [r EXCEPT !.dropped = r.dropped \/ b])
  OBVIOUS
<1> HIDE DEF Aged, ReqType
<1> QED BY <1>1, <1>2, <1>3

\* The place a request had among those under way before the i-th was answered.
Was(i, m) == IF m < i THEN m ELSE m + 1

LEMMA OthersAt ==
  ASSUME reqs \in Seq(ReqType), NEW i \in DOMAIN reqs
  PROVE  /\ Others(i) \in Seq(ReqType) /\ Len(Others(i)) = Len(reqs) - 1
         /\ \A m \in DOMAIN Others(i) :
              /\ Was(i, m) \in DOMAIN reqs /\ Was(i, m) # i
              /\ Aged(reqs[Was(i, m)], Others(i)[m])
              /\ Others(i)[m].left = reqs[Was(i, m)].left
              /\ Others(i)[m].dropped = reqs[Was(i, m)].dropped
              /\ m < i /\ Fills(reqs[m]) \cap Fills(reqs[i]) # {} => Others(i)[m].late
<1>1. /\ Len(reqs) \in Nat /\ DOMAIN reqs = 1 .. Len(reqs) /\ i \in 1 .. Len(reqs)
      /\ \A k \in 1 .. Len(reqs) : reqs[k] \in ReqType
  OBVIOUS
<1>2. ASSUME NEW m \in 1 .. Len(reqs) - 1
      PROVE  /\ Was(i, m) \in 1 .. Len(reqs) /\ Was(i, m) # i
             /\ Others(i)[m] \in ReqType
             /\ Aged(reqs[Was(i, m)], Others(i)[m])
             /\ Others(i)[m].left = reqs[Was(i, m)].left
             /\ Others(i)[m].dropped = reqs[Was(i, m)].dropped
             /\ m < i /\ Fills(reqs[m]) \cap Fills(reqs[i]) # {} => Others(i)[m].late
  <2>1. CASE m < i
    <3> DEFINE b == Fills(reqs[m]) \cap Fills(reqs[i]) # {}
    <3>1. Others(i)[m] = [reqs[m] EXCEPT !.late = reqs[m].late \/ b]
      BY <1>1, <2>1 DEF Others
    <3>2. reqs[m] \in ReqType /\ Was(i, m) = m /\ b \in BOOLEAN
      BY <1>1, <2>1 DEF Was
    <3>3. reqs[m].late \/ b \in BOOLEAN
      OBVIOUS
    <3>4. m \in 1 .. Len(reqs) /\ m # i
      BY <1>1, <2>1
    <3> HIDE DEF b
    <3>5. Others(i)[m] \in ReqType
      BY <3>1, <3>2, <3>3, FlagType
    <3>6. /\ [reqs[m] EXCEPT !.late = reqs[m].late \/ b].left = reqs[m].left
          /\ [reqs[m] EXCEPT !.late = reqs[m].late \/ b].late = (reqs[m].late \/ b)
          /\ [reqs[m] EXCEPT !.late = reqs[m].late \/ b].dropped = reqs[m].dropped
          /\ Aged(reqs[m], [reqs[m] EXCEPT !.late = reqs[m].late \/ b])
      BY <3>2, FlagFields
    <3>7. (Fills(reqs[m]) \cap Fills(reqs[i]) # {}) => b
      BY DEF b
    <3> QED BY <3>1, <3>2, <3>4, <3>5, <3>6, <3>7
  <2>2. CASE ~ (m < i)
    <3>1. Others(i)[m] = reqs[m + 1] /\ Was(i, m) = m + 1
      BY <1>1, <2>2 DEF Others, Was
    <3>2. m + 1 \in 1 .. Len(reqs) /\ m + 1 # i
      BY <1>1, <2>2
    <3> QED BY <1>1, <2>2, <3>1, <3>2 DEF Aged
  <2> QED BY <2>1, <2>2
<1>3. Others(i) = [m \in 1 .. Len(reqs) - 1 |-> Others(i)[m]]
  BY DEF Others
<1>4. Len(reqs) - 1 \in Nat
  BY <1>1
<1> DEFINE f == Others(i)
<1> HIDE DEF f
<1>5. f \in [1 .. Len(reqs) - 1 -> ReqType]
  BY <1>2, <1>3 DEF f
<1>6. f \in Seq(ReqType) /\ Len(f) = Len(reqs) - 1 /\ DOMAIN f = 1 .. Len(reqs) - 1
  BY <1>4, <1>5
<1> QED BY <1>1, <1>2, <1>6 DEF f

\* Closing the dialog leaves every request behind.
LEMMA LeavesAt ==
  ASSUME NEW rs \in Seq(ReqType)
  PROVE  /\ Leaves(rs) \in Seq(ReqType) /\ Len(Leaves(rs)) = Len(rs)
         /\ \A m \in DOMAIN Leaves(rs) : /\ m \in DOMAIN rs /\ Aged(rs[m], Leaves(rs)[m]) /\ Leaves(rs)[m].left
                                       /\ Leaves(rs)[m].dropped = rs[m].dropped
<1>1. Len(rs) \in Nat /\ DOMAIN rs = 1 .. Len(rs) /\ \A k \in 1 .. Len(rs) : rs[k] \in ReqType
  OBVIOUS
<1>2. ASSUME NEW m \in 1 .. Len(rs)
      PROVE  /\ Leaves(rs)[m] \in ReqType /\ Aged(rs[m], Leaves(rs)[m]) /\ Leaves(rs)[m].left
             /\ Leaves(rs)[m].dropped = rs[m].dropped
  <2>1. Leaves(rs)[m] = [rs[m] EXCEPT !.left = TRUE]
    BY <1>1 DEF Leaves
  <2>2. rs[m] \in ReqType /\ (rs[m].left \/ TRUE) = TRUE
    BY <1>1
  <2>3. /\ [rs[m] EXCEPT !.left = rs[m].left \/ TRUE].left = (rs[m].left \/ TRUE)
        /\ [rs[m] EXCEPT !.left = rs[m].left \/ TRUE].dropped = rs[m].dropped
        /\ Aged(rs[m], [rs[m] EXCEPT !.left = rs[m].left \/ TRUE])
    BY <2>2, FlagFields
  <2> QED BY <2>1, <2>2, <2>3, FlagType
<1>3. Leaves(rs) = [m \in 1 .. Len(rs) |-> Leaves(rs)[m]]
  BY <1>1 DEF Leaves
<1> DEFINE f == Leaves(rs)
<1> HIDE DEF f
<1>4. f \in [1 .. Len(rs) -> ReqType]
  BY <1>2, <1>3 DEF f
<1>5. f \in Seq(ReqType) /\ Len(f) = Len(rs) /\ DOMAIN f = 1 .. Len(rs)
  BY <1>1, <1>4
<1> QED BY <1>1, <1>2, <1>5 DEF f

\* What an effect of the order's id does to the requests under way: it starts
\* the load of the shipments where there is a dialog on an order, and drops
\* earlier loads of that kind.
Started(f, rs) == Len(f) = Len(rs) + 1

LEMMA FollowsAt ==
  ASSUME NEW rs \in Seq(ReqType), NEW a \in Order0, NEW d \in Order0, NEW from,
         from.page \in Order0, from.own \in Order0, from.at \in Order0, from.left \in BOOLEAN
  PROVE  LET f == Follows(rs, a, d, from)
         IN /\ f \in Seq(ReqType)
            /\ Len(f) = Len(rs) \/ Started(f, rs)
            /\ Started(f, rs) => /\ d # None /\ a # None
                                 /\ f[Len(f)] = Request("panel", d, None, from, <<>>)
            /\ \A m \in DOMAIN rs :
                 /\ m \in DOMAIN f /\ Aged(rs[m], f[m])
                 /\ f[m].left = rs[m].left /\ f[m].late = rs[m].late
                 /\ \/ f[m].dropped = rs[m].dropped
                    \/ rs[m].what = "panel" /\ rs[m].op = None /\ (a # None /\ d # None => Started(f, rs))
<1> DEFINE f == Follows(rs, a, d, from)
           g == [j \in DOMAIN rs |->
                   [rs[j] EXCEPT !.dropped = @ \/ (rs[j].what = "panel" /\ rs[j].op = None /\ screen.panel.guards)]]
           new == Request("panel", d, None, from, <<>>)
<1>1. Len(rs) \in Nat /\ DOMAIN rs = 1 .. Len(rs) /\ \A k \in 1 .. Len(rs) : rs[k] \in ReqType
  OBVIOUS
<1>2. ASSUME NEW m \in 1 .. Len(rs)
      PROVE  /\ g[m] \in ReqType /\ Aged(rs[m], g[m])
             /\ g[m].left = rs[m].left /\ g[m].late = rs[m].late
             /\ g[m].dropped = rs[m].dropped \/ (rs[m].what = "panel" /\ rs[m].op = None)
  <2> DEFINE b == rs[m].what = "panel" /\ rs[m].op = None /\ screen.panel.guards
  <2>1. g[m] = [rs[m] EXCEPT !.dropped = rs[m].dropped \/ b]
    BY <1>1
  <2>2. rs[m] \in ReqType /\ b \in BOOLEAN /\ (rs[m].dropped \/ b) \in BOOLEAN
    BY <1>1
  <2>3. b => rs[m].what = "panel" /\ rs[m].op = None
    OBVIOUS
  <2> HIDE DEF g, b
  <2>4. /\ [rs[m] EXCEPT !.dropped = rs[m].dropped \/ b].left = rs[m].left
        /\ [rs[m] EXCEPT !.dropped = rs[m].dropped \/ b].late = rs[m].late
        /\ [rs[m] EXCEPT !.dropped = rs[m].dropped \/ b].dropped = (rs[m].dropped \/ b)
        /\ Aged(rs[m], [rs[m] EXCEPT !.dropped = rs[m].dropped \/ b])
    BY <2>2, FlagFields
  <2>5. rs[m].dropped \in BOOLEAN
    BY <2>2 DEF ReqType
  <2> QED BY <2>1, <2>2, <2>3, <2>4, <2>5, FlagType
<1>3. g = [m \in 1 .. Len(rs) |-> g[m]]
  BY <1>1
<1>4. d # None => new \in ReqType
  BY RequestType DEF Order0, Chains, Kinds
<1>5. \/ f = rs
      \/ f = g \o <<>> /\ (a = None \/ d = None)
      \/ f = g \o <<new>> /\ a # None /\ d # None
  BY DEF Follows
<1> HIDE DEF f, g, new
<1>6. g \in Seq(ReqType) /\ g \o <<>> = g /\ Len(g) = Len(rs) /\ DOMAIN g = 1 .. Len(rs)
  <2>1. g \in [1 .. Len(rs) -> ReqType]
    BY <1>2, <1>3
  <2> QED BY <1>1, <2>1
<1>7. /\ f \in Seq(ReqType)
      /\ Len(f) = Len(rs) \/ Started(f, rs)
      /\ Started(f, rs) => d # None /\ a # None /\ f[Len(f)] = new
      /\ \A m \in DOMAIN rs :
           /\ m \in DOMAIN f /\ Aged(rs[m], f[m])
           /\ f[m].left = rs[m].left /\ f[m].late = rs[m].late
           /\ \/ f[m].dropped = rs[m].dropped
              \/ rs[m].what = "panel" /\ rs[m].op = None /\ (a # None /\ d # None => Started(f, rs))
  <2>0. Len(rs) # Len(rs) + 1
    <3>1. \A n \in Nat : n # n + 1
      OBVIOUS
    <3>2. Len(rs) \in Nat
      BY <1>1
    <3> QED BY <3>1, <3>2
  <2>1. CASE f = rs
    <3>1. Len(f) = Len(rs) /\ f \in Seq(ReqType) /\ DOMAIN f = DOMAIN rs
      BY <2>1
    <3>3. ~ Started(f, rs)
      BY <2>1, <2>0 DEF Started
    <3>2. \A m \in DOMAIN rs : Aged(rs[m], rs[m])
      BY DEF Aged
    <3> QED BY <2>1, <3>1, <3>2, <3>3
  <2>2. CASE f = g \o <<>> /\ (a = None \/ d = None)
    <3>1. f = g
      BY <1>6, <2>2
    <3>2. Len(f) = Len(rs) /\ f \in Seq(ReqType) /\ DOMAIN f = 1 .. Len(rs)
      BY <1>6, <3>1
    <3>3. ~ Started(f, rs)
      BY <2>0, <3>2 DEF Started
    <3> QED BY <1>1, <1>2, <2>2, <3>1, <3>2, <3>3
  <2>3. CASE f = g \o <<new>> /\ a # None /\ d # None
    <3>1. <<new>> \in Seq(ReqType) /\ Len(<<new>>) = 1 /\ <<new>>[1] = new
      BY <1>4, <2>3
    <3>2. f \in Seq(ReqType) /\ Len(f) = Len(rs) + 1
      BY <1>1, <1>6, <2>3, <3>1
    <3>3. f[Len(rs) + 1] = new
      BY <1>1, <1>6, <2>3, <3>1
    <3>4. \A m \in 1 .. Len(rs) : f[m] = g[m]
      BY <1>1, <1>6, <2>3, <3>1
    <3>5. \A m \in 1 .. Len(rs) : m \in DOMAIN f
      BY <1>1, <3>2
    <3>6. Started(f, rs)
      BY <3>2 DEF Started
    <3> QED BY <1>1, <1>2, <2>3, <3>2, <3>3, <3>4, <3>5, <3>6
  <2> QED BY <1>5, <2>1, <2>2, <2>3
<1> QED BY <1>7 DEF f, new

LEMMA LastPlace ==
  ASSUME NEW n \in Nat, NEW k \in Nat, k = n \/ k = n + 1, NEW m \in 1 .. k, m \notin 1 .. n
  PROVE  k = n + 1 /\ m = k
OBVIOUS

\* The loads an operation can be followed by.
AllChains == Chains \cup {<<"panel">>, <<"panel", "copy", "refresh">>}

LEMMA ChainParts ==
  /\ Head(<<"panel">>) = "panel" /\ Tail(<<"panel">>) = <<>>
  /\ Head(<<"refresh">>) = "refresh" /\ Tail(<<"refresh">>) = <<>>
  /\ Head(<<"copy", "refresh">>) = "copy" /\ Tail(<<"copy", "refresh">>) = <<"refresh">>
  /\ Head(<<"panel", "copy", "refresh">>) = "panel"
  /\ Tail(<<"panel", "copy", "refresh">>) = <<"copy", "refresh">>
  /\ <<"panel">> # <<>> /\ <<"refresh">> # <<>> /\ <<"copy", "refresh">> # <<>>
  /\ <<"panel", "copy", "refresh">> # <<>>
OBVIOUS

LEMMA ContinuesAt ==
  ASSUME NEW r, r.then \in AllChains, r.of \in Orders, r.op \in Operation \cup {None},
         r.page \in Order0, r.own \in Order0, r.at \in Order0, r.left \in BOOLEAN
  PROVE  \/ /\ Continues(r) = <<>>
            /\ \/ r.then = <<>>
               \/ Head(r.then) = "panel" /\ r.at = None
               \/ Head(r.then) = "copy" /\ r.own = None
               \/ Head(r.then) = "refresh" /\ r.page = None
         \/ /\ r.then # <<>>
            /\ \E q \in ReqType :
                 /\ Continues(r) = <<q>>
                 /\ q.what = Head(r.then) /\ q.then = Tail(r.then) /\ q.op = r.op
                 /\ q.page = r.page /\ q.own = r.own /\ q.at = r.at /\ q.left = r.left
                 /\ ~q.served /\ ~q.dropped /\ ~q.late
                 /\ q.what = "panel" => q.of = r.at
                 /\ q.what = "copy" => q.of = r.own
                 /\ q.what = "refresh" => q.of = r.page
<1>1. CASE r.then = <<>>
  BY <1>1 DEF Continues
<1>2. CASE r.then # <<>>
  <2> DEFINE n == Head(r.then)
             of == CASE n = "copy" -> r.own [] n = "refresh" -> r.page [] n = "panel" -> r.at
             q == Request(n, of, r.op, r, Tail(r.then))
  <2>1. n \in {"copy", "refresh", "panel"} /\ n \in Kinds /\ Tail(r.then) \in Chains
    BY <1>2, ChainParts DEF AllChains, Chains, Kinds
  <2>2. /\ n = "panel" => of = r.at
        /\ n = "copy" => of = r.own
        /\ n = "refresh" => of = r.page
    OBVIOUS
  <2>3. Continues(r) = IF of = None THEN <<>> ELSE <<q>>
    BY <1>2 DEF Continues
  <2>4. of \in Order0
    BY <2>1, <2>2 DEF Order0
  <2> HIDE DEF n, of
  <2>5. CASE of = None
    BY <2>1, <2>2, <2>3, <2>5, NoneIsNone DEF n
  <2>6. CASE of # None
    <3>1. of \in Orders
      BY <2>4, <2>6 DEF Order0
    <3>2. q \in ReqType
      BY <2>1, <3>1, RequestType
    <3>3. /\ q.what = n /\ q.of = of /\ q.op = r.op /\ q.page = r.page /\ q.own = r.own
          /\ q.at = r.at /\ q.left = r.left /\ q.then = Tail(r.then) /\ ~q.served /\ ~q.dropped /\ ~q.late
      BY RequestFields
    <3>4. Continues(r) = <<q>>
      BY <2>3, <2>6
    <3> HIDE DEF q
    <3> QED BY <1>2, <2>2, <3>2, <3>3, <3>4 DEF n
  <2> QED BY <2>5, <2>6
<1> QED BY <1>1, <1>2

LEMMA ConcatAt ==
  ASSUME NEW S, NEW s \in Seq(S), NEW t \in Seq(S)
  PROVE  /\ s \o t \in Seq(S) /\ Len(s \o t) = Len(s) + Len(t)
         /\ \A m \in DOMAIN s : m \in DOMAIN (s \o t) /\ (s \o t)[m] = s[m]
         /\ \A k \in DOMAIN t : Len(s) + k \in DOMAIN (s \o t) /\ (s \o t)[Len(s) + k] = t[k]
         /\ \A m \in DOMAIN (s \o t) : m \in DOMAIN s \/ \E k \in DOMAIN t : m = Len(s) + k
<1>1. s \o t \in Seq(S) /\ Len(s \o t) = Len(s) + Len(t) /\ Len(s) \in Nat /\ Len(t) \in Nat
  OBVIOUS
<1>2. /\ DOMAIN s = 1 .. Len(s) /\ DOMAIN t = 1 .. Len(t)
      /\ DOMAIN (s \o t) = 1 .. Len(s) + Len(t)
  OBVIOUS
<1>3. \A m \in DOMAIN s : m \in DOMAIN (s \o t) /\ (s \o t)[m] = s[m]
  BY <1>1, <1>2
<1>4. \A k \in DOMAIN t : Len(s) + k \in DOMAIN (s \o t) /\ (s \o t)[Len(s) + k] = t[k]
  BY <1>1, <1>2
<1>5. ASSUME NEW m \in DOMAIN (s \o t), m \notin DOMAIN s
      PROVE  \E k \in DOMAIN t : m = Len(s) + k
  <2>1. m - Len(s) \in DOMAIN t /\ m = Len(s) + (m - Len(s))
    BY <1>1, <1>2, <1>5
  <2> QED BY <2>1
<1> QED BY <1>1, <1>3, <1>4, <1>5

-----------------------------------------------------------------------------
(* Requests stay what they were made for. *)

LEMMA SameOK ==
  ASSUME NEW r, ReqOK(r), UNCHANGED <<screen, asked>>, crossed => crossed'
  PROVE  ReqOK(r)'
BY DEF ReqOK, OpOK

LEMMA AgedOK ==
  ASSUME NEW r, NEW q, ReqOK(r)', Aged(r, q), q.left = r.left
  PROVE  ReqOK(q)'
BY DEF ReqOK, OpOK, Aged, LoadsOrder

LEMMA LeftOK ==
  ASSUME NEW r, NEW q, ReqOK(r), Aged(r, q), q.left, UNCHANGED screen, crossed => crossed'
  PROVE  ReqOK(q)'
BY DEF ReqOK, OpOK, Aged, LoadsOrder

LEMMA FollowsOK ==
  ASSUME NEW rs \in Seq(ReqType), NEW a \in Order0, NEW d \in Order0, NEW from,
         from.page = a, from.own \in Order0, from.at \in Order0, from.left = FALSE,
         \A r \in Range(rs) : ReqOK(r)',
         asked' = a, ~crossed' /\ a # None /\ d # None => from.own \in {None, a} /\ d = a
  PROVE  \A r \in Range(Follows(rs, a, d, from)) : ReqOK(r)'
<1> DEFINE f == Follows(rs, a, d, from)
<1>1. /\ f \in Seq(ReqType)
      /\ Len(f) = Len(rs) \/ Started(f, rs)
      /\ Started(f, rs) => d # None /\ a # None /\ f[Len(f)] = Request("panel", d, None, from, <<>>)
      /\ \A m \in DOMAIN rs : m \in DOMAIN f /\ Aged(rs[m], f[m]) /\ f[m].left = rs[m].left
  <2>1. from.page \in Order0 /\ from.left \in BOOLEAN
    OBVIOUS
  <2> QED BY <2>1, FollowsAt
<1>2. \A m \in DOMAIN rs : ReqOK(rs[m])'
  <2>1. \A m \in DOMAIN rs : rs[m] \in Range(rs)
    BY DEF Range
  <2> QED BY <2>1
<1> HIDE DEF f
<1>3. ASSUME NEW m \in DOMAIN f, NEW q, q = f[m]
      PROVE  ReqOK(q)'
  <2>1. DOMAIN f = 1 .. Len(f) /\ DOMAIN rs = 1 .. Len(rs) /\ Len(rs) \in Nat /\ Len(f) \in Nat
    BY <1>1
  <2>2. CASE m \in DOMAIN rs
    <3>1. Aged(rs[m], q) /\ q.left = rs[m].left
      BY <1>1, <1>3, <2>2
    <3>2. ReqOK(rs[m])'
      BY <1>2, <2>2
    <3> QED BY <3>1, <3>2, AgedOK
  <2>3. CASE m \notin DOMAIN rs
    <3>1. Started(f, rs) /\ m = Len(f)
      <4>1. Len(f) = Len(rs) \/ Len(f) = Len(rs) + 1
        BY <1>1 DEF Started
      <4> QED BY <2>1, <2>3, <4>1, LastPlace DEF Started
    <3>2. q = Request("panel", d, None, from, <<>>) /\ d # None /\ a # None
      BY <1>1, <1>3, <3>1
    <3>3. /\ q.what = "panel" /\ q.of = d /\ q.page = from.page /\ q.own = from.own
          /\ q.left = from.left /\ q.then = <<>>
      BY <3>2, RequestFields
    <3> QED BY <3>2, <3>3 DEF ReqOK, OpOK, LoadsOrder
  <2> QED BY <2>2, <2>3
<1> QED BY <1>3 DEF Range, f

-----------------------------------------------------------------------------
(* What the actions do to the requests and to the server. *)

LEMMA ReqParts ==
  ASSUME NEW r \in ReqType
  PROVE  /\ r.what \in {"detail", "op", "copy", "refresh", "panel", "form"}
         /\ r.of \in Orders /\ r.op \in Operation \cup {None} /\ r.page \in Order0 /\ r.own \in Order0
         /\ r.at \in Order0 /\ r.fields \in Order0 /\ r.part \in Nat /\ r.rows \in BOOLEAN
         /\ r.left \in BOOLEAN /\ r.then \in Chains /\ r.served \in BOOLEAN
         /\ r.v \in Versions /\ r.v.order \in Nat /\ r.v.panel \in Nat
         /\ r.dropped \in BOOLEAN /\ r.late \in BOOLEAN
BY DEF ReqType, Order0, Versions, Kinds

LEMMA ReqAt ==
  ASSUME reqs \in Seq(ReqType), NEW i \in DOMAIN reqs
  PROVE  reqs[i] \in ReqType /\ Len(reqs) \in Nat /\ DOMAIN reqs = 1 .. Len(reqs) /\ i \in 1 .. Len(reqs)
OBVIOUS

LEMMA SingleSeq ==
  ASSUME NEW q \in ReqType
  PROVE  <<q>> \in Seq(ReqType) /\ Len(<<q>>) = 1 /\ DOMAIN <<q>> = {1} /\ <<q>>[1] = q
OBVIOUS

LEMMA NoSeq == <<>> \in Seq(ReqType) /\ Len(<<>>) = 0 /\ DOMAIN <<>> = {}
OBVIOUS

LEMMA ContinuesType ==
  ASSUME NEW r, r.then \in AllChains, r.of \in Orders, r.op \in Operation \cup {None},
         r.page \in Order0, r.own \in Order0, r.at \in Order0, r.left \in BOOLEAN
  PROVE  Continues(r) \in Seq(ReqType)
<1>1. Continues(r) = <<>> \/ \E q \in ReqType : Continues(r) = <<q>>
  BY ContinuesAt
<1> QED BY <1>1, SingleSeq, NoSeq

\* The loads after the operation of r.
LEMMA StepsAt ==
  ASSUME NEW r \in ReqType, r.what = "op"
  PROVE  /\ Steps(r.op)[1] \in AllChains /\ Steps(r.op)[2] \in AllChains
         /\ screen.copies /\ r.op.panel => Head(Steps(r.op)[1]) = "panel" /\ Steps(r.op)[1] # <<>>
         /\ screen.copies /\ r.op.panel /\ r.op.order => Steps(r.op)[1] = <<"panel", "copy", "refresh">>
         /\ screen.copies /\ ~r.op.panel /\ r.op.order => Steps(r.op)[1] = <<"copy", "refresh">>
         /\ ~screen.copies /\ r.op.order => Steps(r.op)[2] = <<"refresh">>
         /\ ~screen.copies /\ r.op.panel /\ (screen.panel.loads = "effect" \/ ~r.op.order)
              => Steps(r.op)[1] = <<"panel">>
<1> DEFINE p == r.op.panel
           o == r.op.order
           first == IF screen.copies
                    THEN (IF p THEN <<"panel">> ELSE <<>>) \o (IF o THEN <<"copy", "refresh">> ELSE <<>>)
                    ELSE IF p /\ (screen.panel.loads = "effect" \/ ~o) THEN <<"panel">> ELSE <<>>
           second == IF screen.copies THEN <<>> ELSE IF o THEN <<"refresh">> ELSE <<>>
<1>1. Steps(r.op)[1] = first /\ Steps(r.op)[2] = second
  BY DEF Steps
<1>2. /\ <<>> \o <<>> = <<>> /\ <<"panel">> \o <<>> = <<"panel">>
      /\ <<>> \o <<"copy", "refresh">> = <<"copy", "refresh">>
      /\ <<"panel">> \o <<"copy", "refresh">> = <<"panel", "copy", "refresh">>
  <2> DEFINE Links == {"copy", "refresh", "panel"}
  <2>1. <<>> \in Seq(Links) /\ <<"panel">> \in Seq(Links) /\ <<"copy", "refresh">> \in Seq(Links)
        /\ <<"panel", "copy", "refresh">> \in Seq(Links)
    OBVIOUS
  <2>2. \A x \in Seq(Links) : <<>> \o x = x /\ x \o <<>> = x
    BY ConcatEmptySeq
  <2> DEFINE s == <<"panel">> \o <<"copy", "refresh">>
             t == <<"panel", "copy", "refresh">>
  <2>3. s \in Seq(Links) /\ Len(s) = 3 /\ t \in Seq(Links) /\ Len(t) = 3
    BY <2>1
  <2>4. s[1] = t[1] /\ s[2] = t[2] /\ s[3] = t[3]
    BY <2>1
  <2>5. \A k \in 1 .. 3 : s[k] = t[k]
    BY <2>4
  <2>6. s = t
    <3> HIDE DEF s, t, Links
    <3> QED BY <2>3, <2>5
  <2> QED BY <2>1, <2>2, <2>6
<1>3. \/ screen.copies /\ p /\ o /\ first = <<"panel", "copy", "refresh">>
      \/ screen.copies /\ p /\ ~o /\ first = <<"panel">>
      \/ screen.copies /\ ~p /\ o /\ first = <<"copy", "refresh">>
      \/ screen.copies /\ ~p /\ ~o /\ first = <<>>
      \/ ~screen.copies /\ p /\ (screen.panel.loads = "effect" \/ ~o) /\ first = <<"panel">>
      \/ ~screen.copies /\ ~(p /\ (screen.panel.loads = "effect" \/ ~o)) /\ first = <<>>
  BY <1>2
<1>4. \/ screen.copies /\ second = <<>>
      \/ ~screen.copies /\ o /\ second = <<"refresh">>
      \/ ~screen.copies /\ ~o /\ second = <<>>
  OBVIOUS
<1>5. /\ Head(<<"panel">>) = "panel" /\ Head(<<"panel", "copy", "refresh">>) = "panel"
      /\ <<"panel">> # <<>> /\ <<"panel", "copy", "refresh">> # <<>>
  BY ChainParts
<1>6. {<<>>, <<"refresh">>, <<"copy", "refresh">>, <<"panel">>, <<"panel", "copy", "refresh">>} \subseteq AllChains
  BY DEF AllChains, Chains
<1> HIDE DEF first, second
<1> QED BY <1>1, <1>3, <1>4, <1>5, <1>6

\* The requests that survive the page's reloading itself.
LEMMA SentAt ==
  ASSUME reqs \in Seq(ReqType)
  PROVE  LET sent == SetToSeq({j \in DOMAIN reqs : reqs[j].what = "op"})
             kept == [k \in DOMAIN sent |-> [reqs[sent[k]] EXCEPT !.dropped = TRUE]]
         IN /\ kept \in Seq(ReqType)
            /\ \A q \in Range(kept) :
                 \E r \in Range(reqs) : r.what = "op" /\ Aged(r, q) /\ q.left = r.left /\ q.dropped
<1> DEFINE T == {j \in DOMAIN reqs : reqs[j].what = "op"}
           sent == SetToSeq(T)
           kept == [k \in DOMAIN sent |-> [reqs[sent[k]] EXCEPT !.dropped = TRUE]]
<1>1. DOMAIN reqs = 1 .. Len(reqs) /\ Len(reqs) \in Nat
  OBVIOUS
<1>2. IsFiniteSet(T)
  <2>1. IsFiniteSet(1 .. Len(reqs))
    BY <1>1, FS_Interval
  <2> QED BY <1>1, <2>1, FS_Subset
<1>3. Cardinality(T) \in Nat
  BY <1>2, FS_CardinalityType
<1>4. sent \in [1 .. Cardinality(T) -> T]
  <2> HIDE DEF T
  <2>1. ExistsBijection(1 .. Cardinality(T), T)
    BY <1>2, FS_CardinalityType
  <2>2. PICK f \in Bijection(1 .. Cardinality(T), T) : TRUE
    BY <2>1 DEF ExistsBijection
  <2>3. f \in [1 .. Cardinality(T) -> T] /\ IsInjective(f)
    BY <2>2 DEF Bijection, Injection
  <2> QED BY <2>3 DEF SetToSeq, sent
<1> HIDE DEF sent
<1>5. ASSUME NEW k \in 1 .. Cardinality(T)
      PROVE  /\ sent[k] \in DOMAIN reqs /\ kept[k] \in ReqType
             /\ reqs[sent[k]].what = "op" /\ Aged(reqs[sent[k]], kept[k])
             /\ kept[k].left = reqs[sent[k]].left /\ kept[k].dropped
  <2>1. sent[k] \in DOMAIN reqs /\ reqs[sent[k]].what = "op"
    BY <1>4
  <2>2. kept[k] = [reqs[sent[k]] EXCEPT !.dropped = TRUE]
    BY <1>4
  <2>3. reqs[sent[k]] \in ReqType
    BY <2>1
  <2> DEFINE r == reqs[sent[k]]
  <2> HIDE DEF r, kept, T
  <2>4. /\ [r EXCEPT !.dropped = r.dropped \/ TRUE].left = r.left
        /\ [r EXCEPT !.dropped = r.dropped \/ TRUE].dropped = (r.dropped \/ TRUE)
        /\ Aged(r, [r EXCEPT !.dropped = r.dropped \/ TRUE])
    BY <2>3, FlagFields DEF r
  <2>5. (r.dropped \/ TRUE) = TRUE
    OBVIOUS
  <2>6. [r EXCEPT !.dropped = TRUE] \in ReqType
    BY <2>3, FlagType DEF r
  <2> QED BY <2>1, <2>2, <2>4, <2>5, <2>6 DEF r
<1>6. kept = [k \in 1 .. Cardinality(T) |-> kept[k]]
  BY <1>4
<1>7. kept \in [1 .. Cardinality(T) -> ReqType]
  <2> HIDE DEF kept
  <2> QED BY <1>5, <1>6
<1>8. kept \in Seq(ReqType) /\ DOMAIN kept = 1 .. Cardinality(T)
  <2> HIDE DEF kept, T
  <2> QED BY <1>3, <1>7
<1>9. ASSUME NEW q \in Range(kept)
      PROVE  \E r \in Range(reqs) : r.what = "op" /\ Aged(r, q) /\ q.left = r.left /\ q.dropped
  <2> HIDE DEF kept, T
  <2>1. PICK k \in 1 .. Cardinality(T) : q = kept[k]
    BY <1>8 DEF Range
  <2>2. reqs[sent[k]] \in Range(reqs)
    BY <1>5 DEF Range
  <2> QED BY <1>5, <2>1, <2>2
<1> QED BY <1>8, <1>9 DEF sent

LEMMA RendersAt ==
  ASSUME TypeInv, NEW a \in Order0, NEW h \in Copy0, NEW l \in Copy0, NEW rs \in Seq(ReqType),
         Renders(a, h, l, rs)
  PROVE  /\ asked' = a /\ held' = h
         /\ local' = IF ~screen.copies THEN None
                     ELSE IF IdOf(Prop(a, h)) # IdOf(prop) THEN Prop(a, h) ELSE l
         /\ local' \in Copy0 /\ Prop(a, h) \in Copy0
         /\ prop' = Prop(a, h) /\ shown' = Shown(Prop(a, h), local')
         /\ IdOf(Prop(a, h)) \in Order0 /\ IdOf(Shown(Prop(a, h), local')) \in Order0
         /\ reqs' = Follows(rs, a, IdOf(Shown(Prop(a, h), local')),
                            [page |-> a, own |-> IdOf(Prop(a, h)), at |-> None, left |-> FALSE])
         /\ reqs' \in Seq(ReqType)
<1> DEFINE copy == IF ~screen.copies THEN None ELSE IF IdOf(Prop(a, h)) # IdOf(prop) THEN Prop(a, h) ELSE l
           from == [page |-> a, own |-> IdOf(Prop(a, h)), at |-> None, left |-> FALSE]
           d == IdOf(Shown(Prop(a, h), copy))
<1>1. asked' = a /\ held' = h /\ local' = copy /\ reqs' = Follows(rs, a, d, from)
  BY DEF Renders
<1>2. Prop(a, h) \in Copy0
  BY ShownType
<1>3. copy \in Copy0
  BY <1>2 DEF Copy0
<1>4. Shown(Prop(a, h), copy) \in Copy0
  BY <1>3, ShownType
<1>5. IdOf(Prop(a, h)) \in Order0 /\ d \in Order0
  BY <1>2, <1>4, IdType
<1>6. from.page = a /\ from.own = IdOf(Prop(a, h)) /\ from.at \in Order0 /\ from.left \in BOOLEAN
  BY DEF Order0
<1>7. prop' = Prop(a, h) /\ shown' = Shown(Prop(a, h), local')
  BY <1>1 DEF prop, shown, Prop, Shown
<1> HIDE DEF copy, from, d
<1>8. Follows(rs, a, d, from) \in Seq(ReqType)
  BY <1>5, <1>6, FollowsAt
<1> QED BY <1>1, <1>2, <1>3, <1>5, <1>7, <1>8 DEF copy, from, d

LEMMA ShownNow ==
  ASSUME TypeInv
  PROVE  /\ asked \in Order0 /\ held \in Copy0 /\ local \in Copy0 /\ panel \in Copy0
         /\ prop \in Copy0 /\ shown \in Copy0 /\ IdOf(prop) \in Order0 /\ IdOf(shown) \in Order0
         /\ reqs \in Seq(ReqType)
<1>1. asked \in Order0 /\ held \in Copy0 /\ local \in Copy0 /\ panel \in Copy0 /\ reqs \in Seq(ReqType)
  BY DEF TypeInv, Order0, Copy0
<1>2. prop \in Copy0 /\ shown \in Copy0
  BY <1>1, ShownType DEF prop, shown
<1> QED BY <1>1, <1>2, IdType

\* The server works on a request; versions only grow.
LEMMA ServeAt ==
  ASSUME TypeInv, NEW i \in DOMAIN reqs, Serve(i)
  PROVE  /\ server' \in [Orders -> Versions]
         /\ \A o \in Orders : server[o].order <= server'[o].order /\ server[o].panel <= server'[o].panel
         /\ reqs' \in Seq(ReqType) /\ Len(reqs') = Len(reqs)
         /\ \A m \in DOMAIN reqs : m # i => reqs'[m] = reqs[m]
         /\ LET r == reqs[i]
                q == reqs'[i]
            IN /\ q.what = r.what /\ q.of = r.of /\ q.op = r.op /\ q.page = r.page /\ q.own = r.own
               /\ q.left = r.left /\ q.late = r.late /\ q.dropped = r.dropped /\ q.then = r.then
               /\ q.at = r.at /\ q.fields = r.fields /\ q.part = r.part
               /\ ~r.served /\ q.served /\ q.v = server'[r.of]
<1> DEFINE r == reqs[i]
           o == r.of
           s == [server[o] EXCEPT !.order = IF r.op.order THEN @ + 1 ELSE @]
           t == [s EXCEPT !.panel = IF r.op.panel THEN @ + 1 ELSE @]
<1>1. r \in ReqType /\ o \in Orders /\ server \in [Orders -> Versions] /\ reqs \in Seq(ReqType)
  BY ReqAt, ReqParts DEF TypeInv
<1>2. server' = server \/ server' = [server EXCEPT ![o] = t]
  <2>1. [server EXCEPT ![o].order = IF r.op.order THEN @ + 1 ELSE @,
                       ![o].panel = IF r.op.panel THEN @ + 1 ELSE @] = [server EXCEPT ![o] = t]
    BY <1>1
  <2> QED BY <2>1 DEF Serve
<1>3. s \in Versions /\ s.order >= server[o].order /\ s.panel = server[o].panel
  <2> DEFINE n == IF r.op.order THEN server[o].order + 1 ELSE server[o].order
  <2>1. server[o] \in Versions /\ server[o].order \in Nat
    BY <1>1 DEF Versions
  <2>2. n = server[o].order + 1 \/ n = server[o].order
    OBVIOUS
  <2>3. s = [server[o] EXCEPT !.order = n]
    OBVIOUS
  <2> HIDE DEF n, s, o
  <2>4. n \in Nat /\ n >= server[o].order
    BY <2>1, <2>2
  <2> QED BY <2>1, <2>3, <2>4 DEF Versions
<1>4. t \in Versions /\ t.order >= server[o].order /\ t.panel >= server[o].panel
  <2> DEFINE n == IF r.op.panel THEN s.panel + 1 ELSE s.panel
  <2>1. s \in Versions /\ s.panel \in Nat /\ s.panel = server[o].panel /\ s.order >= server[o].order
    BY <1>3 DEF Versions
  <2>2. n = s.panel + 1 \/ n = s.panel
    OBVIOUS
  <2>3. t = [s EXCEPT !.panel = n]
    OBVIOUS
  <2> HIDE DEF n, s, o, t
  <2>4. n \in Nat /\ n >= server[o].panel
    BY <2>1, <2>2
  <2> QED BY <2>1, <2>3, <2>4 DEF Versions
<1>5. \A x \in Versions : x.order \in Nat /\ x.panel \in Nat
  BY DEF Versions
<1>6. /\ server' \in [Orders -> Versions]
      /\ \A p \in Orders : server[p].order <= server'[p].order /\ server[p].panel <= server'[p].panel
  <2> HIDE DEF t, o, Versions
  <2>1. CASE server' = server
    BY <1>1, <1>5, <2>1
  <2>2. CASE server' = [server EXCEPT ![o] = t]
    BY <1>1, <1>4, <1>5, <2>2
  <2> QED BY <1>2, <2>1, <2>2
<1>7. ~r.served /\ \E b \in BOOLEAN :
        reqs' = [reqs EXCEPT ![i] = [r EXCEPT !.served = TRUE, !.v = server'[o], !.rows = b]]
  <2> DEFINE B == IF screen.panel.loads = "after" /\ r.what \in {"detail", "refresh"} THEN BOOLEAN ELSE {FALSE}
  <2>1. B \subseteq BOOLEAN
    OBVIOUS
  <2>2. ~r.served /\ \E b \in B : reqs' = [reqs EXCEPT ![i].served = TRUE, ![i].v = server'[o], ![i].rows = b]
    BY DEF Serve
  <2> HIDE DEF B
  <2>3. PICK b \in B : reqs' = [reqs EXCEPT ![i].served = TRUE, ![i].v = server'[o], ![i].rows = b]
    BY <2>2
  <2>4. reqs' = [reqs EXCEPT ![i] = [r EXCEPT !.served = TRUE, !.v = server'[o], !.rows = b]]
    BY <1>1, <2>3
  <2> QED BY <2>1, <2>2, <2>4
<1> DEFINE answered(b) == [r EXCEPT !.served = TRUE, !.v = server'[o], !.rows = b]
<1>8. PICK b \in BOOLEAN : reqs' = [reqs EXCEPT ![i] = answered(b)]
  BY <1>7
<1> DEFINE q == answered(b)
<1>9. q \in ReqType
  <2>1. server'[o] \in Versions
    BY <1>1, <1>6
  <2>2. b \in BOOLEAN
    OBVIOUS
  <2> HIDE DEF r, o, Versions, Operation, Chains, Kinds
  <2> QED BY <1>1, <2>1, <2>2 DEF ReqType
<1>10. /\ q.what = r.what /\ q.of = r.of /\ q.op = r.op /\ q.page = r.page /\ q.own = r.own
      /\ q.left = r.left /\ q.late = r.late /\ q.dropped = r.dropped /\ q.then = r.then
      /\ q.at = r.at /\ q.fields = r.fields /\ q.part = r.part
      /\ q.served /\ q.v = server'[o]
  BY <1>1 DEF ReqType
<1>11. reqs' \in Seq(ReqType) /\ Len(reqs') = Len(reqs) /\ reqs'[i] = q
       /\ \A m \in DOMAIN reqs : m # i => reqs'[m] = reqs[m]
  <2>1. reqs' = [reqs EXCEPT ![i] = q]
    BY <1>8
  <2> HIDE DEF q, r
  <2> QED BY <1>1, <1>9, <2>1
<1> HIDE DEF q
<1> QED BY <1>6, <1>7, <1>10, <1>11

-----------------------------------------------------------------------------
(* Type correctness. *)

LEMMA TypesOf ==
  ASSUME screen' \in Screens, server' \in [Orders -> Versions], saved' \in [Orders -> Versions],
         asked' \in Order0, held' \in Copy0, local' \in Copy0, panel' \in Copy0,
         loading' \in BOOLEAN, crossed' \in BOOLEAN, reordered' \in BOOLEAN,
         forms' \in [screen'.ops -> Order0], partly' \in BOOLEAN,
         reqs' \in Seq(ReqType), failed' \in Nat, acts' \in Nat,
         ~screen'.copies => local' = None
  PROVE  TypeInv'
BY DEF TypeInv, Order0, Copy0

\* What an action can do to the forms.
LEMMA FormsAt ==
  ASSUME TypeInv, screen' = screen,
         \/ forms' = forms
         \/ forms' = [op \in DOMAIN forms |-> None]
         \/ \E x : \E o \in Order0 : forms' = [forms EXCEPT ![x] = o]
  PROVE  forms' \in [screen'.ops -> Order0]
<1>1. forms \in [screen.ops -> Order0] /\ None \in Order0
  BY DEF TypeInv, Order0
<1> HIDE DEF Order0
<1>2. CASE forms' = forms
  BY <1>1, <1>2
<1>3. CASE forms' = [op \in DOMAIN forms |-> None]
  BY <1>1, <1>3
<1>4. ASSUME NEW x, NEW o \in Order0, forms' = [forms EXCEPT ![x] = o]
      PROVE  forms' \in [screen'.ops -> Order0]
  BY <1>1, <1>4
<1> QED BY <1>2, <1>3, <1>4

LEMMA FormAt ==
  ASSUME TypeInv, NEW op \in screen.ops
  PROVE  forms[op] \in Order0 /\ op \in DOMAIN forms /\ DOMAIN forms = screen.ops
BY DEF TypeInv, Order0

LEMMA TypeInit == Init => TypeInv
<1> SUFFICES ASSUME Init PROVE TypeInv
  OBVIOUS
<1>1. asked \in Orders /\ reqs = <<Detail(asked)>>
  BY DEF Init
<1>2. reqs \in Seq(ReqType)
  BY <1>1, DetailType, SingleSeq
<1>3. Zero \in Versions
  BY DEF Zero, Versions
<1> QED BY <1>1, <1>2, <1>3 DEF Init, TypeInv

LEMMA AppendAt ==
  ASSUME NEW s \in Seq(ReqType), NEW q \in ReqType
  PROVE  /\ Append(s, q) \in Seq(ReqType) /\ Len(Append(s, q)) = Len(s) + 1
         /\ \A m \in DOMAIN s : m \in DOMAIN Append(s, q) /\ Append(s, q)[m] = s[m]
         /\ Append(s, q)[Len(s) + 1] = q
         /\ \A m \in DOMAIN Append(s, q) : m \in DOMAIN s \/ m = Len(s) + 1
<1>1. /\ Append(s, q) \in Seq(ReqType) /\ Len(Append(s, q)) = Len(s) + 1 /\ Len(s) \in Nat
      /\ DOMAIN s = 1 .. Len(s) /\ DOMAIN Append(s, q) = 1 .. Len(s) + 1
  OBVIOUS
<1>2. \A m \in 1 .. Len(s) : Append(s, q)[m] = s[m]
  OBVIOUS
<1>3. Append(s, q)[Len(s) + 1] = q
  OBVIOUS
<1> QED BY <1>1, <1>2, <1>3

LEMMA ActsType ==
  ASSUME TypeInv, NEW n \in Nat, Acts(n)
  PROVE  acts' \in Nat
BY DEF TypeInv, Acts

\* The opening of the dialog adds the load of its order.
LEMMA OpenAt ==
  ASSUME TypeInv, NEW o \in Orders
  PROVE  Append(reqs, Detail(o)) \in Seq(ReqType) /\ o \in Order0
BY ShownNow, DetailType, AppendAt DEF Order0

LEMMA HereType == TypeInv => Here.page \in Order0 /\ Here.own \in Order0 /\ Here.at \in Order0 /\ Here.left \in BOOLEAN
BY ShownNow DEF Here

\* What an operation sends.
LEMMA OpType ==
  ASSUME TypeInv, NEW op \in screen.ops, shown # None,
         op.form \notin {"none", "follows"} => forms[op] # None
  PROVE  /\ Sent(op) \in ReqType
         /\ Sent(op).what = "op" /\ Sent(op).of = Target(op) /\ Sent(op).op = op
         /\ Sent(op).page = asked /\ Sent(op).own = IdOf(prop) /\ Sent(op).at = IdOf(shown)
         /\ ~Sent(op).left /\ Sent(op).then = <<>> /\ Sent(op).fields = Fields(op) /\ Sent(op).part = 1
         /\ ~Sent(op).served /\ ~Sent(op).dropped /\ ~Sent(op).late
         /\ shown \in Copy /\ shown.of \in Orders /\ op \in Operation
<1>1. shown \in Copy /\ shown.of \in Orders
  BY ShownNow DEF Copy0, Copy
<1>2. op \in Operation
  BY ScreensAssumption DEF TypeInv, Screen
<1>3. forms[op] \in Order0
  BY FormAt
<1>4. Target(op) \in Orders
  BY <1>1, <1>3 DEF Target, Order0
<1>5. Fields(op) \in Order0
  BY <1>3, ShownNow DEF Fields, Order0
<1> DEFINE r == Request("op", Target(op), op, Here, <<>>)
<1>6. r \in ReqType
  <2>1. <<>> \in Chains /\ "op" \in Kinds
    BY DEF Chains, Kinds
  <2> QED BY <1>2, <1>4, <2>1, HereType, RequestType
<1>7. /\ r.what = "op" /\ r.of = Target(op) /\ r.op = op /\ r.page = Here.page /\ r.own = Here.own
      /\ r.at = Here.at /\ r.part = 1 /\ r.left = Here.left /\ r.then = <<>>
      /\ ~r.served /\ ~r.dropped /\ ~r.late
  BY RequestFields
<1>8. Here.page = asked /\ Here.own = IdOf(prop) /\ Here.at = IdOf(shown) /\ ~Here.left
  BY DEF Here
<1>9. Sent(op) = [r EXCEPT !.fields = Fields(op)]
  BY DEF Sent
<1> HIDE DEF r
<1> DEFINE f == Fields(op)
<1> HIDE DEF f
<1>10. [r EXCEPT !.fields = f] \in ReqType
  <2> HIDE DEF Versions, Operation, Chains, Kinds
  <2> QED BY <1>5, <1>6 DEF ReqType, Order0, f
<1>11. LET q == [r EXCEPT !.fields = f]
       IN /\ q.what = r.what /\ q.of = r.of /\ q.op = r.op /\ q.page = r.page /\ q.own = r.own
          /\ q.at = r.at /\ q.part = r.part /\ q.left = r.left /\ q.then = r.then
          /\ q.served = r.served /\ q.dropped = r.dropped /\ q.late = r.late /\ q.fields = f
  BY <1>6 DEF ReqType
<1> QED BY <1>1, <1>2, <1>7, <1>8, <1>9, <1>10, <1>11 DEF f

\* The request an awaited form is opened by.
LEMMA FormType ==
  ASSUME TypeInv, NEW op \in screen.ops, shown # None
  PROVE  LET r == Request("form", shown.of, op, Here, <<>>)
         IN /\ r \in ReqType /\ shown.of \in Orders
            /\ r.what = "form" /\ r.of = shown.of /\ r.page = asked /\ r.own = IdOf(prop) /\ ~r.left
            /\ r.then = <<>> /\ ~r.served /\ ~r.dropped /\ ~r.late
<1>1. shown \in Copy /\ shown.of \in Orders
  BY ShownNow DEF Copy0, Copy
<1>2. op \in Operation
  BY ScreensAssumption DEF TypeInv, Screen
<1>3. <<>> \in Chains /\ "form" \in Kinds
  BY DEF Chains, Kinds
<1>4. Request("form", shown.of, op, Here, <<>>) \in ReqType
  BY <1>1, <1>2, <1>3, HereType, RequestType
<1>5. Here.page = asked /\ Here.own = IdOf(prop) /\ ~Here.left
  BY DEF Here
<1> QED BY <1>1, <1>4, <1>5, RequestFields

LEMMA TypeUser ==
  ASSUME TypeInv, \/ \E o \in Orders : Open(o) \/ OtherUser(o)
                  \/ Close \/ Polled
                  \/ \E op \in screen.ops : OpenForm(op) \/ CloseForm(op) \/ Operate(op)
  PROVE  TypeInv'
<1> USE DEF TypeInv
<1>1. ASSUME NEW o \in Orders, Open(o)
      PROVE  TypeInv'
  <2>1. Renders(o, held, local, Append(reqs, Detail(o))) /\ acts' \in Nat /\ loading' = TRUE
        /\ UNCHANGED <<screen, server, panel, forms, saved, crossed, reordered, partly, failed>>
    BY <1>1, ActsType DEF Open
  <2>2. asked' \in Order0 /\ held' \in Copy0 /\ local' \in Copy0 /\ reqs' \in Seq(ReqType)
        /\ (~screen.copies => local' = None)
    BY <2>1, OpenAt, ShownNow, RendersAt
  <2> QED BY <2>1, <2>2, ShownNow, FormsAt, TypesOf
<1>2. ASSUME NEW o \in Orders, OtherUser(o)
      PROVE  TypeInv'
  <2>1. server' = [server EXCEPT ![o].order = @ + 1] /\ acts' \in Nat
    BY <1>2, ActsType DEF OtherUser
  <2>2. server' \in [Orders -> Versions]
    <3> DEFINE v == [server[o] EXCEPT !.order = server[o].order + 1]
    <3>1. server[o] \in Versions /\ server[o].order \in Nat
      BY DEF Versions
    <3> HIDE DEF TypeInv
    <3>2. v \in Versions
      BY <3>1 DEF Versions
    <3> HIDE DEF v, Versions
    <3>3. server' = [server EXCEPT ![o] = v]
      BY <2>1 DEF v
    <3> QED BY <3>2, <3>3 DEF TypeInv
  <2>3. UNCHANGED <<screen, asked, held, local, panel, forms, loading, reqs, saved, crossed, reordered, partly, failed>>
    BY <1>2 DEF OtherUser
  <2> QED BY <2>1, <2>2, <2>3, ShownNow, FormsAt, TypesOf
<1>3. CASE Close
  <2>1. Renders(None, None, None, Leaves(reqs)) /\ panel' = None
        /\ forms' = [op \in DOMAIN forms |-> None]
        /\ UNCHANGED <<screen, server, loading, saved, crossed, reordered, partly, failed, acts>>
    BY <1>3 DEF Close
  <2>2. None \in Order0 /\ None \in Copy0 /\ Leaves(reqs) \in Seq(ReqType)
    BY ShownNow, LeavesAt DEF Order0, Copy0
  <2>3. asked' \in Order0 /\ held' \in Copy0 /\ local' \in Copy0 /\ reqs' \in Seq(ReqType)
        /\ (~screen.copies => local' = None)
    BY <2>1, <2>2, RendersAt
  <2> QED BY <2>1, <2>2, <2>3, FormsAt, TypesOf
<1>4. CASE Polled
  <2> DEFINE sent == SetToSeq({j \in DOMAIN reqs : reqs[j].what = "op"})
             kept == [k \in DOMAIN sent |-> [reqs[sent[k]] EXCEPT !.dropped = TRUE]]
  <2>1. /\ held' = None /\ panel' = None /\ loading' = TRUE /\ shown # None
        /\ reqs' = Append(kept, Detail(asked)) /\ forms' = [op \in DOMAIN forms |-> None]
        /\ UNCHANGED <<screen, server, asked, local, saved, crossed, reordered, partly, failed, acts>>
    BY <1>4 DEF Polled
  <2>2. kept \in Seq(ReqType)
    BY SentAt, ShownNow
  <2>3. asked \in Orders
    <3>1. asked # None
      <4>1. screen.polls /\ shown # None /\ screen \in Screens
        BY <1>4 DEF Polled
      <4>2. ~screen.copies
        BY <4>1, PartsAssumption
      <4>3. local = None
        BY <4>2
      <4> QED BY <4>1, <4>3 DEF shown, prop, Shown, Prop
    <3> QED BY <3>1
  <2> HIDE DEF kept
  <2>4. reqs' \in Seq(ReqType)
    BY <2>1, <2>2, <2>3, DetailType, AppendAt
  <2>5. None \in Copy0
    BY DEF Copy0
  <2> QED BY <2>1, <2>4, <2>5, ShownNow, FormsAt, TypesOf
<1>5. ASSUME NEW op \in screen.ops, Operate(op)
      PROVE  TypeInv'
  <2>1. /\ reqs' = Append(reqs, Sent(op)) /\ shown # None /\ acts' \in Nat
        /\ op.form \notin {"none", "follows"} => forms[op] # None
        /\ UNCHANGED <<screen, server, asked, held, local, panel, forms, loading, saved, crossed, reordered, partly, failed>>
    BY <1>5, ActsType DEF Operate, Visible
  <2>2. reqs' \in Seq(ReqType)
    BY <2>1, OpType, AppendAt, ShownNow
  <2> QED BY <2>1, <2>2, ShownNow, FormsAt, TypesOf
<1>6. ASSUME NEW op \in screen.ops, OpenForm(op)
      PROVE  TypeInv'
  <2>1. /\ shown # None
        /\ UNCHANGED <<screen, server, asked, held, local, panel, loading, saved, crossed, reordered, partly, failed, acts>>
    BY <1>6 DEF OpenForm, Visible
  <2>2. \/ forms' = [forms EXCEPT ![op] = shown.of] /\ reqs' = reqs
        \/ panel # None /\ forms' = [forms EXCEPT ![op] = panel.of] /\ reqs' = reqs
        \/ forms' = forms /\ reqs' = Append(reqs, Request("form", shown.of, op, Here, <<>>))
    BY <1>6 DEF OpenForm
  <2>3. shown.of \in Order0 /\ (panel # None => panel.of \in Order0)
    BY <2>1, ShownNow DEF Copy0, Copy, Order0
  <2>4. forms' \in [screen'.ops -> Order0]
    BY <2>1, <2>2, <2>3, FormsAt
  <2>5. reqs' \in Seq(ReqType)
    BY <2>1, <2>2, FormType, AppendAt, ShownNow
  <2> QED BY <2>1, <2>4, <2>5, ShownNow, TypesOf
<1>7. ASSUME NEW op \in screen.ops, CloseForm(op)
      PROVE  TypeInv'
  <2>1. /\ forms' = [forms EXCEPT ![op] = None] /\ None \in Order0
        /\ UNCHANGED <<screen, server, asked, held, local, panel, loading, reqs, saved, crossed, reordered, partly, failed, acts>>
    BY <1>7 DEF CloseForm, Order0
  <2> QED BY <2>1, ShownNow, FormsAt, TypesOf
<1> QED BY <1>1, <1>2, <1>3, <1>4, <1>5, <1>6, <1>7

LEMMA ThenAt ==
  ASSUME NEW r \in ReqType, NEW s \in AllChains
  PROVE  LET q == [r EXCEPT !.then = s]
         IN /\ q.then = s /\ q.what = r.what /\ q.of = r.of /\ q.op = r.op /\ q.page = r.page
            /\ q.own = r.own /\ q.at = r.at /\ q.left = r.left
            /\ Continues(q) \in Seq(ReqType)
<1> DEFINE q == [r EXCEPT !.then = s]
<1>1. /\ q.then = s /\ q.what = r.what /\ q.of = r.of /\ q.op = r.op /\ q.page = r.page
      /\ q.own = r.own /\ q.at = r.at /\ q.left = r.left
  BY DEF ReqType
<1> HIDE DEF q
<1>2. q.then \in AllChains /\ q.of \in Orders /\ q.op \in Operation \cup {None}
      /\ q.page \in Order0 /\ q.own \in Order0 /\ q.at \in Order0 /\ q.left \in BOOLEAN
  BY <1>1, ReqParts
<1>3. Continues(q) \in Seq(ReqType)
  BY <1>2, ContinuesType
<1> QED BY <1>1, <1>3 DEF q

LEMMA ThensAt ==
  ASSUME NEW r \in ReqType
  PROVE  r.then \in AllChains /\ Continues(r) \in Seq(ReqType)
<1>1. r.then \in AllChains
  BY ReqParts DEF AllChains
<1> QED BY <1>1, ReqParts, ContinuesType

\* The items to review are asked for after the order.
LEMMA RowsAt ==
  ASSUME NEW r \in ReqType
  PROVE  /\ Rows(r) \in Seq(ReqType)
         /\ \/ ~r.rows /\ Rows(r) = <<>>
            \/ r.rows /\ \E q \in ReqType :
                 /\ Rows(r) = <<q>>
                 /\ q.what = "panel" /\ q.of = r.of /\ q.op = r.op /\ q.page = r.page /\ q.own = r.own
                 /\ q.at = r.at /\ q.left = r.left /\ q.then = <<>>
                 /\ ~q.served /\ ~q.dropped /\ ~q.late
<1> DEFINE q == Request("panel", r.of, r.op, r, <<>>)
<1>1. q \in ReqType
  <2>1. <<>> \in Chains /\ "panel" \in Kinds
    BY DEF Chains, Kinds
  <2> QED BY <2>1, ReqParts, RequestType
<1>2. /\ q.what = "panel" /\ q.of = r.of /\ q.op = r.op /\ q.page = r.page /\ q.own = r.own
      /\ q.at = r.at /\ q.left = r.left /\ q.then = <<>>
      /\ ~q.served /\ ~q.dropped /\ ~q.late
  BY RequestFields
<1>3. Rows(r) = IF r.rows THEN <<q>> ELSE <<>>
  BY DEF Rows
<1> HIDE DEF q
<1>4. CASE r.rows
  <2>1. Rows(r) = <<q>>
    BY <1>3, <1>4
  <2>2. Rows(r) \in Seq(ReqType)
    BY <1>1, <2>1, SingleSeq
  <2> QED BY <1>1, <1>2, <1>4, <2>1, <2>2
<1>5. CASE ~r.rows
  BY <1>3, <1>5, NoSeq
<1> QED BY <1>4, <1>5

\* The next request of an operation says what the one before it said.
LEMMA NextPartAt ==
  ASSUME NEW r \in ReqType
  PROVE  LET q == NextPart(r)
         IN /\ q \in ReqType
            /\ q.what = "op" /\ q.of = r.of /\ q.op = r.op /\ q.page = r.page /\ q.own = r.own
            /\ q.at = r.at /\ q.left = r.left /\ q.then = <<>> /\ q.fields = r.fields /\ q.part = r.part + 1
            /\ ~q.served /\ ~q.dropped /\ ~q.late
<1> DEFINE p == Request("op", r.of, r.op, r, <<>>)
           n == r.part + 1
           q == [p EXCEPT !.fields = r.fields, !.part = n]
<1>1. p \in ReqType
  <2>1. <<>> \in Chains /\ "op" \in Kinds
    BY DEF Chains, Kinds
  <2> QED BY <2>1, ReqParts, RequestType
<1>2. /\ p.what = "op" /\ p.of = r.of /\ p.op = r.op /\ p.page = r.page /\ p.own = r.own
      /\ p.at = r.at /\ p.left = r.left /\ p.then = <<>>
      /\ ~p.served /\ ~p.dropped /\ ~p.late
  BY RequestFields
<1>3. NextPart(r) = q
  BY DEF NextPart
<1>4. r.fields \in Orders \cup {None} /\ n \in Nat
  BY ReqParts DEF Order0
<1> HIDE DEF p, n
<1>5. q \in ReqType
  <2> HIDE DEF Versions, Operation, Chains, Kinds
  <2> QED BY <1>1, <1>4 DEF ReqType
<1>6. /\ q.what = p.what /\ q.of = p.of /\ q.op = p.op /\ q.page = p.page /\ q.own = p.own
      /\ q.at = p.at /\ q.left = p.left /\ q.then = p.then /\ q.fields = r.fields /\ q.part = n
      /\ q.served = p.served /\ q.dropped = p.dropped /\ q.late = p.late
  BY <1>1 DEF ReqType
<1> HIDE DEF q
<1> QED BY <1>2, <1>3, <1>5, <1>6 DEF n

\* What an answer leaves under way.
LEMMA RestAt ==
  ASSUME TypeInv, NEW i \in DOMAIN reqs
  PROVE  /\ reqs[i] \in ReqType
         /\ Others(i) \o Rows(reqs[i]) \in Seq(ReqType)
         /\ Others(i) \in Seq(ReqType)
         /\ Others(i) \o Continues(reqs[i]) \in Seq(ReqType)
         /\ Others(i) \o <<>> = Others(i)
<1>1. reqs \in Seq(ReqType)
  BY DEF TypeInv
<1>2. reqs[i] \in ReqType /\ Others(i) \in Seq(ReqType)
  BY <1>1, ReqAt, OthersAt
<1>3. Continues(reqs[i]) \in Seq(ReqType) /\ Rows(reqs[i]) \in Seq(ReqType)
  BY <1>2, ThensAt, RowsAt
<1> QED BY <1>2, <1>3, ConcatAt, ConcatEmptySeq

LEMMA AnswerCopy ==
  ASSUME TypeInv, NEW i \in DOMAIN reqs
  PROVE  /\ [of |-> reqs[i].of, v |-> reqs[i].v.order] \in Copy
         /\ [of |-> reqs[i].of, v |-> reqs[i].v.panel] \in Copy
BY RestAt, ReqParts, CopyType

LEMMA AppliesType ==
  ASSUME TypeInv, NEW i \in DOMAIN reqs, Applies(reqs[i])
  PROVE  crossed' \in BOOLEAN /\ reordered' \in BOOLEAN
BY DEF TypeInv, Applies

LEMMA LargerType ==
  ASSUME NEW s \in Versions, NEW t \in Versions
  PROVE  /\ Larger(s, t) \in Versions
         /\ Larger(s, t).order \in {s.order, t.order} /\ Larger(s, t).panel \in {s.panel, t.panel}
         /\ s.order <= Larger(s, t).order /\ s.panel <= Larger(s, t).panel
         /\ t.order <= Larger(s, t).order /\ t.panel <= Larger(s, t).panel
<1> DEFINE m == IF s.order > t.order THEN s.order ELSE t.order
           n == IF s.panel > t.panel THEN s.panel ELSE t.panel
<1>1. s.order \in Nat /\ t.order \in Nat /\ s.panel \in Nat /\ t.panel \in Nat
  BY DEF Versions
<1>2. m \in Nat /\ m \in {s.order, t.order} /\ s.order <= m /\ t.order <= m
  BY <1>1
<1>3. n \in Nat /\ n \in {s.panel, t.panel} /\ s.panel <= n /\ t.panel <= n
  BY <1>1
<1>4. Larger(s, t) = [order |-> m, panel |-> n]
  BY DEF Larger
<1> HIDE DEF m, n
<1> QED BY <1>2, <1>3, <1>4 DEF Versions

LEMMA WroteType ==
  ASSUME NEW r \in ReqType
  PROVE  /\ Wrote(r) \in Versions
         /\ Wrote(r).order = IF r.op.order THEN r.v.order ELSE 0
         /\ Wrote(r).panel = IF r.op.panel THEN r.v.panel ELSE 0
<1> DEFINE m == IF r.op.order THEN r.v.order ELSE 0
           n == IF r.op.panel THEN r.v.panel ELSE 0
<1>1. m \in Nat
  BY ReqParts
<1>2. n \in Nat
  BY ReqParts
<1>3. Wrote(r) = [order |-> m, panel |-> n]
  BY DEF Wrote
<1> HIDE DEF m, n
<1>4. Wrote(r) \in Versions /\ Wrote(r).order = m /\ Wrote(r).panel = n
  BY <1>1, <1>2, <1>3 DEF Versions
<1> QED BY <1>4 DEF m, n

\* What an operation that is done leaves under way.
LEMMA DoneAt ==
  ASSUME TypeInv, NEW i \in DOMAIN reqs, reqs[i].what = "op"
  PROVE  LET r == reqs[i]
             first == Continues([r EXCEPT !.then = Steps(r.op)[1]])
             second == Continues([r EXCEPT !.then = Steps(r.op)[2]])
         IN /\ first \in Seq(ReqType) /\ second \in Seq(ReqType)
            /\ Others(i) \o first \in Seq(ReqType)
            /\ (Others(i) \o first) \o second \in Seq(ReqType)
<1> DEFINE r == reqs[i]
           first == Continues([r EXCEPT !.then = Steps(r.op)[1]])
           second == Continues([r EXCEPT !.then = Steps(r.op)[2]])
<1>1. r \in ReqType /\ Others(i) \in Seq(ReqType)
  BY RestAt
<1>2. Steps(r.op)[1] \in AllChains /\ Steps(r.op)[2] \in AllChains
  BY <1>1, StepsAt
<1>3. first \in Seq(ReqType) /\ second \in Seq(ReqType)
  BY <1>1, <1>2, ThenAt
<1> HIDE DEF first, second
<1>4. Others(i) \o first \in Seq(ReqType)
  BY <1>1, <1>3, ConcatAt
<1> QED BY <1>3, <1>4, ConcatAt DEF first, second

LEMMA TypeArrives ==
  ASSUME TypeInv, NEW i \in DOMAIN reqs,
         OrderArrives(i) \/ CopyArrives(i) \/ PanelArrives(i) \/ FormArrives(i)
  PROVE  TypeInv'
<1> DEFINE r == reqs[i]
           shows == [of |-> r.of, v |-> r.v.order]
           lists == [of |-> r.of, v |-> r.v.panel]
<1>1. shows \in Copy0 /\ lists \in Copy0 /\ None \in Copy0
  BY AnswerCopy DEF Copy0
<1>2. Others(i) \in Seq(ReqType) /\ Others(i) \o Continues(r) \in Seq(ReqType)
      /\ Others(i) \o Rows(r) \in Seq(ReqType) /\ r \in ReqType
  BY RestAt
<1>3. /\ screen \in Screens /\ server \in [Orders -> Versions] /\ saved \in [Orders -> Versions]
      /\ loading \in BOOLEAN /\ failed \in Nat /\ acts \in Nat
      /\ crossed \in BOOLEAN /\ reordered \in BOOLEAN /\ partly \in BOOLEAN
      /\ ~screen.copies => local = None
  BY DEF TypeInv
<1> HIDE DEF shows, lists
<1>4. CASE OrderArrives(i)
  <2>1. /\ Renders(asked, shows, local, Others(i) \o Rows(r))
        /\ panel' = lists \/ panel' = panel \/ panel' = None
        /\ loading' = r.rows /\ Applies(r)
        /\ UNCHANGED <<screen, server, forms, saved, partly, failed, acts>>
    BY <1>4 DEF OrderArrives, shows, lists
  <2>2. /\ asked' \in Order0 /\ held' \in Copy0 /\ local' \in Copy0 /\ reqs' \in Seq(ReqType)
        /\ (~screen.copies => local' = None)
    BY <1>1, <1>2, <2>1, ShownNow, RendersAt
  <2>3. panel' \in Copy0
    BY <1>1, <2>1, ShownNow
  <2>4. crossed' \in BOOLEAN /\ reordered' \in BOOLEAN
    BY <2>1, AppliesType
  <2>5. loading' \in BOOLEAN
    BY <1>2, <2>1, ReqParts
  <2> QED BY <1>3, <2>1, <2>2, <2>3, <2>4, <2>5, FormsAt, TypesOf
<1>5. CASE CopyArrives(i)
  <2>1. /\ Renders(asked, held, shows, Others(i) \o Continues(r))
        /\ loading' = TRUE /\ Applies(r)
        /\ UNCHANGED <<screen, server, panel, forms, saved, partly, failed, acts>>
    BY <1>5 DEF CopyArrives, shows
  <2>2. /\ asked' \in Order0 /\ held' \in Copy0 /\ local' \in Copy0 /\ reqs' \in Seq(ReqType)
        /\ (~screen.copies => local' = None)
    BY <1>1, <1>2, <2>1, ShownNow, RendersAt
  <2>3. crossed' \in BOOLEAN /\ reordered' \in BOOLEAN
    BY <2>1, AppliesType
  <2> QED BY <1>3, <2>1, <2>2, <2>3, ShownNow, FormsAt, TypesOf
<1>6. CASE PanelArrives(i)
  <2>1. /\ reqs' = Others(i) \o Continues(r)
        /\ \/ UNCHANGED <<panel, crossed, reordered>>
           \/ panel' = lists /\ Applies(r)
        /\ loading' = (loading /\ ~EndsLoad(r))
        /\ UNCHANGED <<screen, server, asked, held, local, forms, saved, partly, failed, acts>>
    BY <1>6 DEF PanelArrives, lists
  <2>2. panel' \in Copy0
    BY <1>1, <2>1, ShownNow
  <2>3. crossed' \in BOOLEAN /\ reordered' \in BOOLEAN
    BY <1>3, <2>1, AppliesType
  <2>4. loading' \in BOOLEAN
    BY <2>1
  <2> QED BY <1>2, <1>3, <2>1, <2>2, <2>3, <2>4, ShownNow, FormsAt, TypesOf
<1>7. CASE FormArrives(i)
  <2>1. /\ reqs' = Others(i) /\ forms' = [forms EXCEPT ![r.op] = r.of] /\ Applies(r)
        /\ UNCHANGED <<screen, server, asked, held, local, panel, loading, saved, partly, failed, acts>>
    BY <1>7 DEF FormArrives
  <2>2. r.of \in Order0
    BY <1>2, ReqParts DEF Order0
  <2>3. forms' \in [screen'.ops -> Order0]
    BY <2>1, <2>2, FormsAt
  <2>4. crossed' \in BOOLEAN /\ reordered' \in BOOLEAN
    BY <2>1, AppliesType
  <2> QED BY <1>2, <1>3, <2>1, <2>3, <2>4, ShownNow, TypesOf
<1> QED BY <1>4, <1>5, <1>6, <1>7

LEMMA TypeEnds ==
  ASSUME TypeInv, NEW i \in DOMAIN reqs, PartDone(i) \/ OpDone(i) \/ OpFails(i) \/ LoadFails(i)
  PROVE  TypeInv'
<1> DEFINE r == reqs[i]
<1>1. r \in ReqType /\ Others(i) \in Seq(ReqType) /\ Others(i) \o Continues(r) \in Seq(ReqType)
      /\ Others(i) \o <<>> \in Seq(ReqType)
  BY RestAt
<1>2. /\ screen \in Screens /\ server \in [Orders -> Versions] /\ saved \in [Orders -> Versions]
      /\ loading \in BOOLEAN /\ failed \in Nat /\ acts \in Nat
      /\ crossed \in BOOLEAN /\ reordered \in BOOLEAN /\ partly \in BOOLEAN
      /\ ~screen.copies => local = None
  BY DEF TypeInv
<1>3. r.of \in Orders /\ r.left \in BOOLEAN
  BY <1>1, ReqParts
<1> DEFINE s == Larger(saved[r.of], Wrote(r))
<1>8. ASSUME saved' = saved \/ saved' = [saved EXCEPT ![r.of] = s]
      PROVE  saved' \in [Orders -> Versions]
  <2>1. s \in Versions
    <3>1. saved[r.of] \in Versions /\ Wrote(r) \in Versions
      BY <1>1, <1>2, <1>3, WroteType
    <3> QED BY <3>1, LargerType
  <2> HIDE DEF s
  <2> QED BY <1>2, <1>3, <1>8, <2>1
<1>9. CASE PartDone(i)
  <2>1. saved' = [saved EXCEPT ![r.of] = s] /\ reqs' = Append(Others(i), NextPart(r))
        /\ UNCHANGED <<screen, server, asked, held, local, panel, forms, loading, crossed, reordered, partly, failed, acts>>
    BY <1>9 DEF PartDone, Saves
  <2> HIDE DEF s
  <2>2. saved' \in [Orders -> Versions]
    BY <1>8, <2>1
  <2>3. reqs' \in Seq(ReqType)
    BY <1>1, <2>1, NextPartAt, AppendAt
  <2> QED BY <1>2, <2>1, <2>2, <2>3, ShownNow, FormsAt, TypesOf
<1>4. CASE OpDone(i)
  <2>2. saved' = saved \/ saved' = [saved EXCEPT ![r.of] = s]
    BY <1>4 DEF OpDone, Saves
  <2> HIDE DEF s
  <2>3. saved' \in [Orders -> Versions]
    BY <1>8, <2>2
  <2>4. reqs' \in Seq(ReqType)
    <3>1. \/ reqs' = Others(i)
          \/ reqs' = Others(i) \o Continues([r EXCEPT !.then = Steps(r.op)[1]])
                       \o Continues([r EXCEPT !.then = Steps(r.op)[2]])
      BY <1>4 DEF OpDone
    <3>2. r.what = "op"
      BY <1>4 DEF OpDone
    <3> QED BY <1>1, <3>1, <3>2, DoneAt
  <2>5. loading' \in BOOLEAN
    BY <1>2, <1>4 DEF OpDone
  <2>6. UNCHANGED <<screen, server, asked, held, local, panel, crossed, reordered, partly, failed, acts>>
    BY <1>4 DEF OpDone
  <2>7. forms' = forms \/ (forms' = [forms EXCEPT ![r.op] = None] /\ None \in Order0)
    BY <1>4 DEF OpDone, Order0
  <2>8. forms' \in [screen'.ops -> Order0]
    BY <2>6, <2>7, FormsAt
  <2> HIDE DEF r
  <2> QED BY <1>2, <2>3, <2>4, <2>5, <2>6, <2>8, ShownNow, TypesOf
<1>5. CASE OpFails(i)
  <2>1. reqs' = Others(i) /\ partly' = (partly \/ r.part > 1)
        /\ UNCHANGED <<screen, server, asked, held, local, panel, forms, loading, saved, crossed, reordered, failed, acts>>
    BY <1>5 DEF OpFails
  <2>2. partly' \in BOOLEAN
    BY <2>1
  <2> QED BY <1>1, <1>2, <2>1, <2>2, ShownNow, FormsAt, TypesOf
<1>6. CASE LoadFails(i)
  <2>1. /\ failed' = failed + 1 /\ crossed' = (crossed \/ (r.what = "detail" /\ r.left))
        /\ loading' = (loading /\ ~LoadsOrder(r) /\ ~EndsLoad(r))
        /\ UNCHANGED <<screen, server, saved, reordered, partly, acts>>
    BY <1>6 DEF LoadFails
  <2>2. \/ /\ asked' = None /\ held' = None /\ local' = None /\ panel' = None
           /\ reqs' = Follows(Leaves(Others(i)), None, None, Here)
           /\ forms' = [op \in DOMAIN forms |-> None]
        \/ /\ reqs' \in {Others(i) \o Continues(r), Others(i) \o <<>>} /\ panel' \in {panel, None}
           /\ UNCHANGED <<asked, held, local, forms>>
    BY <1>6 DEF LoadFails
  <2>3. None \in Copy0 /\ None \in Order0
    BY DEF Copy0, Order0
  <2>4. Follows(Leaves(Others(i)), None, None, Here) \in Seq(ReqType)
    <3>1. Here.page \in Order0 /\ Here.own \in Order0 /\ Here.at \in Order0 /\ Here.left \in BOOLEAN
      BY HereType
    <3>2. Leaves(Others(i)) \in Seq(ReqType)
      BY <1>1, LeavesAt
    <3> DEFINE rs == Leaves(Others(i))
               from == Here
    <3> HIDE DEF rs, from
    <3>3. from.page \in Order0 /\ from.own \in Order0 /\ from.at \in Order0 /\ from.left \in BOOLEAN /\ rs \in Seq(ReqType)
      BY <3>1, <3>2 DEF rs, from
    <3>4. Follows(rs, None, None, from) \in Seq(ReqType)
      BY <2>3, <3>3, FollowsAt
    <3> QED BY <3>4 DEF rs, from
  <2>5. failed' \in Nat /\ crossed' \in BOOLEAN /\ loading' \in BOOLEAN
    <3>1. failed' \in Nat
      BY <1>2, <2>1
    <3>2. crossed' \in BOOLEAN
      BY <2>1
    <3>3. loading' \in BOOLEAN
      BY <2>1
    <3> QED BY <3>1, <3>2, <3>3
  <2> HIDE DEF r
  <2>6. reqs' \in Seq(ReqType) /\ asked' \in Order0 /\ held' \in Copy0 /\ local' \in Copy0
        /\ panel' \in Copy0 /\ (~screen.copies => local' = None)
    <3>1. /\ asked \in Order0 /\ held \in Copy0 /\ local \in Copy0 /\ panel \in Copy0
          /\ ~screen.copies => local = None
      BY <1>2, ShownNow
    <3>2. \A rs \in {Others(i) \o Continues(r), Others(i) \o <<>>} : rs \in Seq(ReqType)
      BY <1>1
    <3>3. CASE /\ asked' = None /\ held' = None /\ local' = None /\ panel' = None
              /\ reqs' = Follows(Leaves(Others(i)), None, None, Here)
      BY <2>3, <2>4, <3>3
    <3>4. CASE /\ reqs' \in {Others(i) \o Continues(r), Others(i) \o <<>>} /\ panel' \in {panel, None}
              /\ UNCHANGED <<asked, held, local>>
      BY <2>3, <3>1, <3>2, <3>4
    <3> QED BY <2>2, <3>3, <3>4
  <2>7. forms' \in [screen'.ops -> Order0]
    BY <2>1, <2>2, FormsAt
  <2> QED BY <1>2, <2>1, <2>5, <2>6, <2>7, TypesOf
<1> QED BY <1>4, <1>5, <1>6, <1>9

LEMMA TypeNext == TypeInv /\ [Next]_vars => TypeInv'
<1> SUFFICES ASSUME TypeInv, [Next]_vars PROVE TypeInv'
  OBVIOUS
<1>1. CASE UNCHANGED vars
  BY <1>1 DEF TypeInv, vars
<1>2. ASSUME NEW i \in DOMAIN reqs, Serve(i)
      PROVE  TypeInv'
  <2>1. server' \in [Orders -> Versions] /\ reqs' \in Seq(ReqType)
    BY <1>2, ServeAt
  <2>2. UNCHANGED <<screen, asked, held, local, panel, forms, loading, saved, crossed, reordered, partly, failed, acts>>
    BY <1>2 DEF Serve
  <2> QED BY <2>1, <2>2 DEF TypeInv
<1> QED BY <1>1, <1>2, TypeUser, TypeArrives, TypeEnds DEF Next

-----------------------------------------------------------------------------
(* What an operation, and each load after it, is for. *)

LEMMA RangeConcat ==
  ASSUME NEW s \in Seq(ReqType), NEW t \in Seq(ReqType), NEW q \in Range(s \o t)
  PROVE  q \in Range(s) \/ q \in Range(t)
<1>1. PICK m \in DOMAIN (s \o t) : q = (s \o t)[m]
  BY DEF Range
<1>2. CASE m \in DOMAIN s
  <2>1. (s \o t)[m] = s[m]
    BY <1>2, ConcatAt
  <2> QED BY <1>1, <1>2, <2>1 DEF Range
<1>3. CASE m \notin DOMAIN s
  <2>1. PICK k \in DOMAIN t : m = Len(s) + k
    BY <1>1, <1>3, ConcatAt
  <2>2. (s \o t)[m] = t[k]
    BY <2>1, ConcatAt
  <2> QED BY <1>1, <2>1, <2>2 DEF Range
<1> QED BY <1>2, <1>3

LEMMA RangeAppend ==
  ASSUME NEW s \in Seq(ReqType), NEW x \in ReqType, NEW q \in Range(Append(s, x))
  PROVE  q \in Range(s) \/ q = x
<1>1. PICK m \in DOMAIN Append(s, x) : q = Append(s, x)[m]
  BY DEF Range
<1>2. CASE m \in DOMAIN s
  BY <1>1, <1>2, AppendAt DEF Range
<1>3. CASE m \notin DOMAIN s
  BY <1>1, <1>3, AppendAt
<1> QED BY <1>2, <1>3

\* What the loads that follow an operation, or another load, inherit from it.
WorkOK(r) ==
  /\ ~r.left => asked # None /\ r.page = asked
  /\ ~crossed => r.own \in {None, r.page} /\ r.of = r.page
  /\ r.then # <<>> => r.op # None /\ r.page # None /\ (~crossed => r.own = r.of)
  /\ r.then \in {<<"copy", "refresh">>, <<"panel", "copy", "refresh">>} => screen.copies
  /\ r.then \in {<<"panel">>, <<"panel", "copy", "refresh">>} /\ ~crossed => r.at = r.of

LEMMA TheChains ==
  /\ \A s \in AllChains : s # <<>> =>
       \/ s = <<"refresh">> /\ Head(s) = "refresh" /\ Tail(s) = <<>>
       \/ s = <<"panel">> /\ Head(s) = "panel" /\ Tail(s) = <<>>
       \/ s = <<"copy", "refresh">> /\ Head(s) = "copy" /\ Tail(s) = <<"refresh">>
       \/ s = <<"panel", "copy", "refresh">> /\ Head(s) = "panel" /\ Tail(s) = <<"copy", "refresh">>
  /\ <<"refresh">> # <<"copy", "refresh">> /\ <<"panel">> # <<"copy", "refresh">>
  /\ <<"refresh">> # <<"panel", "copy", "refresh">> /\ <<"panel">> # <<"panel", "copy", "refresh">>
  /\ <<"panel", "copy", "refresh">> # <<"copy", "refresh">>
  /\ <<>> # <<"copy", "refresh">> /\ <<>> # <<"panel", "copy", "refresh">>
<1>1. /\ <<"refresh">> # <<"copy", "refresh">> /\ <<"panel">> # <<"copy", "refresh">>
      /\ <<"refresh">> # <<"panel", "copy", "refresh">> /\ <<"panel">> # <<"panel", "copy", "refresh">>
  OBVIOUS
<1>2. <<"panel", "copy", "refresh">> # <<"copy", "refresh">>
  OBVIOUS
<1>3. <<>> # <<"copy", "refresh">> /\ <<>> # <<"panel", "copy", "refresh">>
  OBVIOUS
<1>4. \A s \in AllChains : s # <<>> =>
        s \in {<<"refresh">>, <<"panel">>, <<"copy", "refresh">>, <<"panel", "copy", "refresh">>}
  BY DEF AllChains, Chains
<1> QED BY <1>1, <1>2, <1>3, <1>4, ChainParts

LEMMA ContinuesOK ==
  ASSUME NEW r, r.then \in AllChains, r.of \in Orders, r.op \in Operation \cup {None},
         r.page \in Order0, r.own \in Order0, r.at \in Order0, r.left \in BOOLEAN, WorkOK(r)',
         NEW q \in Range(Continues(r))
  PROVE  /\ ReqOK(q)' /\ r.then # <<>> /\ (r.left => q.left)
         /\ q.what = Head(r.then) /\ q.then = Tail(r.then)
<1>1. PICK x \in DOMAIN Continues(r) : q = Continues(r)[x]
  BY DEF Range
<1>2. Continues(r) # <<>>
  BY <1>1, NoSeq
<1>3. r.then # <<>>
  BY <1>2 DEF Continues
<1>4. PICK p \in ReqType :
        /\ Continues(r) = <<p>>
        /\ p.what = Head(r.then) /\ p.then = Tail(r.then) /\ p.op = r.op
        /\ p.page = r.page /\ p.own = r.own /\ p.left = r.left
        /\ p.what = "panel" => p.of = r.at
        /\ p.what = "copy" => p.of = r.own
        /\ p.what = "refresh" => p.of = r.page
  BY <1>2, ContinuesAt
<1>5. q = p
  BY <1>1, <1>4, SingleSeq
<1>6. /\ q.what = Head(r.then) /\ q.then = Tail(r.then) /\ q.op = r.op
      /\ q.page = r.page /\ q.own = r.own /\ q.left = r.left
      /\ q.what = "panel" => q.of = r.at
      /\ q.what = "copy" => q.of = r.own
      /\ q.what = "refresh" => q.of = r.page
  BY <1>4, <1>5
<1> HIDE DEF Range
<1>7. /\ q.what \in {"copy", "refresh", "panel"}
      /\ q.what = "copy" => r.then = <<"copy", "refresh">>
      /\ q.what = "panel" => r.then \in {<<"panel">>, <<"panel", "copy", "refresh">>}
      /\ q.then = <<"copy", "refresh">> => r.then = <<"panel", "copy", "refresh">>
  BY <1>3, <1>6, TheChains
<1>8. /\ ~r.left => asked' # None /\ r.page = asked'
      /\ ~crossed' => r.own \in {None, r.page} /\ r.of = r.page
      /\ r.op # None /\ r.page # None /\ (~crossed' => r.own = r.of)
      /\ r.then \in {<<"copy", "refresh">>, <<"panel", "copy", "refresh">>} => screen'.copies
      /\ r.then \in {<<"panel">>, <<"panel", "copy", "refresh">>} /\ ~crossed' => r.at = r.of
  BY <1>3 DEF WorkOK
<1>9. /\ ~q.left => asked' # None /\ q.page = asked'
      /\ LoadsOrder(q) => q.of = q.page
      /\ q.what = "copy" => screen'.copies /\ q.of = q.own
      /\ q.what # "op"
  BY <1>6, <1>7, <1>8 DEF LoadsOrder
<1>10. /\ ~crossed' => q.own \in {None, q.page} /\ q.of = q.page
       /\ q.then # <<>> => q.op # None /\ q.page # None /\ (~crossed' => q.own = q.of)
       /\ q.then = <<"copy", "refresh">> => screen'.copies
  BY <1>6, <1>7, <1>8
<1>11. ReqOK(q)'
  BY <1>9, <1>10 DEF ReqOK, OpOK, LoadsOrder
<1> QED BY <1>3, <1>6, <1>11

LEMMA WorkOf ==
  ASSUME NEW r \in ReqType, ReqOK(r)', screen' \in Screens
  PROVE  /\ WorkOK(r)'
         /\ r.what = "op" => \A s \in AllChains :
              (s \in {<<"copy", "refresh">>, <<"panel", "copy", "refresh">>} => screen'.copies)
                => WorkOK([r EXCEPT !.then = s])'
<1>1. r.then # <<"panel", "copy", "refresh">>
  <2>1. r.then \in {<<>>, <<"refresh">>, <<"copy", "refresh">>}
    BY ReqParts DEF Chains
  <2> QED BY <2>1, TheChains
<1>4. r.then # <<"panel">>
  <2>1. r.then \in {<<>>, <<"refresh">>, <<"copy", "refresh">>}
    BY ReqParts DEF Chains
  <2> QED BY <2>1, ChainParts
<1>2. WorkOK(r)'
  BY <1>1, <1>4 DEF ReqOK, WorkOK
<1>3. ASSUME r.what = "op", NEW s \in AllChains, NEW q, q = [r EXCEPT !.then = s],
             s \in {<<"copy", "refresh">>, <<"panel", "copy", "refresh">>} => screen'.copies
      PROVE  WorkOK(q)'
  <2>1. /\ q.then = s /\ q.of = r.of /\ q.op = r.op /\ q.page = r.page
        /\ q.own = r.own /\ q.at = r.at /\ q.left = r.left
    BY <1>3, ThenAt
  <2>2. r.op \in screen'.ops /\ r.page # None /\ (~crossed' => r.own = r.of /\ r.at = r.of)
    BY <1>3 DEF ReqOK, OpOK
  <2>3. r.op # None
    <3>1. screen'.ops \subseteq Operation
      BY ScreensAssumption DEF Screen
    <3> QED BY <2>2, <3>1, NoneIsNone
  <2> QED BY <1>2, <1>3, <2>1, <2>2, <2>3 DEF WorkOK
<1> QED BY <1>2, <1>3

LEMMA OthersOK ==
  ASSUME TypeInv, ReqsInv, NEW i \in DOMAIN reqs, UNCHANGED <<screen, asked>>, crossed => crossed'
  PROVE  /\ \A r \in {reqs[i]} : ReqOK(r)'
         /\ \A q \in Range(Others(i)) : ReqOK(q)'
<1>1. ASSUME NEW k \in DOMAIN reqs, NEW r, r = reqs[k]
      PROVE  ReqOK(r)'
  <2>1. ReqOK(r)
    BY <1>1 DEF ReqsInv
  <2> QED BY <2>1, SameOK
<1>2. ASSUME NEW q \in Range(Others(i))
      PROVE  ReqOK(q)'
  <2>1. PICK m \in DOMAIN Others(i) : q = Others(i)[m]
    BY DEF Range
  <2>2. PICK k \in DOMAIN reqs : Aged(reqs[k], q) /\ q.left = reqs[k].left
    BY <2>1, ShownNow, OthersAt
  <2> QED BY <1>1, <2>2, AgedOK
<1>3. ASSUME NEW r, r = reqs[i]
      PROVE  ReqOK(r)'
  BY <1>1, <1>3
<1> QED BY <1>2, <1>3

\* The page shows an order: its requests, and its copies, are of that order.
LEMMA RendersOK ==
  ASSUME TypeInv, NEW a \in Order0, NEW h \in Copy0, NEW l \in Copy0, NEW rs \in Seq(ReqType),
         Renders(a, h, l, rs), \A q \in Range(rs) : ReqOK(q)',
         ~crossed' => IdOf(h) \in {None, a} /\ IdOf(l) \in {None, a}
  PROVE  /\ ReqsInv'
         /\ ~crossed' => IdOf(held') \in {None, asked'} /\ IdOf(local') \in {None, asked'}
<1> DEFINE p == Prop(a, h)
           d == IdOf(Shown(p, local'))
           from == [page |-> a, own |-> IdOf(p), at |-> None, left |-> FALSE]
<1>1. /\ asked' = a /\ held' = h /\ local' \in {None, p, l} /\ reqs' = Follows(rs, a, d, from)
      /\ IdOf(p) \in Order0 /\ d \in Order0
  BY RendersAt
<1>2. ~crossed' => IdOf(p) \in {None, a}
  BY DEF Prop, IdOf
<1>3. ~crossed' => IdOf(local') \in {None, a}
  <2>1. IdOf(None) = None
    BY DEF IdOf
  <2> HIDE DEF p
  <2> QED BY <1>1, <1>2, <2>1
<1>4. ~crossed' => d \in {None, a}
  <2>1. Shown(p, local') \in {p, local'}
    BY DEF Shown
  <2> HIDE DEF p
  <2> QED BY <1>2, <1>3, <2>1
<1>5. from.page = a /\ from.own = IdOf(p) /\ from.at \in Order0 /\ from.left = FALSE
  BY DEF Order0
<1> HIDE DEF p, d, from
<1>6. from.own \in Order0 /\ (~crossed' /\ a # None /\ d # None => from.own \in {None, a} /\ d = a)
  BY <1>1, <1>2, <1>4, <1>5
<1>7. \A q \in Range(Follows(rs, a, d, from)) : ReqOK(q)'
  BY <1>1, <1>5, <1>6, FollowsOK
<1>8. ReqsInv'
  <2>1. ASSUME NEW q \in Range(reqs')
        PROVE  ReqOK(q)'
    BY <1>1, <1>7, <2>1
  <2>2. ASSUME NEW j \in DOMAIN reqs', NEW q, q = reqs'[j]
        PROVE  ReqOK(q)'
    BY <2>1, <2>2 DEF Range
  <2> QED BY <2>2 DEF ReqsInv
<1> QED BY <1>1, <1>3, <1>8

LEMMA ReqsFrom ==
  ASSUME \A q \in Range(reqs') : ReqOK(q)'
  PROVE  ReqsInv'
<1>1. ASSUME NEW j \in DOMAIN reqs', NEW q, q = reqs'[j]
      PROVE  ReqOK(q)'
  BY <1>1 DEF Range
<1> QED BY <1>1 DEF ReqsInv

\* A request the dialog's lack of an order allows.
Quiet(r) == r.left \/ ~Works(r)

LEMMA QuietAged ==
  ASSUME NEW r, NEW q, Quiet(r), Aged(r, q)
  PROVE  Quiet(q)
BY DEF Quiet, Works, Aged

LEMMA QuietOthers ==
  ASSUME TypeInv, NEW i \in DOMAIN reqs, \A j \in DOMAIN reqs : Quiet(reqs[j])
  PROVE  /\ \A q \in Range(Others(i)) : Quiet(q)
         /\ reqs[i].then # <<>> \/ reqs[i].what = "op" => reqs[i].left
<1>1. ASSUME NEW q \in Range(Others(i))
      PROVE  Quiet(q)
  <2>1. PICK m \in DOMAIN Others(i) : q = Others(i)[m]
    BY DEF Range
  <2>2. PICK k \in DOMAIN reqs : Aged(reqs[k], q)
    BY <2>1, ShownNow, OthersAt
  <2> QED BY <2>2, QuietAged
<1>2. Quiet(reqs[i])
  OBVIOUS
<1> QED BY <1>1, <1>2 DEF Quiet, Works

LEMMA QuietFollows ==
  ASSUME NEW rs \in Seq(ReqType), NEW a \in Order0, NEW d \in Order0, NEW from,
         from.page \in Order0, from.own \in Order0, from.at \in Order0, from.left \in BOOLEAN,
         \A q \in Range(rs) : Quiet(q)
  PROVE  \A q \in Range(Follows(rs, a, d, from)) : Quiet(q)
<1> DEFINE f == Follows(rs, a, d, from)
<1>1. /\ f \in Seq(ReqType)
      /\ Len(f) = Len(rs) \/ Started(f, rs)
      /\ Started(f, rs) => d # None /\ a # None /\ f[Len(f)] = Request("panel", d, None, from, <<>>)
      /\ \A m \in DOMAIN rs : m \in DOMAIN f /\ Aged(rs[m], f[m]) /\ f[m].left = rs[m].left
  BY FollowsAt
<1> HIDE DEF f
<1>2. ASSUME NEW m \in DOMAIN f
      PROVE  Quiet(f[m])
  <2>1. CASE m \in DOMAIN rs
    <3>1. rs[m] \in Range(rs)
      BY <2>1 DEF Range
    <3> QED BY <1>1, <2>1, <3>1, QuietAged
  <2>2. CASE m \notin DOMAIN rs
    <3>1. Started(f, rs) /\ m = Len(f)
      <4>1. Len(f) = Len(rs) \/ Len(f) = Len(rs) + 1
        BY <1>1 DEF Started
      <4>2. DOMAIN f = 1 .. Len(f) /\ DOMAIN rs = 1 .. Len(rs) /\ Len(rs) \in Nat /\ Len(f) \in Nat
        BY <1>1
      <4> QED BY <2>2, <4>1, <4>2, LastPlace DEF Started
    <3>2. f[m].what = "panel" /\ f[m].then = <<>>
      BY <1>1, <3>1, RequestFields
    <3> QED BY <3>2 DEF Quiet, Works
  <2> QED BY <2>1, <2>2
<1> QED BY <1>2 DEF Range, f

LEMMA QuietRenders ==
  ASSUME TypeInv, NEW a \in Order0, NEW h \in Copy0, NEW l \in Copy0, NEW rs \in Seq(ReqType),
         Renders(a, h, l, rs), \A q \in Range(rs) : Quiet(q)
  PROVE  \A j \in DOMAIN reqs' : Quiet(reqs'[j])
<1> DEFINE p == Prop(a, h)
           d == IdOf(Shown(p, local'))
           from == [page |-> a, own |-> IdOf(p), at |-> None, left |-> FALSE]
<1>1. reqs' = Follows(rs, a, d, from) /\ IdOf(p) \in Order0 /\ d \in Order0
  BY RendersAt
<1>2. from.page \in Order0 /\ from.own \in Order0 /\ from.at \in Order0 /\ from.left \in BOOLEAN
  BY <1>1 DEF Order0
<1> HIDE DEF p, d, from
<1>3. \A q \in Range(Follows(rs, a, d, from)) : Quiet(q)
  BY <1>1, <1>2, QuietFollows
<1> QED BY <1>1, <1>3 DEF Range

LEMMA QuietFrom ==
  ASSUME TypeInv, NEW rs \in Seq(ReqType), reqs' = rs, \A q \in Range(rs) : Quiet(q)
  PROVE  \A j \in DOMAIN reqs' : Quiet(reqs'[j])
BY DEF Range

LEMMA KeptFrom ==
  ASSUME screen'.copies /\ ~crossed' /\ held' = None =>
           local' = None /\ \A j \in DOMAIN reqs' : Quiet(reqs'[j])
  PROVE  KeptInv'
<1>1. ASSUME NEW r
      PROVE  (r.left \/ ~Works(r))' <=> Quiet(r)
  BY DEF Quiet, Works
<1> QED BY <1>1 DEF KeptInv, Quiet, Works

LEMMA KeptNow ==
  ASSUME KeptInv, screen.copies, ~crossed, held = None
  PROVE  local = None /\ \A j \in DOMAIN reqs : Quiet(reqs[j])
BY DEF KeptInv, Quiet

LEMMA OrderInit == Init => OrderInv
<1> SUFFICES ASSUME Init PROVE OrderInv
  OBVIOUS
<1>1. asked \in Orders /\ reqs = <<Detail(asked)>> /\ held = None /\ local = None /\ panel = None
  BY DEF Init
<1> DEFINE r == Detail(asked)
<1>2. /\ r.what = "detail" /\ r.of = asked /\ r.page = asked /\ r.own = None /\ ~r.left /\ r.then = <<>>
      /\ r \in ReqType
  BY <1>1, DetailType
<1>3. asked # None
  BY <1>1, NoneIsNone
<1>4. <<>> # <<"copy", "refresh">>
  BY TheChains
<1> HIDE DEF r
<1>5. ReqOK(r) /\ ~Works(r)
  BY <1>2, <1>3, <1>4 DEF ReqOK, OpOK, LoadsOrder, Works
<1>6. \A j \in DOMAIN reqs : reqs[j] = r
  BY <1>1, <1>2, SingleSeq DEF r
<1>7. IdOf(None) = None
  BY DEF IdOf
<1> QED BY <1>1, <1>5, <1>6, <1>7 DEF OrderInv, ReqsInv, ScreenInv, KeptInv

\* A dialog is opened: nothing that is under way belongs to it.
LEMMA OrderOpen ==
  ASSUME TypeInv, OrderInv, NEW o \in Orders, Open(o)
  PROVE  OrderInv'
<1> DEFINE rs == Append(reqs, Detail(o))
<1>1. /\ asked = None /\ Renders(o, held, local, rs)
      /\ UNCHANGED <<screen, server, panel, saved, crossed, reordered, partly, failed>>
  BY DEF Open
<1>2. rs \in Seq(ReqType) /\ o \in Order0 /\ held \in Copy0 /\ local \in Copy0 /\ o # None
  BY OpenAt, ShownNow, NoneIsNone
<1>3. asked' = o /\ held' = held /\ local' \in Copy0
  BY <1>1, <1>2, RendersAt
<1>4. ASSUME NEW j \in DOMAIN reqs
      PROVE  reqs[j].left /\ \A r \in {reqs[j]} : ReqOK(r)'
  <2>1. ReqOK(reqs[j])
    BY DEF OrderInv, ReqsInv
  <2>2. reqs[j].left
    BY <1>1, <2>1 DEF ReqOK
  <2> DEFINE r == reqs[j]
  <2>3. ReqOK(r) /\ r.left /\ Aged(r, r)
    BY <2>1, <2>2 DEF Aged
  <2> HIDE DEF r
  <2>4. ASSUME NEW q, q = r
        PROVE  ReqOK(q)'
    BY <1>1, <2>3, <2>4, LeftOK
  <2> QED BY <2>2, <2>4 DEF r
<1>5. ASSUME NEW q, q = Detail(o)
      PROVE  ReqOK(q)' /\ Quiet(q)
  <2>1. /\ q.what = "detail" /\ q.of = o /\ q.page = o /\ q.own = None /\ ~q.left /\ q.then = <<>>
    BY <1>5, DetailType
  <2>2. <<>> # <<"copy", "refresh">>
    BY TheChains
  <2> QED BY <1>2, <1>3, <2>1, <2>2 DEF ReqOK, OpOK, LoadsOrder, Quiet, Works
<1>6. \A q \in Range(rs) : ReqOK(q)' /\ Quiet(q)
  <2>1. ASSUME NEW q \in Range(reqs)
        PROVE  ReqOK(q)' /\ Quiet(q)
    <3>1. PICK j \in DOMAIN reqs : q = reqs[j]
      BY DEF Range
    <3> QED BY <1>4, <3>1 DEF Quiet
  <2> QED BY <1>5, <2>1, RangeAppend, ShownNow, DetailType
<1> HIDE DEF rs
<1>7. ~crossed' => IdOf(held) \in {None, o} /\ IdOf(local) \in {None, o} /\ IdOf(panel') \in {None, o}
  <2>1. ~crossed' => ~crossed /\ panel' = panel
    BY <1>1
  <2>2. ~crossed => IdOf(held) = None /\ IdOf(local) = None /\ IdOf(panel) = None
    BY <1>1 DEF OrderInv, ScreenInv
  <2> QED BY <2>1, <2>2
<1>8. ReqsInv' /\ (~crossed' => IdOf(held') \in {None, asked'} /\ IdOf(local') \in {None, asked'})
  BY <1>1, <1>2, <1>6, <1>7, RendersOK
<1>9. ScreenInv'
  BY <1>3, <1>7, <1>8 DEF ScreenInv
<1>10. KeptInv'
  <2>1. \A j \in DOMAIN reqs' : Quiet(reqs'[j])
    BY <1>1, <1>2, <1>6, QuietRenders
  <2>2. ASSUME screen'.copies, ~crossed', held' = None
        PROVE  local' = None
    <3>1. screen.copies /\ ~crossed /\ held = None
      BY <1>1, <1>3, <2>2
    <3>2. local = None
      BY <3>1, KeptNow DEF OrderInv
    <3>3. Prop(o, held) = None
      BY <3>1 DEF Prop
    <3> QED BY <1>1, <1>2, <3>2, <3>3, RendersAt
  <2> QED BY <2>1, <2>2, KeptFrom
<1> QED BY <1>8, <1>9, <1>10 DEF OrderInv

LEMMA LeavesOK ==
  ASSUME NEW rs \in Seq(ReqType), UNCHANGED screen, crossed => crossed',
         \A r \in Range(rs) : \E x \in Range(reqs) : Aged(x, r) /\ ReqOK(x)
  PROVE  \A q \in Range(Leaves(rs)) : ReqOK(q)' /\ Quiet(q)
<1>1. ASSUME NEW q \in Range(Leaves(rs))
      PROVE  ReqOK(q)' /\ Quiet(q)
  <2>1. PICK m \in DOMAIN Leaves(rs) : q = Leaves(rs)[m]
    BY DEF Range
  <2>2. m \in DOMAIN rs /\ Aged(rs[m], q) /\ q.left
    BY <2>1, LeavesAt
  <2>3. PICK x \in Range(reqs) : Aged(x, rs[m]) /\ ReqOK(x)
    BY <2>2 DEF Range
  <2>4. Aged(x, q)
    BY <2>2, <2>3 DEF Aged
  <2>5. ReqOK(q)'
    BY <2>2, <2>3, <2>4, LeftOK
  <2> QED BY <2>2, <2>5 DEF Quiet
<1> QED BY <1>1

LEMMA OrderClose ==
  ASSUME TypeInv, OrderInv, Close
  PROVE  OrderInv'
<1> DEFINE rs == Leaves(reqs)
<1>1. /\ Renders(None, None, None, rs) /\ panel' = None
      /\ UNCHANGED <<screen, server, loading, saved, crossed, reordered, partly, failed, acts>>
  BY DEF Close
<1>2. rs \in Seq(ReqType) /\ None \in Order0 /\ None \in Copy0 /\ reqs \in Seq(ReqType)
  BY ShownNow, LeavesAt DEF Order0, Copy0
<1>3. \A q \in Range(rs) : ReqOK(q)' /\ Quiet(q)
  <2>1. \A r \in Range(reqs) : \E x \in Range(reqs) : Aged(x, r) /\ ReqOK(x)
    BY DEF OrderInv, ReqsInv, Range, Aged
  <2> QED BY <1>1, <1>2, <2>1, LeavesOK
<1> HIDE DEF rs
<1>4. IdOf(None) = None
  BY DEF IdOf
<1>5. ReqsInv' /\ (~crossed' => IdOf(held') \in {None, asked'} /\ IdOf(local') \in {None, asked'})
  BY <1>1, <1>2, <1>3, <1>4, RendersOK
<1>6. ScreenInv'
  BY <1>1, <1>4, <1>5 DEF ScreenInv
<1>7. KeptInv'
  <2>1. \A j \in DOMAIN reqs' : Quiet(reqs'[j])
    BY <1>1, <1>2, <1>3, QuietRenders
  <2>2. Prop(None, None) = None
    BY DEF Prop
  <2>3. local' = None
    BY <1>1, <1>2, <2>2, RendersAt
  <2> QED BY <2>1, <2>3, KeptFrom
<1> QED BY <1>5, <1>6, <1>7 DEF OrderInv

LEMMA OrderPolled ==
  ASSUME TypeInv, OrderInv, Polled
  PROVE  OrderInv'
<1> DEFINE sent == SetToSeq({j \in DOMAIN reqs : reqs[j].what = "op"})
           kept == [k \in DOMAIN sent |-> [reqs[sent[k]] EXCEPT !.dropped = TRUE]]
<1>1. /\ held' = None /\ panel' = None /\ shown # None /\ screen.polls /\ screen \in Screens
      /\ reqs' = Append(kept, Detail(asked))
      /\ UNCHANGED <<screen, server, asked, local, saved, crossed, reordered, partly, failed, acts>>
  BY DEF Polled, TypeInv
<1>2. kept \in Seq(ReqType) /\ \A q \in Range(kept) :
        \E r \in Range(reqs) : r.what = "op" /\ Aged(r, q) /\ q.left = r.left
  BY SentAt, ShownNow
<1>3. ~screen.copies /\ local = None
  BY <1>1, PartsAssumption DEF TypeInv
<1>4. asked \in Orders
  BY <1>1, <1>3, ShownNow DEF shown, prop, Shown, Prop, Order0
<1> HIDE DEF kept
<1>5. ASSUME NEW q \in Range(kept)
      PROVE  ReqOK(q)'
  <2>1. PICK r \in Range(reqs) : Aged(r, q) /\ q.left = r.left
    BY <1>2
  <2>2. ReqOK(r)
    BY DEF OrderInv, ReqsInv, Range
  <2>3. ReqOK(r)'
    BY <1>1, <2>2, SameOK
  <2> QED BY <2>1, <2>3, AgedOK
<1>6. ASSUME NEW q, q = Detail(asked)
      PROVE  ReqOK(q)'
  <2>1. /\ q.what = "detail" /\ q.of = asked /\ q.page = asked /\ q.own = None /\ ~q.left /\ q.then = <<>>
    BY <1>4, <1>6, DetailType
  <2>2. <<>> # <<"copy", "refresh">> /\ asked # None /\ asked' = asked
    BY <1>1, <1>4, TheChains, NoneIsNone
  <2> QED BY <2>1, <2>2 DEF ReqOK, OpOK, LoadsOrder
<1>7. ReqsInv'
  <2>1. \A q \in Range(Append(kept, Detail(asked))) : ReqOK(q)'
    <3>1. Detail(asked) \in ReqType
      BY <1>4, DetailType
    <3> QED BY <1>2, <1>5, <1>6, <3>1, RangeAppend
  <2>2. \A q \in Range(reqs') : ReqOK(q)'
    BY <1>1, <2>1
  <2> QED BY <2>2, ReqsFrom
<1>8. ScreenInv'
  BY <1>1, <1>3 DEF ScreenInv, IdOf
<1>9. KeptInv'
  BY <1>1, <1>3 DEF KeptInv
<1> QED BY <1>7, <1>8, <1>9 DEF OrderInv

LEMMA OrderOtherUser ==
  ASSUME TypeInv, OrderInv, UNCHANGED <<screen, asked, held, local, panel, reqs, crossed>>
  PROVE  OrderInv'
<1>1. ASSUME NEW j \in DOMAIN reqs', NEW r, r = reqs'[j]
      PROVE  ReqOK(r)'
  <2>1. ReqOK(r)
    BY <1>1 DEF OrderInv, ReqsInv
  <2> QED BY <2>1, SameOK
<1>2. ReqsInv'
  BY <1>1 DEF ReqsInv
<1>3. ScreenInv' /\ KeptInv'
  BY DEF OrderInv, ScreenInv, KeptInv, Works
<1> QED BY <1>2, <1>3 DEF OrderInv

\* An operation is sent: until an answer of an earlier dialog was applied, the
\* dialog's copy and the page's are of the same order.
LEMMA OrderOperate ==
  ASSUME TypeInv, OrderInv, FormsInv, NEW op \in screen.ops, Operate(op)
  PROVE  OrderInv'
<1> DEFINE r == Sent(op)
<1>1. /\ asked # None /\ shown # None /\ reqs' = Append(reqs, r)
      /\ op.form \notin {"none", "follows"} => forms[op] # None
      /\ UNCHANGED <<screen, server, asked, held, local, panel, loading, saved, crossed, reordered, partly, failed>>
  BY DEF Operate, Visible
<1>2. shown \in Copy /\ r \in ReqType /\ reqs \in Seq(ReqType) /\ IdOf(shown) = shown.of
  BY <1>1, OpType, ShownNow DEF IdOf
<1>3. /\ r.what = "op" /\ r.of = Target(op) /\ r.op = op /\ r.page = asked /\ r.own = IdOf(prop)
      /\ r.at = shown.of /\ r.fields = Fields(op) /\ r.part = 1
      /\ ~r.left /\ r.then = <<>> /\ op \in Operation
  BY <1>1, <1>2, OpType
<1>4. 1 \in 1 .. op.parts
  <2>1. op.parts \in Nat \ {0}
    BY <1>3 DEF Operation
  <2> HIDE DEF r
  <2> QED BY <2>1
<1>5. ~crossed => held # None /\ IdOf(prop) = asked /\ IdOf(shown) = asked
  <2> SUFFICES ASSUME ~crossed
               PROVE  held # None /\ IdOf(prop) = asked /\ IdOf(shown) = asked
    OBVIOUS
  <2>1. prop = held
    BY <1>1 DEF prop, Prop
  <2>2. held # None
    <3>1. CASE held = None
      <4>1. local # None
        BY <1>1, <2>1, <3>1 DEF shown, Shown
      <4>2. screen.copies
        BY <4>1 DEF TypeInv
      <4> QED BY <3>1, <4>1, <4>2, KeptNow DEF OrderInv
    <3> QED BY <3>1
  <2>3. IdOf(held) = asked
    BY <1>1, <2>2, ShownNow, IdType DEF OrderInv, ScreenInv
  <2>4. local # None => IdOf(local) = asked
    BY <1>1, ShownNow, IdType DEF OrderInv, ScreenInv
  <2> QED BY <2>1, <2>2, <2>3, <2>4 DEF shown, Shown
<1>10. ~crossed => forms[op] \in {None, asked}
  BY FormAt DEF FormsInv
<1>11. ~crossed => Target(op) = asked
  <2>1. op.form = "shipment" => forms[op] # None
    BY <1>1
  <2> QED BY <1>2, <1>5, <1>10, <2>1 DEF Target
<1>12. ~crossed => Fields(op) \in {None, asked}
  BY <1>5, <1>10 DEF Fields
<1> HIDE DEF r
<1>6. ASSUME NEW q \in Range(reqs')
      PROVE  ReqOK(q)'
  <2>1. CASE q \in Range(reqs)
    <3>1. ReqOK(q)
      BY <2>1 DEF OrderInv, ReqsInv, Range
    <3> QED BY <1>1, <3>1, SameOK
  <2>2. CASE q = r
    <3>1. <<>> # <<"copy", "refresh">>
      BY TheChains
    <3>2. OpOK(q)'
      BY <1>1, <1>2, <1>3, <1>4, <1>5, <1>11, <1>12, <2>2 DEF OpOK
    <3> QED BY <1>1, <1>2, <1>3, <1>5, <1>11, <2>2, <3>1, <3>2 DEF ReqOK, LoadsOrder
  <2> QED BY <1>1, <1>2, <1>6, <2>1, <2>2, RangeAppend
<1>7. ReqsInv'
  BY <1>6, ReqsFrom
<1>8. ScreenInv'
  BY <1>1 DEF OrderInv, ScreenInv
<1>9. KeptInv'
  BY <1>1, <1>5, KeptFrom
<1> QED BY <1>7, <1>8, <1>9 DEF OrderInv

LEMMA OrderServe ==
  ASSUME TypeInv, OrderInv, NEW i \in DOMAIN reqs, Serve(i)
  PROVE  OrderInv'
<1>1. UNCHANGED <<screen, asked, held, local, panel, loading, saved, crossed, reordered, partly, failed, acts>>
  BY DEF Serve
<1>2. reqs \in Seq(ReqType) /\ reqs' \in Seq(ReqType) /\ Len(reqs') = Len(reqs)
  BY ServeAt, ShownNow
<1>3. ASSUME NEW j \in DOMAIN reqs'
      PROVE  /\ j \in DOMAIN reqs
             /\ LET r == reqs[j]
                    q == reqs'[j]
                IN /\ q.what = r.what /\ q.of = r.of /\ q.op = r.op /\ q.page = r.page /\ q.own = r.own
                   /\ q.left = r.left /\ q.then = r.then
                   /\ q.at = r.at /\ q.fields = r.fields /\ q.part = r.part
  <2>1. j \in DOMAIN reqs
    BY <1>2
  <2>2. CASE j = i
    BY <2>1, <2>2, ServeAt
  <2>3. CASE j # i
    BY <2>1, <2>3, ServeAt
  <2> QED BY <2>1, <2>2, <2>3
<1>4. ASSUME NEW j \in DOMAIN reqs', NEW q, q = reqs'[j]
      PROVE  ReqOK(q)'
  <2> DEFINE r == reqs[j]
  <2>1. /\ q.what = r.what /\ q.of = r.of /\ q.op = r.op /\ q.page = r.page /\ q.own = r.own
        /\ q.left = r.left /\ q.then = r.then
        /\ q.at = r.at /\ q.fields = r.fields /\ q.part = r.part
    BY <1>3, <1>4
  <2>2. ReqOK(r)
    BY <1>3 DEF OrderInv, ReqsInv
  <2> HIDE DEF r
  <2>3. ReqOK(q)
    BY <2>1, <2>2 DEF ReqOK, OpOK, LoadsOrder
  <2> QED BY <1>1, <2>3, SameOK
<1>5. ReqsInv'
  BY <1>4 DEF ReqsInv
<1>6. ScreenInv'
  BY <1>1 DEF OrderInv, ScreenInv
<1>7. KeptInv'
  <2>1. ASSUME screen'.copies, ~crossed', held' = None
        PROVE  local' = None /\ \A j \in DOMAIN reqs' : Quiet(reqs'[j])
    <3>1. local = None /\ \A j \in DOMAIN reqs : Quiet(reqs[j])
      BY <1>1, <2>1, KeptNow DEF OrderInv
    <3> QED BY <1>1, <1>3, <3>1 DEF Quiet, Works
  <2> QED BY <2>1, KeptFrom
<1> QED BY <1>5, <1>6, <1>7 DEF OrderInv

LEMMA RestOK ==
  ASSUME TypeInv, ReqsInv, NEW i \in DOMAIN reqs, UNCHANGED <<screen, asked>>, crossed => crossed'
  PROVE  \A q \in Range(Others(i) \o Continues(reqs[i])) : ReqOK(q)'
<1> DEFINE r == reqs[i]
<1>1. r \in ReqType /\ Others(i) \in Seq(ReqType) /\ Continues(r) \in Seq(ReqType)
  BY RestAt, ThensAt
<1>2. r.then \in AllChains /\ r.of \in Orders /\ r.op \in Operation \cup {None}
      /\ r.page \in Order0 /\ r.own \in Order0 /\ r.at \in Order0 /\ r.left \in BOOLEAN
  BY <1>1, ReqParts, ThensAt
<1>3. screen' \in Screens
  BY DEF TypeInv
<1>4. ASSUME NEW x, x = r, NEW q \in Range(Continues(x))
      PROVE  ReqOK(q)'
  <2>1. ReqOK(x)'
    BY <1>4, OthersOK
  <2>2. WorkOK(x)'
    BY <1>1, <1>3, <1>4, <2>1, WorkOf
  <2>3. x.then \in AllChains /\ x.of \in Orders /\ x.op \in Operation \cup {None}
        /\ x.page \in Order0 /\ x.own \in Order0 /\ x.at \in Order0 /\ x.left \in BOOLEAN
    BY <1>2, <1>4
  <2> QED BY <2>2, <2>3, ContinuesOK
<1> QED BY <1>1, <1>4, OthersOK, RangeConcat

LEMMA QuietContinues ==
  ASSUME NEW r, r.then \in AllChains, r.of \in Orders, r.op \in Operation \cup {None},
         r.page \in Order0, r.own \in Order0, r.at \in Order0, r.left \in BOOLEAN,
         r.then # <<>> => r.left
  PROVE  \A q \in Range(Continues(r)) : Quiet(q)
<1>1. CASE Continues(r) = <<>>
  BY <1>1, NoSeq DEF Range
<1>2. CASE Continues(r) # <<>>
  <2>1. PICK p \in ReqType : Continues(r) = <<p>> /\ p.left = r.left /\ r.then # <<>>
    BY <1>2, ContinuesAt
  <2> QED BY <2>1, SingleSeq DEF Range, Quiet
<1> QED BY <1>1, <1>2

LEMMA RestQuiet ==
  ASSUME TypeInv, NEW i \in DOMAIN reqs, \A j \in DOMAIN reqs : Quiet(reqs[j])
  PROVE  \A q \in Range(Others(i) \o Continues(reqs[i])) : Quiet(q)
<1> DEFINE r == reqs[i]
<1>1. r \in ReqType /\ Others(i) \in Seq(ReqType) /\ Continues(r) \in Seq(ReqType)
  BY RestAt, ThensAt
<1>2. r.then \in AllChains /\ r.of \in Orders /\ r.op \in Operation \cup {None}
      /\ r.page \in Order0 /\ r.own \in Order0 /\ r.at \in Order0 /\ r.left \in BOOLEAN
  BY <1>1, ReqParts, ThensAt
<1>3. r.then # <<>> => r.left
  BY QuietOthers
<1> HIDE DEF r
<1>4. \A q \in Range(Continues(r)) : Quiet(q)
  BY <1>2, <1>3, QuietContinues
<1> QED BY <1>1, <1>4, QuietOthers, RangeConcat DEF r

\* What the answer of a load says of the order it was asked for.
LEMMA AnswerOf ==
  ASSUME TypeInv, OrderInv, NEW i \in DOMAIN reqs, ~crossed, ~reqs[i].left
  PROVE  reqs[i].of = asked
BY DEF OrderInv, ReqsInv, ReqOK

LEMMA OrderOrderArrives ==
  ASSUME TypeInv, OrderInv, NEW i \in DOMAIN reqs, OrderArrives(i)
  PROVE  OrderInv'
<1> DEFINE r == reqs[i]
           h == [of |-> r.of, v |-> r.v.order]
           rs == Others(i) \o Rows(r)
<1>1. /\ Renders(asked, h, local, rs) /\ LoadsOrder(r)
      /\ panel' = [of |-> r.of, v |-> r.v.panel] \/ panel' = panel \/ panel' = None
      /\ crossed' = (crossed \/ r.left)
      /\ UNCHANGED <<screen, server, saved, failed, acts>>
  BY DEF OrderArrives, Applies
<1>2. Others(i) \in Seq(ReqType) /\ rs \in Seq(ReqType) /\ h \in Copy /\ h \in Copy0 /\ asked \in Order0 /\ local \in Copy0 /\ h.of = r.of
  BY RestAt, AnswerCopy, ShownNow DEF Copy0
<1>3. asked' = asked /\ held' = h
  BY <1>1, <1>2, RendersAt
<1>4. \A q \in Range(rs) : ReqOK(q)'
  <2>1. \A q \in Range(Others(i)) : ReqOK(q)'
    BY <1>1, <1>3, OthersOK DEF OrderInv
  <2>2. \A x \in {r} : ReqOK(x)'
    BY <1>1, <1>3, OthersOK DEF OrderInv
  <2>3. r \in ReqType /\ Rows(r) \in Seq(ReqType)
    BY RestAt, RowsAt
  <2>4. ASSUME NEW x, x = r, NEW q \in Range(Rows(x))
        PROVE  ReqOK(q)'
    <3>1. /\ q.what = "panel" /\ q.of = x.of /\ q.op = x.op /\ q.page = x.page /\ q.own = x.own
          /\ q.at = x.at /\ q.left = x.left /\ q.then = <<>>
      BY <2>3, <2>4, RowsAt, NoSeq, SingleSeq DEF Range
    <3>2. ReqOK(x)'
      BY <2>2, <2>4
    <3>3. <<>> # <<"copy", "refresh">>
      BY TheChains
    <3> QED BY <3>1, <3>2, <3>3 DEF ReqOK, OpOK, LoadsOrder
  <2> QED BY <1>2, <2>1, <2>3, <2>4, RangeConcat
<1>5. ~crossed' => r.of = asked
  BY <1>1, AnswerOf
<1>6. IdOf(h) = r.of /\ (panel' # panel => IdOf(panel') \in {None, r.of})
  <2>1. [of |-> r.of, v |-> r.v.panel] \in Copy
    BY AnswerCopy
  <2> QED BY <1>1, <1>2, <2>1, NoneIsNone DEF IdOf
<1> HIDE DEF h, rs
<1>7. ~crossed' => IdOf(h) \in {None, asked} /\ IdOf(local) \in {None, asked} /\ IdOf(panel') \in {None, asked}
  <2>1. ~crossed' => ~crossed
    BY <1>1
  <2> QED BY <1>5, <1>6, <2>1 DEF OrderInv, ScreenInv
<1>8. ReqsInv' /\ (~crossed' => IdOf(held') \in {None, asked'} /\ IdOf(local') \in {None, asked'})
  BY <1>1, <1>2, <1>4, <1>7, RendersOK
<1>9. ScreenInv'
  BY <1>3, <1>7, <1>8 DEF ScreenInv
<1>10. KeptInv'
  BY <1>2, <1>3, NoneIsNone, KeptFrom
<1> QED BY <1>8, <1>9, <1>10 DEF OrderInv

LEMMA OrderCopyArrives ==
  ASSUME TypeInv, OrderInv, NEW i \in DOMAIN reqs, CopyArrives(i)
  PROVE  OrderInv'
<1> DEFINE r == reqs[i]
           l == [of |-> r.of, v |-> r.v.order]
           rs == Others(i) \o Continues(r)
<1>1. /\ Renders(asked, held, l, rs) /\ r.what = "copy"
      /\ crossed' = (crossed \/ r.left)
      /\ UNCHANGED <<screen, server, panel, saved, failed, acts>>
  BY DEF CopyArrives, Applies
<1>2. rs \in Seq(ReqType) /\ l \in Copy /\ l \in Copy0 /\ asked \in Order0 /\ held \in Copy0 /\ l.of = r.of
  BY RestAt, AnswerCopy, ShownNow DEF Copy0
<1>3. asked' = asked /\ held' = held
  BY <1>1, <1>2, RendersAt
<1>4. \A q \in Range(rs) : ReqOK(q)'
  BY <1>1, <1>3, RestOK DEF OrderInv
<1>5. ~crossed' => r.of = asked
  BY <1>1, AnswerOf
<1>6. IdOf(l) = r.of
  BY <1>2, NoneIsNone DEF IdOf
<1> HIDE DEF l, rs
<1>7. ~crossed' => IdOf(held) \in {None, asked} /\ IdOf(l) \in {None, asked} /\ IdOf(panel') \in {None, asked}
  <2>1. ~crossed' => ~crossed /\ panel' = panel
    BY <1>1
  <2> QED BY <1>5, <1>6, <2>1 DEF OrderInv, ScreenInv
<1>8. ReqsInv' /\ (~crossed' => IdOf(held') \in {None, asked'} /\ IdOf(local') \in {None, asked'})
  BY <1>1, <1>2, <1>4, <1>7, RendersOK
<1>9. ScreenInv'
  BY <1>3, <1>7, <1>8 DEF ScreenInv
<1>10. KeptInv'
  <2>1. ASSUME screen'.copies, ~crossed', held' = None
        PROVE  FALSE
    <3>1. \A j \in DOMAIN reqs : Quiet(reqs[j])
      BY <1>1, <1>3, <2>1, KeptNow DEF OrderInv
    <3>2. Quiet(r) /\ ~r.left
      BY <1>1, <2>1, <3>1
    <3> QED BY <1>1, <3>2 DEF Quiet, Works
  <2> QED BY <2>1, KeptFrom
<1> QED BY <1>8, <1>9, <1>10 DEF OrderInv

LEMMA OrderPanelArrives ==
  ASSUME TypeInv, OrderInv, NEW i \in DOMAIN reqs, PanelArrives(i)
  PROVE  OrderInv'
<1> DEFINE r == reqs[i]
           rs == Others(i) \o Continues(r)
           lists == [of |-> r.of, v |-> r.v.panel]
<1>1. /\ reqs' = rs
      /\ \/ UNCHANGED <<panel, crossed>>
         \/ panel' = lists /\ crossed' = (crossed \/ r.left)
      /\ UNCHANGED <<screen, server, asked, held, local, saved, failed, acts>>
  BY DEF PanelArrives, Applies
<1>2. rs \in Seq(ReqType) /\ lists \in Copy /\ lists.of = r.of
  BY RestAt, AnswerCopy
<1>3. \A q \in Range(rs) : ReqOK(q)'
  <2>1. crossed => crossed'
    BY <1>1
  <2>2. UNCHANGED <<screen, asked>>
    BY <1>1
  <2> QED BY <2>1, <2>2, RestOK DEF OrderInv
<1>4. IdOf(lists) = r.of
  BY <1>2, NoneIsNone DEF IdOf
<1> HIDE DEF lists, rs
<1>5. ReqsInv'
  BY <1>1, <1>3, ReqsFrom
<1>6. ScreenInv'
  <2>1. ASSUME ~crossed'
        PROVE  ~crossed /\ IdOf(panel') \in {None, asked}
    <3>1. CASE UNCHANGED <<panel, crossed>>
      BY <2>1, <3>1 DEF OrderInv, ScreenInv
    <3>2. CASE panel' = lists /\ crossed' = (crossed \/ r.left)
      <4>1. ~crossed /\ ~r.left
        BY <2>1, <3>2
      <4> QED BY <1>4, <3>2, <4>1, AnswerOf
    <3> QED BY <1>1, <3>1, <3>2
  <2> QED BY <1>1, <2>1 DEF OrderInv, ScreenInv
<1>7. KeptInv'
  <2>1. ASSUME screen'.copies, ~crossed', held' = None
        PROVE  local' = None /\ \A j \in DOMAIN reqs' : Quiet(reqs'[j])
    <3>1. screen.copies /\ ~crossed /\ held = None
      <4>1. crossed => crossed'
        BY <1>1
      <4> QED BY <1>1, <2>1, <4>1
    <3>2. local = None /\ \A j \in DOMAIN reqs : Quiet(reqs[j])
      BY <3>1, KeptNow DEF OrderInv
    <3>3. \A q \in Range(rs) : Quiet(q)
      BY <3>2, RestQuiet DEF rs
    <3> QED BY <1>1, <1>2, <3>2, <3>3, QuietFrom
  <2> QED BY <2>1, KeptFrom
<1> QED BY <1>5, <1>6, <1>7 DEF OrderInv

LEMMA StepsKept ==
  ASSUME NEW op
  PROVE  /\ ~screen.copies => Steps(op)[1] \in {<<>>, <<"panel">>}
         /\ Steps(op)[2] \in {<<>>, <<"refresh">>}
BY DEF Steps

LEMMA DoneOK ==
  ASSUME TypeInv, ReqsInv, NEW i \in DOMAIN reqs, reqs[i].what = "op", UNCHANGED <<screen, asked, crossed>>
  PROVE  LET r == reqs[i]
             first == Continues([r EXCEPT !.then = Steps(r.op)[1]])
             second == Continues([r EXCEPT !.then = Steps(r.op)[2]])
         IN /\ \A q \in Range((Others(i) \o first) \o second) : ReqOK(q)'
            /\ r.left => \A q \in Range(first) \cup Range(second) : Quiet(q)
<1> DEFINE r == reqs[i]
           first == Continues([r EXCEPT !.then = Steps(r.op)[1]])
           second == Continues([r EXCEPT !.then = Steps(r.op)[2]])
<1>1. r \in ReqType /\ Others(i) \in Seq(ReqType) /\ screen' \in Screens
  BY RestAt DEF TypeInv
<1>2. ASSUME NEW k \in {1, 2}, NEW s, s = Steps(r.op)[k], NEW x, x = r, NEW y, y = [x EXCEPT !.then = s]
      PROVE  \A q \in Range(Continues(y)) : ReqOK(q)' /\ (r.left => Quiet(q))
  <2>1. s \in AllChains
    BY <1>1, <1>2, StepsAt
  <2>2. s \in {<<"copy", "refresh">>, <<"panel", "copy", "refresh">>} => screen'.copies
    <3>1. ~screen.copies => s \in {<<>>, <<"panel">>, <<"refresh">>}
      BY <1>2, StepsKept
    <3> QED BY <3>1, TheChains
  <2>3. WorkOK(y)'
    <3>1. ReqOK(x)'
      BY <1>2, OthersOK
    <3> QED BY <1>1, <1>2, <2>1, <2>2, <3>1, WorkOf
  <2>4. /\ y.then \in AllChains /\ y.of \in Orders /\ y.op \in Operation \cup {None}
        /\ y.page \in Order0 /\ y.own \in Order0 /\ y.at \in Order0 /\ y.left \in BOOLEAN /\ y.left = r.left
    BY <1>1, <1>2, <2>1, ThenAt, ReqParts
  <2> HIDE DEF r
  <2>5. ASSUME NEW q \in Range(Continues(y))
        PROVE  ReqOK(q)' /\ (y.left => q.left)
    BY <2>3, <2>4, <2>5, ContinuesOK
  <2> QED BY <2>4, <2>5 DEF Quiet
<1>3. \A q \in Range(first) \cup Range(second) : ReqOK(q)' /\ (r.left => Quiet(q))
  BY <1>2
<1>4. \A q \in Range(Others(i)) : ReqOK(q)'
  BY OthersOK
<1>5. first \in Seq(ReqType) /\ second \in Seq(ReqType) /\ Others(i) \o first \in Seq(ReqType)
  BY DoneAt
<1> HIDE DEF r, first, second
<1>6. \A q \in Range(Others(i) \o first) : ReqOK(q)'
  BY <1>1, <1>3, <1>4, <1>5, RangeConcat
<1>7. \A q \in Range((Others(i) \o first) \o second) : ReqOK(q)'
  BY <1>3, <1>5, <1>6, RangeConcat
<1> QED BY <1>3, <1>7 DEF r, first, second

LEMMA OrderOpDone ==
  ASSUME TypeInv, OrderInv, NEW i \in DOMAIN reqs, OpDone(i)
  PROVE  OrderInv'
<1> DEFINE r == reqs[i]
           first == Continues([r EXCEPT !.then = Steps(r.op)[1]])
           second == Continues([r EXCEPT !.then = Steps(r.op)[2]])
           rs == (Others(i) \o first) \o second
<1>1. /\ r.what = "op"
      /\ reqs' \in {Others(i), rs}
      /\ UNCHANGED <<screen, server, asked, held, local, panel, crossed, reordered, failed, acts>>
  BY DEF OpDone
<1>2. first \in Seq(ReqType) /\ second \in Seq(ReqType) /\ Others(i) \o first \in Seq(ReqType) /\ rs \in Seq(ReqType)
  BY <1>1, DoneAt
<1>3. Others(i) \in Seq(ReqType)
  BY RestAt
<1>4. \A q \in Range(Others(i)) : ReqOK(q)'
  BY <1>1, OthersOK DEF OrderInv
<1>5. (\A q \in Range(rs) : ReqOK(q)') /\ (r.left => \A q \in Range(first) \cup Range(second) : Quiet(q))
  BY <1>1, DoneOK DEF OrderInv
<1> HIDE DEF first, second
<1>6. ReqsInv'
  <2>1. \A q \in Range(reqs') : ReqOK(q)'
    BY <1>1, <1>4, <1>5
  <2> QED BY <2>1, ReqsFrom
<1>7. ScreenInv'
  BY <1>1 DEF OrderInv, ScreenInv
<1>8. KeptInv'
  <2>1. ASSUME screen'.copies, ~crossed', held' = None
        PROVE  local' = None /\ \A j \in DOMAIN reqs' : Quiet(reqs'[j])
    <3>1. local = None /\ \A j \in DOMAIN reqs : Quiet(reqs[j])
      BY <1>1, <2>1, KeptNow DEF OrderInv
    <3>2. r.left /\ \A q \in Range(Others(i)) : Quiet(q)
      BY <1>1, <3>1, QuietOthers
    <3>3. \A q \in Range(rs) : Quiet(q)
      BY <1>2, <1>3, <1>5, <3>2, RangeConcat
    <3> QED BY <1>1, <1>2, <1>3, <3>1, <3>2, <3>3, QuietFrom
  <2> QED BY <2>1, KeptFrom
<1> QED BY <1>6, <1>7, <1>8 DEF OrderInv

LEMMA OrderFails ==
  ASSUME TypeInv, OrderInv, NEW i \in DOMAIN reqs,
         reqs' \in {Others(i), Others(i) \o Continues(reqs[i])}, crossed => crossed',
         panel' \in {panel, None}, UNCHANGED <<screen, asked, held, local>>
  PROVE  OrderInv'
<1> DEFINE rs == Others(i) \o Continues(reqs[i])
<1>1. (\A q \in Range(Others(i)) : ReqOK(q)') /\ \A q \in Range(rs) : ReqOK(q)'
  BY OthersOK, RestOK DEF OrderInv
<1>2. Others(i) \in Seq(ReqType) /\ rs \in Seq(ReqType)
  BY RestAt
<1>3. ReqsInv'
  <2>1. \A q \in Range(reqs') : ReqOK(q)'
    BY <1>1
  <2> QED BY <2>1, ReqsFrom
<1>4. ScreenInv'
  BY DEF OrderInv, ScreenInv, IdOf
<1>5. KeptInv'
  <2>1. ASSUME screen'.copies, ~crossed', held' = None
        PROVE  local' = None /\ \A j \in DOMAIN reqs' : Quiet(reqs'[j])
    <3>1. local = None /\ \A j \in DOMAIN reqs : Quiet(reqs[j])
      BY <2>1, KeptNow DEF OrderInv
    <3>2. (\A q \in Range(Others(i)) : Quiet(q)) /\ \A q \in Range(rs) : Quiet(q)
      BY <3>1, QuietOthers, RestQuiet
    <3> QED BY <1>2, <3>1, <3>2, QuietFrom
  <2> QED BY <2>1, KeptFrom
<1> QED BY <1>3, <1>4, <1>5 DEF OrderInv

\* The order of the dialog could not be loaded: the dialog closes.
LEMMA OrderFailsClosed ==
  ASSUME TypeInv, OrderInv, NEW i \in DOMAIN reqs, UNCHANGED screen, crossed => crossed',
         asked' = None, held' = None, local' = None, panel' = None,
         reqs' = Follows(Leaves(Others(i)), None, None, Here)
  PROVE  OrderInv'
<1> DEFINE rs == Leaves(Others(i))
           from == [page |-> None, own |-> Here.own, at |-> Here.at, left |-> FALSE]
<1>1. Others(i) \in Seq(ReqType) /\ rs \in Seq(ReqType)
  BY RestAt, LeavesAt
<1>2. \A r \in Range(Others(i)) : \E x \in Range(reqs) : Aged(x, r) /\ ReqOK(x)
  <2>1. ASSUME NEW r \in Range(Others(i))
        PROVE  \E x \in Range(reqs) : Aged(x, r) /\ ReqOK(x)
    <3>1. PICK m \in DOMAIN Others(i) : r = Others(i)[m]
      BY DEF Range
    <3>2. PICK k \in DOMAIN reqs : Aged(reqs[k], r)
      BY <3>1, ShownNow, OthersAt
    <3> QED BY <3>2 DEF OrderInv, ReqsInv, Range
  <2> QED BY <2>1
<1>3. \A q \in Range(rs) : ReqOK(q)' /\ Quiet(q)
  BY <1>1, <1>2, LeavesOK
<1>4. Follows(rs, None, None, Here) = Follows(rs, None, None, from)
  BY DEF Follows
<1>5. None \in Order0 /\ from.page = None /\ from.own \in Order0 /\ from.left = FALSE /\ from.left \in BOOLEAN
      /\ from.page \in Order0 /\ from.at \in Order0
  BY HereType DEF Order0
<1> HIDE DEF rs, from
<1>6. reqs' = Follows(rs, None, None, from)
  BY <1>4 DEF rs
<1>7. \A q \in Range(Follows(rs, None, None, from)) : ReqOK(q)'
  BY <1>1, <1>3, <1>5, FollowsOK
<1>8. \A q \in Range(Follows(rs, None, None, from)) : Quiet(q)
  BY <1>1, <1>3, <1>5, QuietFollows
<1>9. Follows(rs, None, None, from) \in Seq(ReqType)
  BY <1>1, <1>5, FollowsAt
<1>10. ReqsInv'
  <2>1. \A q \in Range(reqs') : ReqOK(q)'
    BY <1>6, <1>7
  <2> QED BY <2>1, ReqsFrom
<1>11. ScreenInv'
  BY DEF ScreenInv, IdOf
<1>12. KeptInv'
  <2>1. \A j \in DOMAIN reqs' : Quiet(reqs'[j])
    BY <1>6, <1>8 DEF Range
  <2> QED BY <2>1, KeptFrom
<1> QED BY <1>10, <1>11, <1>12 DEF OrderInv

\* A form is asked for.
LEMMA OrderOpenForm ==
  ASSUME TypeInv, OrderInv, NEW op \in screen.ops, OpenForm(op)
  PROVE  OrderInv'
<1> DEFINE r == Request("form", shown.of, op, Here, <<>>)
<1>1. /\ asked # None /\ shown # None /\ reqs' \in {reqs, Append(reqs, r)}
      /\ UNCHANGED <<screen, asked, held, local, panel, crossed>>
  BY DEF OpenForm, Visible
<1>2. CASE reqs' = reqs
  BY <1>1, <1>2, OrderOtherUser
<1>3. CASE reqs' = Append(reqs, r)
  <2>1. /\ r \in ReqType /\ r.what = "form" /\ r.of = shown.of /\ r.page = asked /\ r.own = IdOf(prop)
        /\ ~r.left /\ r.then = <<>> /\ shown.of \in Orders
    BY <1>1, FormType
  <2>2. ~crossed => shown.of = asked /\ IdOf(prop) \in {None, asked}
    <3>1. ~crossed => IdOf(held) \in {None, asked} /\ IdOf(local) \in {None, asked}
      BY DEF OrderInv, ScreenInv
    <3>2. shown \in {held, local} /\ prop = held
      BY <1>1 DEF shown, Shown, prop, Prop
    <3>3. IdOf(shown) = shown.of
      BY <1>1 DEF IdOf
    <3>4. shown.of # None
      BY <2>1, NoneIsNone
    <3> QED BY <3>1, <3>2, <3>3, <3>4
  <2> HIDE DEF r
  <2>3. ASSUME NEW q, q = r
        PROVE  ReqOK(q)' /\ Quiet(q)
    <3>1. <<>> # <<"copy", "refresh">>
      BY TheChains
    <3> QED BY <1>1, <2>1, <2>2, <2>3, <3>1 DEF ReqOK, OpOK, LoadsOrder, Quiet, Works
  <2>4. ASSUME NEW q \in Range(reqs)
        PROVE  ReqOK(q)'
    <3>1. ReqOK(q)
      BY DEF OrderInv, ReqsInv, Range
    <3> QED BY <1>1, <3>1, SameOK
  <2>5. ReqsInv'
    <3>1. \A q \in Range(reqs') : ReqOK(q)'
      BY <1>3, <2>1, <2>3, <2>4, ShownNow, RangeAppend
    <3> QED BY <3>1, ReqsFrom
  <2>6. ScreenInv'
    BY <1>1 DEF OrderInv, ScreenInv
  <2>7. KeptInv'
    <3>1. ASSUME screen'.copies, ~crossed', held' = None
          PROVE  local' = None /\ \A j \in DOMAIN reqs' : Quiet(reqs'[j])
      <4>1. local = None /\ \A j \in DOMAIN reqs : Quiet(reqs[j])
        BY <1>1, <3>1, KeptNow DEF OrderInv
      <4>2. \A q \in Range(reqs) : Quiet(q)
        BY <4>1 DEF Range
      <4>3. \A q \in Range(Append(reqs, r)) : Quiet(q)
        BY <2>1, <2>3, <4>2, ShownNow, RangeAppend
      <4>4. Append(reqs, r) \in Seq(ReqType)
        BY <2>1, ShownNow, AppendAt
      <4> QED BY <1>1, <1>3, <4>1, <4>3, <4>4, QuietFrom
    <3> QED BY <3>1, KeptFrom
  <2> QED BY <2>5, <2>6, <2>7 DEF OrderInv
<1> QED BY <1>1, <1>2, <1>3

\* The next request of an operation is of the order the first one was of.
LEMMA OrderPartDone ==
  ASSUME TypeInv, OrderInv, NEW i \in DOMAIN reqs, PartDone(i)
  PROVE  OrderInv'
<1> DEFINE r == reqs[i]
           n == NextPart(r)
<1>1. /\ r.what = "op" /\ r.part < r.op.parts /\ reqs' = Append(Others(i), n)
      /\ UNCHANGED <<screen, asked, held, local, panel, crossed>>
  BY DEF PartDone
<1>2. r \in ReqType /\ Others(i) \in Seq(ReqType)
  BY RestAt
<1>3. /\ n \in ReqType
      /\ n.what = "op" /\ n.of = r.of /\ n.op = r.op /\ n.page = r.page /\ n.own = r.own
      /\ n.at = r.at /\ n.left = r.left /\ n.then = <<>> /\ n.fields = r.fields /\ n.part = r.part + 1
  BY <1>2, NextPartAt
<1> HIDE DEF n
<1>4. ASSUME NEW x, x = r, NEW q, q = n
      PROVE  ReqOK(q)'
  <2>1. ReqOK(x)'
    BY <1>1, <1>4, OthersOK DEF OrderInv
  <2>2. x.op \in screen'.ops /\ x.part \in 1 .. x.op.parts /\ x.then = <<>>
    BY <1>1, <1>4, <2>1 DEF ReqOK, OpOK
  <2>3. x.op.parts \in Nat
    BY <1>1, <2>2, ScreensAssumption DEF TypeInv, Screen, Operation
  <2>4. x.part + 1 \in 1 .. x.op.parts
    <3> HIDE DEF r
    <3>1. x.part < x.op.parts
      BY <1>1, <1>4
    <3> QED BY <2>2, <2>3, <3>1
  <2>5. <<>> # <<"copy", "refresh">>
    BY TheChains
  <2>6. /\ q.what = "op" /\ q.of = x.of /\ q.op = x.op /\ q.page = x.page /\ q.own = x.own
        /\ q.at = x.at /\ q.left = x.left /\ q.then = <<>> /\ q.fields = x.fields /\ q.part = x.part + 1
        /\ x.what = "op"
    BY <1>1, <1>3, <1>4
  <2>7. OpOK(q)'
    BY <2>1, <2>4, <2>6 DEF ReqOK, OpOK
  <2> QED BY <2>1, <2>5, <2>6, <2>7 DEF ReqOK, LoadsOrder
<1>5. ReqsInv'
  <2>1. \A q \in Range(Others(i)) : ReqOK(q)'
    BY <1>1, OthersOK DEF OrderInv
  <2>2. \A q \in Range(reqs') : ReqOK(q)'
    BY <1>1, <1>2, <1>3, <1>4, <2>1, RangeAppend
  <2> QED BY <2>2, ReqsFrom
<1>6. ScreenInv'
  BY <1>1 DEF OrderInv, ScreenInv
<1>7. KeptInv'
  <2>1. ASSUME screen'.copies, ~crossed', held' = None
        PROVE  local' = None /\ \A j \in DOMAIN reqs' : Quiet(reqs'[j])
    <3>1. local = None /\ \A j \in DOMAIN reqs : Quiet(reqs[j])
      BY <1>1, <2>1, KeptNow DEF OrderInv
    <3>2. r.left /\ \A q \in Range(Others(i)) : Quiet(q)
      BY <1>1, <3>1, QuietOthers
    <3>3. Quiet(n)
      BY <1>3, <3>2 DEF Quiet
    <3>4. \A q \in Range(Append(Others(i), n)) : Quiet(q)
      BY <1>2, <1>3, <3>2, <3>3, RangeAppend
    <3>5. Append(Others(i), n) \in Seq(ReqType)
      BY <1>2, <1>3, AppendAt
    <3> QED BY <1>1, <3>1, <3>4, <3>5, QuietFrom
  <2> QED BY <2>1, KeptFrom
<1> QED BY <1>5, <1>6, <1>7 DEF OrderInv

LEMMA OrderNext == TypeInv /\ OrderInv /\ FormsInv /\ [Next]_vars => OrderInv'
<1> SUFFICES ASSUME TypeInv, OrderInv, FormsInv, [Next]_vars PROVE OrderInv'
  OBVIOUS
<1>1. CASE UNCHANGED vars
  BY <1>1, OrderOtherUser DEF vars
<1>2. ASSUME NEW o \in Orders, OtherUser(o)
      PROVE  OrderInv'
  BY <1>2, OrderOtherUser DEF OtherUser
<1>3. ASSUME NEW i \in DOMAIN reqs, OpFails(i)
      PROVE  OrderInv'
  BY <1>3, OrderFails DEF OpFails
<1>4. ASSUME NEW i \in DOMAIN reqs, LoadFails(i)
      PROVE  OrderInv'
  <2>1. UNCHANGED screen /\ (crossed => crossed')
    BY <1>4 DEF LoadFails
  <2>2. Others(i) \o <<>> = Others(i)
    BY RestAt
  <2>3. CASE reqs[i].what = "detail" /\ screen.frame.modal
    <3>1. /\ asked' = None /\ held' = None /\ local' = None /\ panel' = None
          /\ reqs' = Follows(Leaves(Others(i)), None, None, Here)
      BY <1>4, <2>3 DEF LoadFails
    <3> QED BY <2>1, <3>1, OrderFailsClosed
  <2>4. CASE ~ (reqs[i].what = "detail" /\ screen.frame.modal)
    <3>1. /\ reqs' \in {Others(i) \o <<>>, Others(i) \o Continues(reqs[i])}
          /\ panel' \in {panel, None} /\ UNCHANGED <<asked, held, local>>
      BY <1>4, <2>4 DEF LoadFails
    <3> QED BY <2>1, <2>2, <3>1, OrderFails
  <2> QED BY <2>3, <2>4
<1>5. ASSUME NEW i \in DOMAIN reqs,
             Serve(i) \/ OrderArrives(i) \/ CopyArrives(i) \/ PanelArrives(i) \/ PartDone(i) \/ OpDone(i)
      PROVE  OrderInv'
  BY <1>5, OrderServe, OrderOrderArrives, OrderCopyArrives, OrderPanelArrives, OrderPartDone, OrderOpDone
<1>6. ASSUME NEW i \in DOMAIN reqs, FormArrives(i)
      PROVE  OrderInv'
  BY <1>6, OrderFails DEF FormArrives, Applies
<1>7. ASSUME NEW op \in screen.ops, CloseForm(op)
      PROVE  OrderInv'
  BY <1>7, OrderOtherUser DEF CloseForm
<1> QED BY <1>1, <1>2, <1>3, <1>4, <1>5, <1>6, <1>7, OrderOpen, OrderClose, OrderPolled, OrderOperate,
           OrderOpenForm DEF Next

-----------------------------------------------------------------------------
(* What the forms were filled from. *)

LEMMA FormsStay ==
  ASSUME TypeInv, OrderInv, FormsInv, crossed => crossed',
         \/ forms' = [op \in DOMAIN forms |-> None]
         \/ asked' = asked /\ forms' = forms
         \/ asked = None /\ forms' = forms
         \/ /\ asked' = asked
            /\ \E x : \E o \in Order0 : forms' = [forms EXCEPT ![x] = o] /\ (~crossed' => o \in {None, asked})
  PROVE  FormsInv'
<1> SUFFICES ASSUME ~crossed'
             PROVE  \A op \in DOMAIN forms' : forms'[op] \in {None, asked'}
  BY DEF FormsInv
<1>1. \A op \in DOMAIN forms : forms[op] \in {None, asked}
  BY DEF FormsInv
<1>2. CASE forms' = [op \in DOMAIN forms |-> None]
  BY <1>2
<1>3. CASE asked' = asked /\ forms' = forms
  BY <1>1, <1>3
<1>4. CASE asked = None /\ forms' = forms
  BY <1>1, <1>4
<1>5. ASSUME asked' = asked, NEW x, NEW o \in {None, asked}, forms' = [forms EXCEPT ![x] = o]
      PROVE  \A op \in DOMAIN forms' : forms'[op] \in {None, asked'}
  BY <1>1, <1>5
<1> QED BY <1>2, <1>3, <1>4, <1>5

LEMMA FormsNext == TypeInv /\ OrderInv /\ FormsInv /\ [Next]_vars => FormsInv'
<1> SUFFICES ASSUME TypeInv, OrderInv, FormsInv, [Next]_vars PROVE FormsInv'
  OBVIOUS
<1>1. CASE UNCHANGED vars
  BY <1>1, FormsStay DEF vars
<1>2. ASSUME NEW o \in Orders, Open(o) \/ OtherUser(o)
      PROVE  FormsInv'
  BY <1>2, FormsStay DEF Open, OtherUser
<1>3. CASE Close \/ Polled
  BY <1>3, FormsStay DEF Close, Polled
<1>4. ASSUME NEW op \in screen.ops, OpenForm(op)
      PROVE  FormsInv'
  <2>1. shown # None /\ asked # None /\ UNCHANGED <<asked, crossed>>
    BY <1>4 DEF OpenForm, Visible
  <2>2. shown.of \in Order0 /\ (panel # None => panel.of \in Order0)
    BY <2>1, ShownNow DEF Copy0, Copy, Order0
  <2>3. ~crossed => shown.of \in {None, asked} /\ (panel # None => panel.of \in {None, asked})
    <3>1. ~crossed => /\ IdOf(held) \in {None, asked} /\ IdOf(local) \in {None, asked}
                      /\ IdOf(panel) \in {None, asked}
      BY DEF OrderInv, ScreenInv
    <3>2. shown \in {held, local}
      BY <2>1 DEF shown, Shown, prop, Prop
    <3>3. IdOf(shown) = shown.of /\ (panel # None => IdOf(panel) = panel.of)
      BY <2>1 DEF IdOf
    <3> QED BY <3>1, <3>2, <3>3
  <2>4. \/ forms' = [forms EXCEPT ![op] = shown.of]
        \/ panel # None /\ forms' = [forms EXCEPT ![op] = panel.of]
        \/ forms' = forms
    BY <1>4 DEF OpenForm
  <2>5. CASE forms' = [forms EXCEPT ![op] = shown.of]
    BY <2>1, <2>2, <2>3, <2>5, FormsStay
  <2>6. CASE panel # None /\ forms' = [forms EXCEPT ![op] = panel.of]
    BY <2>1, <2>2, <2>3, <2>6, FormsStay
  <2>7. CASE forms' = forms
    BY <2>1, <2>7, FormsStay
  <2> QED BY <2>4, <2>5, <2>6, <2>7
<1>5. ASSUME NEW op \in screen.ops, CloseForm(op) \/ Operate(op)
      PROVE  FormsInv'
  <2>1. /\ UNCHANGED <<asked, crossed>> /\ None \in Order0
        /\ forms' = forms \/ forms' = [forms EXCEPT ![op] = None]
    BY <1>5 DEF CloseForm, Operate, Order0
  <2> QED BY <2>1, FormsStay
<1>6. ASSUME NEW i \in DOMAIN reqs, Serve(i) \/ PanelArrives(i) \/ PartDone(i) \/ OpFails(i)
      PROVE  FormsInv'
  <2>1. UNCHANGED <<asked, forms>> /\ (crossed => crossed')
    <3>1. CASE Serve(i)
      BY <3>1 DEF Serve
    <3>2. CASE PanelArrives(i)
      BY <3>2 DEF PanelArrives, Applies
    <3>3. CASE PartDone(i) \/ OpFails(i)
      BY <3>3 DEF PartDone, OpFails
    <3> QED BY <1>6, <3>1, <3>2, <3>3
  <2> QED BY <2>1, FormsStay
<1>7. ASSUME NEW i \in DOMAIN reqs, OrderArrives(i) \/ CopyArrives(i)
      PROVE  FormsInv'
  <2>1. forms' = forms /\ (crossed => crossed')
    BY <1>7 DEF OrderArrives, CopyArrives, Applies
  <2>2. asked' = asked
    <3>1. CASE OrderArrives(i)
      BY <3>1 DEF OrderArrives, Renders
    <3>2. CASE CopyArrives(i)
      BY <3>2 DEF CopyArrives, Renders
    <3> QED BY <1>7, <3>1, <3>2
  <2> QED BY <2>1, <2>2, FormsStay
<1>8. ASSUME NEW i \in DOMAIN reqs, FormArrives(i)
      PROVE  FormsInv'
  <2>1. /\ UNCHANGED asked /\ crossed' = (crossed \/ reqs[i].left)
        /\ forms' = [forms EXCEPT ![reqs[i].op] = reqs[i].of]
    BY <1>8 DEF FormArrives, Applies
  <2>2. reqs[i].of \in Order0
    BY RestAt, ReqParts DEF Order0
  <2>3. ~crossed' => reqs[i].of = asked
    BY <2>1, AnswerOf
  <2> QED BY <2>1, <2>2, <2>3, FormsStay
<1>9. ASSUME NEW i \in DOMAIN reqs, OpDone(i)
      PROVE  FormsInv'
  <2>1. /\ UNCHANGED <<asked, crossed>> /\ None \in Order0
        /\ forms' = forms \/ forms' = [forms EXCEPT ![reqs[i].op] = None]
    BY <1>9 DEF OpDone, Order0
  <2> QED BY <2>1, FormsStay
<1>10. ASSUME NEW i \in DOMAIN reqs, LoadFails(i)
       PROVE  FormsInv'
  <2>1. /\ crossed => crossed'
        /\ forms' = [op \in DOMAIN forms |-> None] \/ UNCHANGED <<asked, forms>>
    BY <1>10 DEF LoadFails
  <2> QED BY <2>1, FormsStay
<1> QED BY <1>1, <1>2, <1>3, <1>4, <1>5, <1>6, <1>7, <1>8, <1>9, <1>10 DEF Next

LEMMA OrderHits == OrderInv => OperationsHitTheirOrder
<1> SUFFICES ASSUME OrderInv, NEW r \in Range(reqs), r.what = "op", ~crossed
             PROVE  r.of = r.page /\ r.fields \in {None, r.of}
  BY DEF OperationsHitTheirOrder
<1>1. ReqOK(r)
  BY DEF OrderInv, ReqsInv, Range
<1> QED BY <1>1 DEF ReqOK, OpOK

\* An operation goes to the order its screen was opened on, and the fields it
\* sends are that order's, though its form was filled some time before and the
\* answers of several requests may have come since, on every screen and however
\* many requests are under way.  The argument: until an answer of an earlier
\* dialog is applied, everything the screen has, every form that is open and
\* every request that was made is of the order the dialog is open on, and a
\* dialog with its own copy has one only while the page has the order, too.
THEOREM OperationsReachTheirOrder == Spec => []OperationsHitTheirOrder
<1>1. Init => TypeInv /\ OrderInv /\ FormsInv
  <2>1. Init => FormsInv
    BY DEF Init, FormsInv
  <2> QED BY <2>1, TypeInit, OrderInit
<1>2. TypeInv /\ OrderInv /\ FormsInv /\ [Next]_vars => TypeInv' /\ OrderInv' /\ FormsInv'
  BY TypeNext, OrderNext, FormsNext
<1>3. TypeInv /\ OrderInv => OperationsHitTheirOrder
  BY OrderHits
<1> QED BY <1>1, <1>2, <1>3, PTL DEF Spec

-----------------------------------------------------------------------------
(* The page knows of no version the server does not have. *)

\* A request that was under way before, or has just been made.
Sprung(q) ==
  \/ ~q.served /\ (q.dropped => q.what \in {"op", "panel"})
  \/ \E x \in Range(reqs) : Aged(x, q) /\ (q.dropped => x.dropped \/ x.what \in {"op", "panel"})

LEMMA SprungOld ==
  ASSUME NEW x \in Range(reqs), NEW q, Aged(x, q), q.dropped = x.dropped
  PROVE  Sprung(q)
BY DEF Sprung

LEMMA SprungOthers ==
  ASSUME TypeInv, NEW i \in DOMAIN reqs
  PROVE  \A q \in Range(Others(i)) : Sprung(q)
<1>1. ASSUME NEW q \in Range(Others(i))
      PROVE  Sprung(q)
  <2>1. PICK m \in DOMAIN Others(i) : q = Others(i)[m]
    BY DEF Range
  <2>2. PICK k \in DOMAIN reqs : Aged(reqs[k], q) /\ q.dropped = reqs[k].dropped
    BY <2>1, ShownNow, OthersAt
  <2>3. reqs[k] \in Range(reqs)
    BY DEF Range
  <2> QED BY <2>2, <2>3, SprungOld
<1> QED BY <1>1

LEMMA SprungContinues ==
  ASSUME NEW r, r.then \in AllChains, r.of \in Orders, r.op \in Operation \cup {None},
         r.page \in Order0, r.own \in Order0, r.at \in Order0, r.left \in BOOLEAN
  PROVE  \A q \in Range(Continues(r)) : ~q.served /\ ~q.dropped
<1>1. CASE Continues(r) = <<>>
  BY <1>1, NoSeq DEF Range
<1>2. CASE Continues(r) # <<>>
  <2>1. PICK p \in ReqType : Continues(r) = <<p>> /\ ~p.served /\ ~p.dropped
    BY <1>2, ContinuesAt
  <2> QED BY <2>1, SingleSeq DEF Range
<1> QED BY <1>1, <1>2

LEMMA SprungRest ==
  ASSUME TypeInv, NEW i \in DOMAIN reqs
  PROVE  \A q \in Range(Others(i) \o Continues(reqs[i])) : Sprung(q)
<1> DEFINE r == reqs[i]
<1>1. r \in ReqType /\ Others(i) \in Seq(ReqType) /\ Continues(r) \in Seq(ReqType)
  BY RestAt, ThensAt
<1>2. r.then \in AllChains /\ r.of \in Orders /\ r.op \in Operation \cup {None}
      /\ r.page \in Order0 /\ r.own \in Order0 /\ r.at \in Order0 /\ r.left \in BOOLEAN
  BY <1>1, ReqParts, ThensAt
<1> HIDE DEF r
<1>3. \A q \in Range(Continues(r)) : ~q.served /\ ~q.dropped
  BY <1>2, SprungContinues
<1> QED BY <1>1, <1>3, SprungOthers, RangeConcat DEF Sprung, r

\* The loads after an operation have all just been made.
LEMMA DoneFresh ==
  ASSUME TypeInv, NEW i \in DOMAIN reqs, reqs[i].what = "op", NEW k \in {1, 2}
  PROVE  \A q \in Range(Continues([reqs[i] EXCEPT !.then = Steps(reqs[i].op)[k]])) : ~q.served /\ ~q.dropped
<1> DEFINE r == reqs[i]
           s == Steps(r.op)[k]
           y == [r EXCEPT !.then = s]
<1>1. r \in ReqType
  BY RestAt
<1>2. s \in AllChains
  BY <1>1, StepsAt
<1>3. y.then \in AllChains /\ y.of \in Orders /\ y.op \in Operation \cup {None}
      /\ y.page \in Order0 /\ y.own \in Order0 /\ y.at \in Order0 /\ y.left \in BOOLEAN
  BY <1>1, <1>2, ThenAt, ReqParts
<1> HIDE DEF y
<1>4. \A q \in Range(Continues(y)) : ~q.served /\ ~q.dropped
  BY <1>3, SprungContinues
<1> QED BY <1>4 DEF y

LEMMA SprungAged ==
  ASSUME NEW r, NEW q, Sprung(r), Aged(r, q), q.dropped = r.dropped \/ r.what = "panel"
  PROVE  Sprung(q)
<1>1. CASE ~r.served /\ (r.dropped => r.what \in {"op", "panel"})
  BY <1>1 DEF Sprung, Aged
<1>2. CASE \E x \in Range(reqs) : Aged(x, r) /\ (r.dropped => x.dropped \/ x.what \in {"op", "panel"})
  <2>1. PICK x \in Range(reqs) : Aged(x, r) /\ (r.dropped => x.dropped \/ x.what \in {"op", "panel"})
    BY <1>2
  <2>2. Aged(x, q) /\ x.what = r.what
    BY <2>1 DEF Aged
  <2> QED BY <2>1, <2>2 DEF Sprung
<1> QED BY <1>1, <1>2 DEF Sprung

LEMMA SprungLeaves ==
  ASSUME NEW rs \in Seq(ReqType), \A q \in Range(rs) : Sprung(q)
  PROVE  \A q \in Range(Leaves(rs)) : Sprung(q)
<1>1. ASSUME NEW q \in Range(Leaves(rs))
      PROVE  Sprung(q)
  <2>1. PICK m \in DOMAIN Leaves(rs) : q = Leaves(rs)[m]
    BY DEF Range
  <2>2. m \in DOMAIN rs /\ Aged(rs[m], q) /\ q.dropped = rs[m].dropped
    BY <2>1, LeavesAt
  <2>3. Sprung(rs[m])
    BY <2>2 DEF Range
  <2> QED BY <2>2, <2>3, SprungAged
<1> QED BY <1>1

LEMMA SprungFollows ==
  ASSUME NEW rs \in Seq(ReqType), NEW a \in Order0, NEW d \in Order0, NEW from,
         from.page \in Order0, from.own \in Order0, from.at \in Order0, from.left \in BOOLEAN,
         \A q \in Range(rs) : Sprung(q)
  PROVE  \A q \in Range(Follows(rs, a, d, from)) : Sprung(q)
<1> DEFINE f == Follows(rs, a, d, from)
<1>1. /\ f \in Seq(ReqType)
      /\ Len(f) = Len(rs) \/ Started(f, rs)
      /\ Started(f, rs) => d # None /\ a # None /\ f[Len(f)] = Request("panel", d, None, from, <<>>)
      /\ \A m \in DOMAIN rs : /\ m \in DOMAIN f /\ Aged(rs[m], f[m])
                              /\ f[m].dropped = rs[m].dropped \/ rs[m].what = "panel"
  BY FollowsAt
<1> HIDE DEF f
<1>2. ASSUME NEW m \in DOMAIN f
      PROVE  Sprung(f[m])
  <2>1. CASE m \in DOMAIN rs
    <3>1. Sprung(rs[m])
      BY <2>1 DEF Range
    <3> QED BY <1>1, <2>1, <3>1, SprungAged
  <2>2. CASE m \notin DOMAIN rs
    <3>1. Started(f, rs) /\ m = Len(f)
      <4>1. Len(f) = Len(rs) \/ Len(f) = Len(rs) + 1
        BY <1>1 DEF Started
      <4>2. DOMAIN f = 1 .. Len(f) /\ DOMAIN rs = 1 .. Len(rs) /\ Len(rs) \in Nat /\ Len(f) \in Nat
        BY <1>1
      <4> QED BY <2>2, <4>1, <4>2, LastPlace DEF Started
    <3>2. ~f[m].served /\ ~f[m].dropped
      BY <1>1, <3>1, RequestFields
    <3> QED BY <3>2 DEF Sprung
  <2> QED BY <2>1, <2>2
<1> QED BY <1>2 DEF Range, f

LEMMA SprungRenders ==
  ASSUME TypeInv, NEW a \in Order0, NEW h \in Copy0, NEW l \in Copy0, NEW rs \in Seq(ReqType),
         Renders(a, h, l, rs), \A q \in Range(rs) : Sprung(q)
  PROVE  \A q \in Range(reqs') : Sprung(q)
<1> DEFINE p == Prop(a, h)
           d == IdOf(Shown(p, local'))
           from == [page |-> a, own |-> IdOf(p), at |-> None, left |-> FALSE]
<1>1. reqs' = Follows(rs, a, d, from) /\ IdOf(p) \in Order0 /\ d \in Order0
  BY RendersAt
<1>2. from.page \in Order0 /\ from.own \in Order0 /\ from.at \in Order0 /\ from.left \in BOOLEAN
  BY <1>1 DEF Order0
<1> HIDE DEF p, d, from
<1>3. \A q \in Range(Follows(rs, a, d, from)) : Sprung(q)
  BY <1>1, <1>2, SprungFollows
<1> QED BY <1>1, <1>3

\* Versions only grow on the server, and the page learns of those it is told of.
LEMMA WrittenFrom ==
  ASSUME TypeInv, TypeInv', WrittenInv, UNCHANGED screen,
         \A o \in Orders : server[o].order <= server'[o].order /\ server[o].panel <= server'[o].panel,
         \A o \in Orders : saved'[o].order <= server'[o].order /\ saved'[o].panel <= server'[o].panel,
         screen.panel.loads = "none" => \A o \in Orders : saved'[o].panel = 0,
         \A q \in Range(reqs') : Sprung(q)
  PROVE  WrittenInv'
<1>1. ASSUME NEW q \in Range(reqs')
      PROVE  /\ q.served => q.v.order <= server'[q.of].order /\ q.v.panel <= server'[q.of].panel
             /\ q.dropped => q.what \in {"op", "panel"}
  <2>1. CASE ~q.served /\ (q.dropped => q.what \in {"op", "panel"})
    BY <2>1
  <2>2. ASSUME NEW x \in Range(reqs), Aged(x, q), q.dropped => x.dropped \/ x.what \in {"op", "panel"}
        PROVE  /\ q.served => q.v.order <= server'[q.of].order /\ q.v.panel <= server'[q.of].panel
               /\ q.dropped => q.what \in {"op", "panel"}
    <3>1. PICK k \in DOMAIN reqs : x = reqs[k]
      BY DEF Range
    <3>2. x \in ReqType
      BY <3>1, ReqAt DEF TypeInv
    <3>3. x.of \in Orders /\ x.v.order \in Nat /\ x.v.panel \in Nat
      BY <3>2, ReqParts
    <3>4. /\ server[x.of].order \in Nat /\ server'[x.of].order \in Nat
          /\ server[x.of].panel \in Nat /\ server'[x.of].panel \in Nat
      BY <3>3 DEF TypeInv, Versions
    <3>5. /\ x.served => x.v.order <= server[x.of].order /\ x.v.panel <= server[x.of].panel
          /\ x.dropped => x.what \in {"op", "panel"}
      BY <3>1 DEF WrittenInv
    <3>6. q.served = x.served /\ q.v = x.v /\ q.of = x.of /\ q.what = x.what
      BY <2>2 DEF Aged
    <3>7. server[x.of].order <= server'[x.of].order /\ server[x.of].panel <= server'[x.of].panel
      BY <3>3
    <3>8. x.served => x.v.order <= server'[x.of].order /\ x.v.panel <= server'[x.of].panel
      BY <3>3, <3>4, <3>5, <3>7
    <3> QED BY <2>2, <3>5, <3>6, <3>8
  <2> QED BY <2>1, <2>2 DEF Sprung
<1>2. \A j \in DOMAIN reqs' : reqs'[j] \in Range(reqs')
  BY DEF Range
<1> QED BY <1>1, <1>2 DEF WrittenInv

LEMMA SprungReqs == \A q \in Range(reqs) : Sprung(q)
BY DEF Sprung, Aged

LEMMA SprungAppend ==
  ASSUME NEW s \in Seq(ReqType), NEW x \in ReqType, ~x.served, ~x.dropped, \A q \in Range(s) : Sprung(q)
  PROVE  \A q \in Range(Append(s, x)) : Sprung(q)
BY RangeAppend DEF Sprung

LEMMA SprungUser ==
  ASSUME TypeInv, \/ \E o \in Orders : Open(o) \/ OtherUser(o)
                  \/ Close \/ Polled
                  \/ \E op \in screen.ops : OpenForm(op) \/ CloseForm(op) \/ Operate(op)
  PROVE  \A q \in Range(reqs') : Sprung(q)
<1>1. ASSUME NEW o \in Orders, Open(o)
      PROVE  \A q \in Range(reqs') : Sprung(q)
  <2>1. Renders(o, held, local, Append(reqs, Detail(o)))
    BY <1>1 DEF Open
  <2>2. \A q \in Range(Append(reqs, Detail(o))) : Sprung(q)
    BY ShownNow, DetailType, SprungReqs, SprungAppend
  <2> QED BY <2>1, <2>2, OpenAt, ShownNow, SprungRenders
<1>2. ASSUME NEW o \in Orders, OtherUser(o)
      PROVE  \A q \in Range(reqs') : Sprung(q)
  BY <1>2, SprungReqs DEF OtherUser
<1>3. CASE Close
  <2>1. Renders(None, None, None, Leaves(reqs))
    BY <1>3 DEF Close
  <2>2. None \in Order0 /\ None \in Copy0 /\ Leaves(reqs) \in Seq(ReqType)
    BY ShownNow, LeavesAt DEF Order0, Copy0
  <2>3. \A q \in Range(Leaves(reqs)) : Sprung(q)
    BY ShownNow, SprungReqs, SprungLeaves
  <2> QED BY <2>1, <2>2, <2>3, SprungRenders
<1>4. CASE Polled
  <2> DEFINE sent == SetToSeq({j \in DOMAIN reqs : reqs[j].what = "op"})
             kept == [k \in DOMAIN sent |-> [reqs[sent[k]] EXCEPT !.dropped = TRUE]]
  <2>1. kept \in Seq(ReqType) /\ \A q \in Range(kept) : \E r \in Range(reqs) : r.what = "op" /\ Aged(r, q)
    BY SentAt, ShownNow
  <2>2. reqs' = Append(kept, Detail(asked))
    BY <1>4 DEF Polled
  <2> HIDE DEF kept
  <2>3. \A q \in Range(kept) : Sprung(q)
    BY <2>1 DEF Sprung
  <2>4. asked \in Orders
    <3>1. screen.polls /\ shown # None /\ screen \in Screens
      BY <1>4 DEF Polled, TypeInv
    <3>2. local = None
      BY <3>1, PartsAssumption DEF TypeInv
    <3> QED BY <3>1, <3>2, ShownNow DEF shown, prop, Shown, Prop, Order0
  <2>5. Detail(asked) \in ReqType /\ ~Detail(asked).served /\ ~Detail(asked).dropped
    BY <2>4, DetailType
  <2> QED BY <2>1, <2>2, <2>3, <2>5, SprungAppend
<1>5. ASSUME NEW op \in screen.ops, Operate(op)
      PROVE  \A q \in Range(reqs') : Sprung(q)
  <2> DEFINE r == Sent(op)
  <2>1. /\ reqs' = Append(reqs, r) /\ shown # None
        /\ op.form \notin {"none", "follows"} => forms[op] # None
    BY <1>5 DEF Operate, Visible
  <2>2. r \in ReqType /\ ~r.served /\ ~r.dropped
    BY <2>1, OpType
  <2> HIDE DEF r
  <2> QED BY <2>1, <2>2, ShownNow, SprungReqs, SprungAppend
<1>6. ASSUME NEW op \in screen.ops, OpenForm(op) \/ CloseForm(op)
      PROVE  \A q \in Range(reqs') : Sprung(q)
  <2> DEFINE r == Request("form", shown.of, op, Here, <<>>)
  <2>1. reqs' \in {reqs, Append(reqs, r)} /\ shown # None
    BY <1>6 DEF OpenForm, CloseForm, Visible
  <2>2. r \in ReqType /\ ~r.served /\ ~r.dropped
    BY <2>1, FormType
  <2> HIDE DEF r
  <2> QED BY <2>1, <2>2, ShownNow, SprungReqs, SprungAppend
<1> QED BY <1>1, <1>2, <1>3, <1>4, <1>5, <1>6

LEMMA SprungAnswers ==
  ASSUME TypeInv, NEW i \in DOMAIN reqs,
         \/ OrderArrives(i) \/ CopyArrives(i) \/ PanelArrives(i) \/ FormArrives(i)
         \/ PartDone(i) \/ OpDone(i) \/ OpFails(i) \/ LoadFails(i)
  PROVE  \A q \in Range(reqs') : Sprung(q)
<1> DEFINE r == reqs[i]
           rest == Others(i) \o Continues(r)
<1>1. Others(i) \in Seq(ReqType) /\ rest \in Seq(ReqType) /\ Others(i) \o <<>> = Others(i)
  BY RestAt
<1>2. (\A q \in Range(Others(i)) : Sprung(q)) /\ \A q \in Range(rest) : Sprung(q)
  BY SprungOthers, SprungRest
<1>3. CASE OrderArrives(i)
  <2>1. Renders(asked, [of |-> r.of, v |-> r.v.order], local, Others(i) \o Rows(r))
    BY <1>3 DEF OrderArrives
  <2>2. [of |-> r.of, v |-> r.v.order] \in Copy0
    BY AnswerCopy DEF Copy0
  <2>3. Others(i) \o Rows(r) \in Seq(ReqType) /\ Rows(r) \in Seq(ReqType) /\ r \in ReqType
    BY RestAt, RowsAt
  <2>4. \A q \in Range(Rows(r)) : ~q.served /\ ~q.dropped
    BY <2>3, RowsAt, NoSeq, SingleSeq DEF Range
  <2>5. \A q \in Range(Others(i) \o Rows(r)) : Sprung(q)
    <3> HIDE DEF r
    <3> QED BY <1>1, <1>2, <2>3, <2>4, RangeConcat DEF Sprung
  <2> QED BY <2>1, <2>2, <2>3, <2>5, ShownNow, SprungRenders
<1>4. CASE CopyArrives(i)
  <2>1. Renders(asked, held, [of |-> r.of, v |-> r.v.order], rest)
    BY <1>4 DEF CopyArrives
  <2>2. [of |-> r.of, v |-> r.v.order] \in Copy0
    BY AnswerCopy DEF Copy0
  <2> QED BY <1>1, <1>2, <2>1, <2>2, ShownNow, SprungRenders
<1>5. CASE PanelArrives(i)
  BY <1>2, <1>5 DEF PanelArrives
<1>6. CASE OpDone(i)
  <2> DEFINE first == Continues([r EXCEPT !.then = Steps(r.op)[1]])
             second == Continues([r EXCEPT !.then = Steps(r.op)[2]])
  <2>1. r.what = "op" /\ reqs' \in {Others(i), (Others(i) \o first) \o second}
    BY <1>6 DEF OpDone
  <2>2. first \in Seq(ReqType) /\ second \in Seq(ReqType) /\ Others(i) \o first \in Seq(ReqType)
    BY <2>1, DoneAt
  <2>3. \A q \in Range(first) \cup Range(second) : Sprung(q)
    BY <2>1, DoneFresh DEF Sprung
  <2> HIDE DEF first, second
  <2>4. \A q \in Range(Others(i) \o first) : Sprung(q)
    BY <1>1, <1>2, <2>2, <2>3, RangeConcat
  <2>5. \A q \in Range((Others(i) \o first) \o second) : Sprung(q)
    BY <2>2, <2>3, <2>4, RangeConcat
  <2> QED BY <1>2, <2>1, <2>5
<1>7. CASE OpFails(i) \/ FormArrives(i)
  BY <1>2, <1>7 DEF OpFails, FormArrives
<1>9. CASE PartDone(i)
  <2>1. reqs' = Append(Others(i), NextPart(r)) /\ r \in ReqType
    BY <1>9, RestAt DEF PartDone
  <2>2. NextPart(r) \in ReqType /\ ~NextPart(r).served /\ ~NextPart(r).dropped
    BY <2>1, NextPartAt
  <2> QED BY <1>1, <1>2, <2>1, <2>2, SprungAppend
<1>8. CASE LoadFails(i)
  <2>1. reqs' \in {Follows(Leaves(Others(i)), None, None, Here), Others(i) \o <<>>, rest}
    BY <1>8 DEF LoadFails
  <2>2. \A q \in Range(Follows(Leaves(Others(i)), None, None, Here)) : Sprung(q)
    <3> DEFINE rs == Leaves(Others(i))
               from == Here
    <3>1. from.page \in Order0 /\ from.own \in Order0 /\ from.at \in Order0 /\ from.left \in BOOLEAN /\ None \in Order0
      BY HereType DEF Order0
    <3>2. rs \in Seq(ReqType) /\ \A q \in Range(rs) : Sprung(q)
      BY <1>1, <1>2, LeavesAt, SprungLeaves
    <3> HIDE DEF rs, from
    <3>3. \A q \in Range(Follows(rs, None, None, from)) : Sprung(q)
      BY <3>1, <3>2, SprungFollows
    <3> QED BY <3>3 DEF rs, from
  <2> QED BY <1>1, <1>2, <2>1, <2>2
<1> QED BY <1>3, <1>4, <1>5, <1>6, <1>7, <1>8, <1>9

LEMMA WrittenInit == Init => WrittenInv
<1> SUFFICES ASSUME Init PROVE WrittenInv
  OBVIOUS
<1>1. asked \in Orders /\ reqs = <<Detail(asked)>> /\ server = [o \in Orders |-> Zero] /\ saved = server
  BY DEF Init
<1>2. \A j \in DOMAIN reqs : ~reqs[j].served /\ ~reqs[j].dropped
  BY <1>1, DetailType, SingleSeq
<1>3. Zero.order = 0 /\ Zero.panel = 0
  BY DEF Zero
<1>4. \A o \in Orders : saved[o] = Zero /\ server[o] = Zero
  BY <1>1
<1> QED BY <1>2, <1>3, <1>4 DEF WrittenInv

\* The page has learned what the operation of a request wrote.
LEMMA WrittenDone ==
  ASSUME TypeInv, WrittenInv, OrderInv, NEW i \in DOMAIN reqs, reqs[i].what = "op", reqs[i].served,
         saved' = [saved EXCEPT ![reqs[i].of] = Larger(@, Wrote(reqs[i]))]
  PROVE  /\ \A o \in Orders : saved'[o].order <= server[o].order /\ saved'[o].panel <= server[o].panel
         /\ screen.panel.loads = "none" => \A o \in Orders : saved'[o].panel = 0
<1> DEFINE r == reqs[i]
           n == Larger(saved[r.of], Wrote(r))
<1>1. /\ r \in ReqType /\ r.of \in Orders /\ r.v.order \in Nat /\ r.v.panel \in Nat
      /\ saved \in [Orders -> Versions] /\ server \in [Orders -> Versions]
  BY RestAt, ReqParts DEF TypeInv
<1>2. /\ saved[r.of].order <= server[r.of].order /\ saved[r.of].panel <= server[r.of].panel
      /\ r.v.order <= server[r.of].order /\ r.v.panel <= server[r.of].panel
  BY <1>1 DEF WrittenInv
<1>3. server[r.of].order \in Nat /\ server[r.of].panel \in Nat
  BY <1>1 DEF Versions
<1>4. /\ Wrote(r).order \in {r.v.order, 0} /\ Wrote(r).panel \in {r.v.panel, 0}
      /\ (~r.op.panel => Wrote(r).panel = 0)
  BY <1>1, WroteType
<1>5. n.order \in {saved[r.of].order, Wrote(r).order} /\ n.panel \in {saved[r.of].panel, Wrote(r).panel}
  BY <1>1, WroteType, LargerType
<1>6. n.order <= server[r.of].order /\ n.panel <= server[r.of].panel
  <2> HIDE DEF n, r
  <2>1. n.order \in {saved[r.of].order, r.v.order, 0}
    BY <1>4, <1>5
  <2>2. n.panel \in {saved[r.of].panel, r.v.panel, 0}
    BY <1>4, <1>5
  <2>3. n.order <= server[r.of].order
    BY <1>2, <1>3, <2>1
  <2>4. n.panel <= server[r.of].panel
    BY <1>2, <1>3, <2>2
  <2> QED BY <2>3, <2>4
<1>7. screen.panel.loads = "none" => n.panel = 0
  <2> SUFFICES ASSUME screen.panel.loads = "none" PROVE n.panel = 0
    OBVIOUS
  <2>1. ReqOK(r)
    BY DEF OrderInv, ReqsInv
  <2>2. r.op \in screen.ops
    BY <2>1 DEF ReqOK, OpOK
  <2>3. ~r.op.panel
    BY <2>2, PartsAssumption DEF TypeInv
  <2>4. saved[r.of].panel = 0
    BY <1>1 DEF WrittenInv
  <2> HIDE DEF n, r
  <2> QED BY <1>4, <1>5, <2>3, <2>4
<1>8. \A o \in Orders : saved'[o] = saved[o] \/ (o = r.of /\ saved'[o] = n)
  BY <1>1
<1> HIDE DEF n, r
<1>9. \A o \in Orders : saved'[o].order <= server[o].order /\ saved'[o].panel <= server[o].panel
  BY <1>6, <1>8 DEF WrittenInv
<1> QED BY <1>7, <1>8, <1>9 DEF WrittenInv

LEMMA WrittenNext == TypeInv /\ OrderInv /\ WrittenInv /\ [Next]_vars => WrittenInv'
<1> SUFFICES ASSUME TypeInv, OrderInv, WrittenInv, [Next]_vars PROVE WrittenInv'
  OBVIOUS
<1>1. TypeInv'
  BY TypeNext
<1>2. \A o \in Orders : server[o].order \in Nat /\ server[o].panel \in Nat
                        /\ saved[o].order \in Nat /\ saved[o].panel \in Nat
  BY DEF TypeInv, Versions
<1>3. /\ \A o \in Orders : saved[o].order <= server[o].order /\ saved[o].panel <= server[o].panel
      /\ screen.panel.loads = "none" => \A o \in Orders : saved[o].panel = 0
  BY DEF WrittenInv
<1>4. ASSUME UNCHANGED <<screen, server, saved>>, \A q \in Range(reqs') : Sprung(q)
      PROVE  WrittenInv'
  BY <1>1, <1>2, <1>3, <1>4, WrittenFrom
<1>5. CASE UNCHANGED vars
  BY <1>4, <1>5, SprungReqs DEF vars
<1>6. ASSUME NEW o \in Orders, OtherUser(o)
      PROVE  WrittenInv'
  <2>1. server' = [server EXCEPT ![o].order = @ + 1] /\ UNCHANGED <<screen, saved, reqs>>
    BY <1>6 DEF OtherUser
  <2>2. \A p \in Orders : server[p].order <= server'[p].order /\ server[p].panel <= server'[p].panel
    <3>1. ASSUME NEW p \in Orders
          PROVE  server'[p].panel = server[p].panel
                 /\ (server'[p].order = server[p].order \/ server'[p].order = server[p].order + 1)
      <4>1. server \in [Orders -> Versions] /\ server[p] \in Versions
        BY DEF TypeInv
      <4>2. server'[p] = server[p] \/ server'[p] = [server[p] EXCEPT !.order = @ + 1]
        BY <2>1, <4>1
      <4> QED BY <4>1, <4>2 DEF Versions
    <3> QED BY <1>2, <3>1
  <2>3. \A p \in Orders : server'[p].order \in Nat /\ server'[p].panel \in Nat
    BY <1>1 DEF TypeInv, Versions
  <2>4. \A p \in Orders : saved'[p].order <= server'[p].order /\ saved'[p].panel <= server'[p].panel
    <3>1. saved' = saved
      BY <2>1
    <3> QED BY <1>2, <1>3, <2>2, <2>3, <3>1
  <2> QED BY <1>1, <1>3, <2>1, <2>2, <2>4, SprungReqs, WrittenFrom
<1>7. ASSUME \/ (\E o \in Orders : Open(o)) \/ Close \/ Polled
             \/ \E op \in screen.ops : OpenForm(op) \/ CloseForm(op) \/ Operate(op)
      PROVE  WrittenInv'
  <2>1. UNCHANGED <<screen, server, saved>>
    BY <1>7 DEF Open, Close, Polled, OpenForm, CloseForm, Operate
  <2> QED BY <1>4, <1>7, <2>1, SprungUser
<1>8. ASSUME NEW i \in DOMAIN reqs, Serve(i)
      PROVE  WrittenInv'
  <2>1. /\ server' \in [Orders -> Versions]
        /\ \A o \in Orders : server[o].order <= server'[o].order /\ server[o].panel <= server'[o].panel
        /\ reqs \in Seq(ReqType) /\ reqs' \in Seq(ReqType) /\ Len(reqs') = Len(reqs)
    BY <1>8, ServeAt, ShownNow
  <2>2. UNCHANGED <<screen, saved>>
    BY <1>8 DEF Serve
  <2>3. \A p \in Orders : server'[p].order \in Nat /\ server'[p].panel \in Nat
    BY <1>1 DEF TypeInv, Versions
  <2>4. \A p \in Orders : saved'[p].order <= server'[p].order /\ saved'[p].panel <= server'[p].panel
    BY <1>2, <1>3, <2>1, <2>2, <2>3
  <2>5. ASSUME NEW j \in DOMAIN reqs'
        PROVE  /\ reqs'[j].served => /\ reqs'[j].v.order <= server'[reqs'[j].of].order
                                     /\ reqs'[j].v.panel <= server'[reqs'[j].of].panel
               /\ reqs'[j].dropped => reqs'[j].what \in {"op", "panel"}
    <3>1. j \in DOMAIN reqs /\ reqs[j] \in ReqType /\ reqs[j].of \in Orders
          /\ reqs[j].v.order \in Nat /\ reqs[j].v.panel \in Nat
      BY <2>1, ReqParts
    <3>2. CASE j = i
      <4>1. reqs'[j].v = server'[reqs[j].of] /\ reqs'[j].of = reqs[j].of
            /\ reqs'[j].dropped = reqs[j].dropped /\ reqs'[j].what = reqs[j].what
        BY <1>8, <3>2, ServeAt
      <4>2. reqs[j].dropped => reqs[j].what \in {"op", "panel"}
        BY <3>1 DEF WrittenInv
      <4> QED BY <2>3, <3>1, <4>1, <4>2
    <3>3. CASE j # i
      <4>1. reqs'[j] = reqs[j]
        BY <1>8, <3>1, <3>3, ServeAt
      <4>2. /\ reqs[j].served => /\ reqs[j].v.order <= server[reqs[j].of].order
                                 /\ reqs[j].v.panel <= server[reqs[j].of].panel
            /\ reqs[j].dropped => reqs[j].what \in {"op", "panel"}
        BY <3>1 DEF WrittenInv
      <4> QED BY <1>2, <2>1, <2>3, <3>1, <4>1, <4>2
    <3> QED BY <3>2, <3>3
  <2> QED BY <1>3, <2>2, <2>4, <2>5 DEF WrittenInv
<1>9. ASSUME NEW i \in DOMAIN reqs, OpDone(i) \/ PartDone(i)
      PROVE  WrittenInv'
  <2>1. UNCHANGED <<screen, server>> /\ reqs[i].what = "op" /\ reqs[i].served
    BY <1>9 DEF OpDone, PartDone
  <2>2. saved' = saved \/ saved' = [saved EXCEPT ![reqs[i].of] = Larger(@, Wrote(reqs[i]))]
    BY <1>9 DEF OpDone, PartDone, Saves
  <2>3. /\ \A o \in Orders : saved'[o].order <= server[o].order /\ saved'[o].panel <= server[o].panel
        /\ screen.panel.loads = "none" => \A o \in Orders : saved'[o].panel = 0
    BY <1>3, <2>1, <2>2, WrittenDone
  <2>4. \A q \in Range(reqs') : Sprung(q)
    BY <1>9, SprungAnswers
  <2> QED BY <1>1, <1>2, <2>1, <2>3, <2>4, WrittenFrom
<1>10. ASSUME NEW i \in DOMAIN reqs,
              \/ OrderArrives(i) \/ CopyArrives(i) \/ PanelArrives(i) \/ FormArrives(i)
              \/ OpFails(i) \/ LoadFails(i)
       PROVE  WrittenInv'
  <2>1. UNCHANGED <<screen, server, saved>>
    BY <1>10 DEF OrderArrives, CopyArrives, PanelArrives, FormArrives, OpFails, LoadFails
  <2>2. \A q \in Range(reqs') : Sprung(q)
    BY <1>10, SprungAnswers
  <2> QED BY <1>4, <2>1, <2>2
<1> QED BY <1>5, <1>6, <1>7, <1>8, <1>9, <1>10 DEF Next

-----------------------------------------------------------------------------
(* What was saved ends up on the screen. *)

Parts == {"order", "panel"}

LEMMA FillsSame ==
  ASSUME NEW r, NEW q, q.what = r.what, q.served = r.served, q.rows = r.rows
  PROVE  /\ Fills(q) = Fills(r) /\ (Empties(q) <=> Empties(r))
         /\ UNCHANGED screen => Fills(q)' = Fills(q) /\ (Empties(q)' <=> Empties(q))
BY DEF Fills, Carries, Empties, LoadsOrder

LEMMA PutsSame ==
  ASSUME NEW r, NEW q, q.what = r.what, q.served = r.served, q.rows = r.rows, NEW part
  PROVE  /\ Puts(q, part) <=> Puts(r, part)
         /\ UNCHANGED screen => (Puts(q, part)' <=> Puts(q, part))
BY FillsSame DEF Puts

LEMMA FillsWhat ==
  ASSUME NEW r
  PROVE  /\ "order" \in Fills(r) <=> r.what \in {"detail", "refresh", "copy"}
         /\ r.what = "panel" => Fills(r) = {"panel"} /\ ~Empties(r)
         /\ r.what \in {"op", "form"} => Fills(r) = {}
         /\ r.what = "copy" => Fills(r) = {"order"} /\ ~Empties(r)
         /\ LoadsOrder(r) /\ screen.panel.loads = "with" => "panel" \in Fills(r) /\ ~Empties(r)
         /\ "panel" \in Fills(r) <=> r.what = "panel" \/ Carries(r) \/ Empties(r)
         /\ ~r.served => ~Empties(r)
BY DEF Fills, Carries, Empties, LoadsOrder

\* A request grows older: what it would bring it still brings, unless it is
\* dropped, and it is behind only if it was.
LEMMA AgedFollow ==
  ASSUME NEW r, NEW q, NEW part \in Parts, Aged(r, q)
  PROVE  /\ Brings(r, part) /\ q.dropped = r.dropped => Brings(q, part)
         /\ Behind(q, part) => Behind(r, part)
<1>1. Puts(q, part) <=> Puts(r, part)
  BY PutsSame DEF Aged
<1>2. Old(q, part) <=> Old(r, part)
  BY DEF Old, Aged
<1>3. Spoils(r) => Spoils(q)
  BY DEF Spoils, Aged
<1>4. Leads(q, part) <=> Leads(r, part)
  BY DEF Leads, Aged, LoadsOrder
<1>5. q.what = r.what /\ (r.dropped => q.dropped)
  BY DEF Aged
<1> QED BY <1>1, <1>2, <1>3, <1>4, <1>5 DEF Brings, Behind

\* The step that leaves what was saved of a part alone keeps what a request is.
SavedSame(part) == \A o \in Orders : VersionOf(saved[o], part)' = VersionOf(saved[o], part)

LEMMA SameFollow ==
  ASSUME NEW r \in ReqType, NEW part \in Parts, UNCHANGED screen, SavedSame(part)
  PROVE  /\ Brings(r, part)' <=> Brings(r, part)
         /\ Behind(r, part)' <=> Behind(r, part)
<1>1. (Puts(r, part)' <=> Puts(r, part)) /\ (Leads(r, part)' <=> Leads(r, part))
  BY PutsSame DEF Leads, LoadsOrder
<1>2. Old(r, part)' <=> Old(r, part)
  <2>1. VersionOf(saved[r.of], part)' = VersionOf(saved[r.of], part)
    BY ReqParts DEF SavedSame
  <2> QED BY <2>1 DEF Old, VersionOf
<1> QED BY <1>1, <1>2 DEF Brings, Behind, Spoils

\* A request that is under way and unanswered by the server is not behind.
LEMMA UnservedFollow ==
  ASSUME NEW q, NEW part, ~q.served
  PROVE  ~Behind(q, part)'
BY DEF Behind, Old

\* What becomes of the requests under way when the i-th is answered, or when
\* none is and i is after the last: one that brings something still does, and
\* a served one was there before.
BackAt(i, f) ==
  \A m \in DOMAIN f : ~f[m].served \/ (/\ Was(i, m) \in DOMAIN reqs /\ Was(i, m) # i
                                       /\ Aged(reqs[Was(i, m)], f[m]))
Overtakes(i, f) ==
  \A m \in DOMAIN f : m < i /\ Fills(reqs[m]) \cap Fills(reqs[i]) # {} => f[m].late

LEMMA WasMono ==
  ASSUME NEW i \in Nat, NEW m \in Nat, NEW j \in Nat
  PROVE  /\ Was(i, m) > Was(i, j) => m > j
         /\ Was(i, m) \in Nat
         /\ j >= i => Was(i, j) > i
         /\ j < i => Was(i, j) = j
<1>1. CASE m < i /\ j < i
  BY <1>1 DEF Was
<1>2. CASE m < i /\ ~(j < i)
  BY <1>2 DEF Was
<1>3. CASE ~(m < i) /\ j < i
  BY <1>3 DEF Was
<1>4. CASE ~(m < i) /\ ~(j < i)
  BY <1>4 DEF Was
<1> QED BY <1>1, <1>2, <1>3, <1>4

LEMMA CaughtFrom ==
  ASSUME NEW f, reqs' = f, NEW part,
         Stale(part)' => \E k \in DOMAIN f : Brings(f[k], part)',
         \A j \in DOMAIN f : Behind(f[j], part)' => \E k \in DOMAIN f : k > j /\ Brings(f[k], part)'
  PROVE  CaughtUp(part)'
BY DEF CaughtUp

LEMMA CaughtNone ==
  ASSUME NEW f, reqs' = f, NEW part, ~Stale(part)', \A j \in DOMAIN f : ~Behind(f[j], part)'
  PROVE  CaughtUp(part)'
BY CaughtFrom

\* The last answers to come bring it.
LEMMA CaughtEnds ==
  ASSUME NEW f \in Seq(ReqType), reqs' = f, NEW part, NEW n \in DOMAIN f, Brings(f[n], part)',
         \A m \in DOMAIN f : m >= n => ~f[m].served
  PROVE  CaughtUp(part)'
<1>1. \A j \in DOMAIN f : Behind(f[j], part)' => n > j
  <2>1. ASSUME NEW j \in DOMAIN f, Behind(f[j], part)'
        PROVE  n > j
    <3>1. f[j].served
      BY <2>1, UnservedFollow
    <3>2. j \in Nat /\ n \in Nat
      OBVIOUS
    <3> QED BY <3>1, <3>2
  <2> QED BY <2>1
<1> QED BY <1>1, CaughtFrom

\* A request that was behind before, and the later one that made up for it.
LEMMA CaughtLater ==
  ASSUME TypeInv, NEW f \in Seq(ReqType), NEW i \in Nat, NEW part \in Parts, UNCHANGED screen, SavedSame(part),
         BackAt(i, f), CaughtUp(part), NEW j \in DOMAIN f, Behind(f[j], part)'
  PROVE  /\ Was(i, j) \in DOMAIN reqs /\ Was(i, j) # i
         /\ Aged(reqs[Was(i, j)], f[j]) /\ Behind(reqs[Was(i, j)], part)
         /\ \E k \in DOMAIN reqs : k > Was(i, j) /\ Brings(reqs[k], part)
<1>1. f[j].served
  BY UnservedFollow
<1>2. Was(i, j) \in DOMAIN reqs /\ Was(i, j) # i /\ Aged(reqs[Was(i, j)], f[j])
  BY <1>1 DEF BackAt
<1> DEFINE q == f[j]
<1>3. q \in ReqType /\ Behind(q, part)'
  OBVIOUS
<1> HIDE DEF q
<1>4. Behind(q, part)
  BY <1>3, SameFollow
<1>5. Behind(reqs[Was(i, j)], part)
  BY <1>2, <1>4, AgedFollow DEF q
<1>6. \E k \in DOMAIN reqs : k > Was(i, j) /\ Brings(reqs[k], part)
  BY <1>2, <1>5 DEF CaughtUp
<1> QED BY <1>2, <1>5, <1>6

\* The i-th request, if any, is answered without the screen's part changing.
LEMMA CaughtKeeps ==
  ASSUME TypeInv, NEW f \in Seq(ReqType), reqs' = f, NEW i \in Nat, NEW part \in Parts,
         UNCHANGED screen, SavedSame(part), BackAt(i, f), CaughtUp(part),
         \A k \in DOMAIN reqs : k # i /\ Brings(reqs[k], part) =>
           \E m \in DOMAIN f : Was(i, m) = k /\ Brings(f[m], part)',
         i \in DOMAIN reqs => ~Brings(reqs[i], part),
         Stale(part)' => Stale(part)
  PROVE  CaughtUp(part)'
<1>1. \A k \in DOMAIN reqs : Brings(reqs[k], part) => k # i
  OBVIOUS
<1>2. Stale(part)' => \E m \in DOMAIN f : Brings(f[m], part)'
  BY <1>1 DEF CaughtUp
<1>3. ASSUME NEW j \in DOMAIN f, Behind(f[j], part)'
      PROVE  \E m \in DOMAIN f : m > j /\ Brings(f[m], part)'
  <2>1. PICK k \in DOMAIN reqs : k > Was(i, j) /\ Brings(reqs[k], part)
    BY <1>3, CaughtLater
  <2>2. PICK m \in DOMAIN f : Was(i, m) = k /\ Brings(f[m], part)'
    BY <1>1, <2>1
  <2>3. m \in Nat /\ j \in Nat
    OBVIOUS
  <2>4. m > j
    BY <2>1, <2>2, <2>3, WasMono
  <2> QED BY <2>2, <2>4
<1> QED BY <1>2, <1>3, CaughtFrom

\* The answer of the i-th request is applied: those it has overtaken are late.
LEMMA CaughtArrives ==
  ASSUME TypeInv, NEW f \in Seq(ReqType), reqs' = f, NEW i \in DOMAIN reqs, NEW part \in Parts,
         UNCHANGED screen, SavedSame(part), BackAt(i, f), Overtakes(i, f), CaughtUp(part),
         \A k \in DOMAIN reqs : k # i /\ Brings(reqs[k], part) =>
           \E m \in DOMAIN f : Was(i, m) = k /\ Brings(f[m], part)',
         part \in Fills(reqs[i]), ~Spoils(reqs[i]), ~reqs[i].dropped,
         Stale(part)' => Behind(reqs[i], part) \/ (Stale(part) /\ ~Brings(reqs[i], part))
  PROVE  CaughtUp(part)'
<1>1. i \in Nat /\ \A k \in DOMAIN reqs : k \in Nat
  BY ShownNow
<1>2. \A k \in DOMAIN reqs : k > i /\ Brings(reqs[k], part) =>
        \E m \in DOMAIN f : Was(i, m) = k /\ Brings(f[m], part)'
  BY <1>1
<1>3. Stale(part)' => \E m \in DOMAIN f : Brings(f[m], part)'
  <2>1. CASE Behind(reqs[i], part)
    <3>1. PICK k \in DOMAIN reqs : k > i /\ Brings(reqs[k], part)
      BY <2>1 DEF CaughtUp
    <3> QED BY <1>2, <3>1
  <2>2. CASE Stale(part) /\ ~Brings(reqs[i], part)
    <3>1. PICK k \in DOMAIN reqs : Brings(reqs[k], part)
      BY <2>2 DEF CaughtUp
    <3> QED BY <2>2, <3>1
  <2> QED BY <2>1, <2>2
<1>4. ASSUME NEW j \in DOMAIN f, Behind(f[j], part)'
      PROVE  \E m \in DOMAIN f : m > j /\ Brings(f[m], part)'
  <2>1. /\ Was(i, j) \in DOMAIN reqs /\ Aged(reqs[Was(i, j)], f[j]) /\ Behind(reqs[Was(i, j)], part)
        /\ \E k \in DOMAIN reqs : k > Was(i, j) /\ Brings(reqs[k], part)
    BY <1>1, <1>4, CaughtLater
  <2>2. j \in Nat
    OBVIOUS
  <2>3. ~(j < i)
    <3> SUFFICES ASSUME j < i PROVE FALSE
      OBVIOUS
    <3>1. Was(i, j) = j
      BY <1>1, <2>2, WasMono
    <3>2. part \in Fills(reqs[j])
      BY <2>1, <3>1 DEF Behind, Puts
    <3>3. f[j].late
      BY <3>2 DEF Overtakes
    <3> QED BY <1>4, <3>3 DEF Behind, Spoils
  <2>4. Was(i, j) > i
    BY <1>1, <2>2, <2>3, WasMono
  <2>5. PICK k \in DOMAIN reqs : k > Was(i, j) /\ Brings(reqs[k], part)
    BY <2>1
  <2>6. k > i
    BY <1>1, <2>1, <2>4, <2>5
  <2>7. PICK m \in DOMAIN f : Was(i, m) = k /\ Brings(f[m], part)'
    BY <1>2, <2>5, <2>6
  <2>8. m \in Nat
    OBVIOUS
  <2>9. m > j
    BY <1>1, <2>2, <2>5, <2>7, <2>8, WasMono
  <2> QED BY <2>7, <2>9
<1> QED BY <1>3, <1>4, CaughtFrom

\* Every other request is still under way.
KeptAt(i, f) ==
  \A k \in DOMAIN reqs : k # i =>
    \E m \in DOMAIN f : Was(i, m) = k /\ Aged(reqs[k], f[m]) /\ f[m].dropped = reqs[k].dropped
Image(i, f) == f \in Seq(ReqType) /\ Len(f) + 1 >= i /\ KeptAt(i, f) /\ BackAt(i, f)

LEMMA OthersImage ==
  ASSUME TypeInv, NEW i \in DOMAIN reqs
  PROVE  Image(i, Others(i)) /\ Overtakes(i, Others(i))
<1>1. Len(reqs) \in Nat /\ DOMAIN reqs = 1 .. Len(reqs) /\ i \in 1 .. Len(reqs)
  BY ShownNow, ReqAt
<1>2. /\ Others(i) \in Seq(ReqType) /\ Len(Others(i)) = Len(reqs) - 1
      /\ \A m \in DOMAIN Others(i) :
           /\ Was(i, m) \in DOMAIN reqs /\ Was(i, m) # i
           /\ Aged(reqs[Was(i, m)], Others(i)[m])
           /\ Others(i)[m].dropped = reqs[Was(i, m)].dropped
           /\ m < i /\ Fills(reqs[m]) \cap Fills(reqs[i]) # {} => Others(i)[m].late
  BY ShownNow, OthersAt
<1> DEFINE f == Others(i)
<1> HIDE DEF f
<1>3. DOMAIN f = 1 .. Len(reqs) - 1
  BY <1>1, <1>2 DEF f
<1>4. ASSUME NEW k \in DOMAIN reqs, k # i
      PROVE  \E m \in DOMAIN f : Was(i, m) = k
  <2>1. CASE k < i
    <3>1. k \in DOMAIN f /\ Was(i, k) = k
      BY <1>1, <1>3, <2>1 DEF Was
    <3> QED BY <3>1
  <2>2. CASE k > i
    <3>1. k - 1 \in DOMAIN f /\ Was(i, k - 1) = k
      BY <1>1, <1>3, <2>2 DEF Was
    <3> QED BY <3>1
  <2> QED BY <1>1, <1>4, <2>1, <2>2
<1>5. KeptAt(i, f)
  BY <1>2, <1>4 DEF KeptAt, f
<1>6. BackAt(i, f) /\ Overtakes(i, f)
  BY <1>2 DEF BackAt, Overtakes, f
<1>7. Len(f) + 1 >= i
  BY <1>1, <1>2 DEF f
<1> QED BY <1>2, <1>5, <1>6, <1>7 DEF Image, f

LEMMA TailImage ==
  ASSUME TypeInv, NEW i \in Nat, NEW f, Image(i, f), NEW t \in Seq(ReqType), \A q \in Range(t) : ~q.served
  PROVE  Image(i, f \o t) /\ (i \in DOMAIN reqs /\ Overtakes(i, f) => Overtakes(i, f \o t))
<1> DEFINE g == f \o t
<1>1. f \in Seq(ReqType) /\ Len(f) + 1 >= i /\ KeptAt(i, f) /\ BackAt(i, f)
  BY DEF Image
<1>2. /\ g \in Seq(ReqType) /\ Len(g) = Len(f) + Len(t)
      /\ \A m \in DOMAIN f : m \in DOMAIN g /\ g[m] = f[m]
      /\ \A k \in DOMAIN t : Len(f) + k \in DOMAIN g /\ g[Len(f) + k] = t[k]
      /\ \A m \in DOMAIN g : m \in DOMAIN f \/ \E k \in DOMAIN t : m = Len(f) + k
  BY <1>1, ConcatAt
<1> HIDE DEF g
<1>3. \A m \in DOMAIN g : m \in DOMAIN f \/ (m >= i /\ ~g[m].served)
  <2>1. ASSUME NEW m \in DOMAIN g, m \notin DOMAIN f
        PROVE  m >= i /\ ~g[m].served
    <3>1. PICK k \in DOMAIN t : m = Len(f) + k
      BY <1>2, <2>1
    <3>2. g[m] = t[k] /\ t[k] \in Range(t)
      BY <1>2, <3>1 DEF Range
    <3>3. k \in Nat /\ k >= 1 /\ Len(f) \in Nat
      BY <1>1
    <3>4. m >= i
      BY <1>1, <3>1, <3>3
    <3> QED BY <3>2, <3>4
  <2> QED BY <2>1
<1>4. KeptAt(i, g)
  BY <1>1, <1>2 DEF KeptAt
<1>5. BackAt(i, g)
  BY <1>1, <1>2, <1>3 DEF BackAt
<1>6. Len(g) + 1 >= i
  <2>1. Len(f) \in Nat /\ Len(t) \in Nat
    BY <1>1
  <2> QED BY <1>1, <1>2, <2>1
<1>7. ASSUME i \in DOMAIN reqs, Overtakes(i, f)
      PROVE  Overtakes(i, g)
  <2>1. ASSUME NEW m \in DOMAIN g, m < i
        PROVE  m \in DOMAIN f
    <3>1. m \in Nat
      BY <1>2
    <3> QED BY <1>3, <2>1, <3>1
  <2> QED BY <1>2, <1>7, <2>1 DEF Overtakes
<1> QED BY <1>2, <1>4, <1>5, <1>6, <1>7 DEF Image, g

LEMMA AgedTwice ==
  ASSUME NEW r, NEW s, NEW q, Aged(r, s), Aged(s, q)
  PROVE  Aged(r, q)
BY DEF Aged

LEMMA KeptBrings ==
  ASSUME TypeInv, NEW i \in Nat, NEW f \in Seq(ReqType), NEW part \in Parts, UNCHANGED screen, SavedSame(part),
         NEW k \in DOMAIN reqs, NEW m \in DOMAIN f, Aged(reqs[k], f[m]), f[m].dropped = reqs[k].dropped,
         Brings(reqs[k], part)
  PROVE  Brings(f[m], part)'
<1> DEFINE q == f[m]
<1>1. q \in ReqType
  OBVIOUS
<1>2. Brings(q, part)
  BY AgedFollow
<1> HIDE DEF q
<1>3. Brings(q, part)'
  BY <1>1, <1>2, SameFollow
<1> QED BY <1>3 DEF q

\* A request is answered that does not bring the part to the screen, which shows the same of it.
LEMMA ImageKeeps ==
  ASSUME TypeInv, NEW f, reqs' = f, NEW i \in Nat, Image(i, f), NEW part \in Parts,
         UNCHANGED screen, SavedSame(part), CaughtUp(part),
         i \in DOMAIN reqs => ~Brings(reqs[i], part),
         Stale(part)' => Stale(part)
  PROVE  CaughtUp(part)'
<1>1. f \in Seq(ReqType) /\ KeptAt(i, f) /\ BackAt(i, f)
  BY DEF Image
<1>2. \A k \in DOMAIN reqs : k # i /\ Brings(reqs[k], part) =>
        \E m \in DOMAIN f : Was(i, m) = k /\ Brings(f[m], part)'
  <2>1. ASSUME NEW k \in DOMAIN reqs, k # i, Brings(reqs[k], part)
        PROVE  \E m \in DOMAIN f : Was(i, m) = k /\ Brings(f[m], part)'
    <3>1. PICK m \in DOMAIN f : Was(i, m) = k /\ Aged(reqs[k], f[m]) /\ f[m].dropped = reqs[k].dropped
      BY <1>1, <2>1 DEF KeptAt
    <3> QED BY <1>1, <2>1, <3>1, KeptBrings
  <2> QED BY <2>1
<1> QED BY <1>1, <1>2, CaughtKeeps

LEMMA ImageArrives ==
  ASSUME TypeInv, NEW f, reqs' = f, NEW i \in DOMAIN reqs, Image(i, f), Overtakes(i, f), NEW part \in Parts,
         UNCHANGED screen, SavedSame(part), CaughtUp(part),
         part \in Fills(reqs[i]), ~Spoils(reqs[i]), ~reqs[i].dropped,
         Stale(part)' => Behind(reqs[i], part) \/ (Stale(part) /\ ~Brings(reqs[i], part))
  PROVE  CaughtUp(part)'
<1>1. f \in Seq(ReqType) /\ KeptAt(i, f) /\ BackAt(i, f) /\ i \in Nat
  BY ShownNow DEF Image
<1>2. \A k \in DOMAIN reqs : k # i /\ Brings(reqs[k], part) =>
        \E m \in DOMAIN f : Was(i, m) = k /\ Brings(f[m], part)'
  <2>1. ASSUME NEW k \in DOMAIN reqs, k # i, Brings(reqs[k], part)
        PROVE  \E m \in DOMAIN f : Was(i, m) = k /\ Brings(f[m], part)'
    <3>1. PICK m \in DOMAIN f : Was(i, m) = k /\ Aged(reqs[k], f[m]) /\ f[m].dropped = reqs[k].dropped
      BY <1>1, <2>1 DEF KeptAt
    <3> QED BY <1>1, <2>1, <3>1, KeptBrings
  <2> QED BY <2>1
<1> QED BY <1>1, <1>2, CaughtArrives

\* The load of the shipments an effect has started comes last.
FreshPanel(g) == /\ Len(g) \in DOMAIN g /\ g[Len(g)].what = "panel" /\ ~g[Len(g)].served
                 /\ ~g[Len(g)].dropped

\* Every other request is still under way, or is dropped for that load.
KeptOrFresh(i, g) ==
  \A k \in DOMAIN reqs : k # i =>
    \E m \in DOMAIN g :
       /\ Was(i, m) = k /\ Aged(reqs[k], g[m])
       /\ \/ g[m].dropped = reqs[k].dropped
          \/ reqs[k].what = "panel" /\ reqs[k].op = None /\ FreshPanel(g)

LEMMA FollowsImage ==
  ASSUME TypeInv, ReqsInv, NEW i \in Nat, NEW f, Image(i, f), NEW a \in Orders, NEW d \in Orders, NEW from,
         from.page \in Order0, from.own \in Order0, from.at \in Order0, from.left \in BOOLEAN,
         NEW g, g = Follows(f, a, d, from)
  PROVE  /\ g \in Seq(ReqType) /\ BackAt(i, g)
         /\ i \in DOMAIN reqs /\ Overtakes(i, f) => Overtakes(i, g)
         /\ KeptOrFresh(i, g)
<1>1. f \in Seq(ReqType) /\ Len(f) + 1 >= i /\ KeptAt(i, f) /\ BackAt(i, f)
  BY DEF Image
<1>2. a \in Order0 /\ d \in Order0 /\ a # None /\ d # None
  BY NoneIsNone DEF Order0
<1>3. /\ g \in Seq(ReqType)
      /\ Len(g) = Len(f) \/ Started(g, f)
      /\ Started(g, f) => d # None /\ a # None /\ g[Len(g)] = Request("panel", d, None, from, <<>>)
      /\ \A m \in DOMAIN f :
           /\ m \in DOMAIN g /\ Aged(f[m], g[m])
           /\ \/ g[m].dropped = f[m].dropped
              \/ f[m].what = "panel" /\ f[m].op = None /\ (a # None /\ d # None => Started(g, f))
  <2> DEFINE h == Follows(f, a, d, from)
  <2>1. /\ h \in Seq(ReqType)
        /\ Len(h) = Len(f) \/ Started(h, f)
        /\ Started(h, f) => d # None /\ a # None /\ h[Len(h)] = Request("panel", d, None, from, <<>>)
        /\ \A m \in DOMAIN f :
             /\ m \in DOMAIN h /\ Aged(f[m], h[m])
             /\ h[m].left = f[m].left /\ h[m].late = f[m].late
             /\ \/ h[m].dropped = f[m].dropped
                \/ f[m].what = "panel" /\ f[m].op = None /\ (a # None /\ d # None => Started(h, f))
    BY <1>1, <1>2, FollowsAt
  <2>2. g = h
    OBVIOUS
  <2> HIDE DEF h
  <2> QED BY <2>1, <2>2
<1>4. DOMAIN f = 1 .. Len(f) /\ DOMAIN g = 1 .. Len(g) /\ Len(f) \in Nat /\ Len(g) \in Nat
  BY <1>1, <1>3
<1>5. ASSUME Started(g, f)
      PROVE  FreshPanel(g) /\ Len(g) >= i
  <2>1. Len(g) = Len(f) + 1
    BY <1>5 DEF Started
  <2>2. g[Len(g)].what = "panel" /\ ~g[Len(g)].served /\ ~g[Len(g)].dropped
    BY <1>3, <1>5, RequestFields
  <2>3. Len(g) \in DOMAIN g /\ Len(g) >= i
    BY <1>1, <1>4, <2>1
  <2> QED BY <2>2, <2>3 DEF FreshPanel
<1>6. ASSUME NEW m \in DOMAIN g, m \notin DOMAIN f
      PROVE  m >= i /\ ~g[m].served
  <2>1. Started(g, f) /\ m = Len(g)
    <3>1. Len(g) = Len(f) \/ Len(g) = Len(f) + 1
      BY <1>3 DEF Started
    <3> QED BY <1>4, <1>6, <3>1, LastPlace DEF Started
  <2> QED BY <1>5, <2>1 DEF FreshPanel
<1>7. BackAt(i, g)
  <2>1. ASSUME NEW m \in DOMAIN g, g[m].served
        PROVE  Was(i, m) \in DOMAIN reqs /\ Was(i, m) # i /\ Aged(reqs[Was(i, m)], g[m])
    <3>1. m \in DOMAIN f /\ Aged(f[m], g[m])
      BY <1>3, <1>6, <2>1
    <3>2. f[m].served
      BY <2>1, <3>1 DEF Aged
    <3>3. Was(i, m) \in DOMAIN reqs /\ Was(i, m) # i /\ Aged(reqs[Was(i, m)], f[m])
      BY <1>1, <3>1, <3>2 DEF BackAt
    <3> QED BY <3>1, <3>3, AgedTwice
  <2> QED BY <2>1 DEF BackAt
<1>8. ASSUME i \in DOMAIN reqs, Overtakes(i, f)
      PROVE  Overtakes(i, g)
  <2>1. ASSUME NEW m \in DOMAIN g, m < i, Fills(reqs[m]) \cap Fills(reqs[i]) # {}
        PROVE  g[m].late
    <3>1. m \in Nat
      BY <1>4
    <3>2. m \in DOMAIN f /\ Aged(f[m], g[m])
      BY <1>3, <1>6, <2>1, <3>1
    <3>3. f[m].late
      BY <1>8, <2>1, <3>2 DEF Overtakes
    <3> QED BY <3>2, <3>3 DEF Aged
  <2> QED BY <2>1 DEF Overtakes
<1>9. ASSUME NEW k \in DOMAIN reqs, k # i
      PROVE  \E m \in DOMAIN g :
                /\ Was(i, m) = k /\ Aged(reqs[k], g[m])
                /\ \/ g[m].dropped = reqs[k].dropped
                   \/ reqs[k].what = "panel" /\ reqs[k].op = None /\ FreshPanel(g)
  <2>1. PICK m \in DOMAIN f : Was(i, m) = k /\ Aged(reqs[k], f[m]) /\ f[m].dropped = reqs[k].dropped
    BY <1>1, <1>9 DEF KeptAt
  <2>2. m \in DOMAIN g /\ Aged(f[m], g[m])
    BY <1>3
  <2>3. Aged(reqs[k], g[m])
    BY <2>1, <2>2, AgedTwice
  <2>4. g[m].dropped = f[m].dropped \/ (f[m].what = "panel" /\ f[m].op = None /\ FreshPanel(g))
    BY <1>2, <1>3, <1>5
  <2>5. f[m].what = reqs[k].what /\ f[m].op = reqs[k].op
    BY <2>1 DEF Aged
  <2> QED BY <2>1, <2>2, <2>3, <2>4, <2>5
<1>10. KeptOrFresh(i, g)
  BY <1>9 DEF KeptOrFresh
<1> QED BY <1>3, <1>7, <1>8, <1>10

\* The page shows an order while the i-th request is answered: the part is
\* brought by those that brought it, or by the effect's load of the shipments.
LEMMA FollowsBrings ==
  ASSUME TypeInv, ReqsInv, NEW i \in Nat, NEW g \in Seq(ReqType), NEW part \in Parts,
         UNCHANGED screen, SavedSame(part), reqs' = g, KeptOrFresh(i, g)
  PROVE  \/ CaughtUp(part)'
         \/ \A k \in DOMAIN reqs : k # i /\ Brings(reqs[k], part) =>
              \E m \in DOMAIN g : Was(i, m) = k /\ Brings(g[m], part)'
<1>1. CASE part = "panel" /\ FreshPanel(g)
  <2>1. Len(g) \in DOMAIN g /\ DOMAIN g = 1 .. Len(g) /\ Len(g) \in Nat
    BY <1>1 DEF FreshPanel
  <2> DEFINE q == g[Len(g)]
  <2>2. q \in ReqType /\ q.what = "panel" /\ ~q.served /\ ~q.dropped
    BY <1>1, <2>1 DEF FreshPanel
  <2> HIDE DEF q
  <2>3. Brings(q, part)
    BY <1>1, <2>2, FillsWhat DEF Brings, Old, Puts
  <2>4. Brings(q, part)'
    BY <2>2, <2>3, SameFollow
  <2>5. \A m \in DOMAIN g : m >= Len(g) => ~g[m].served
    <3>1. \A m \in DOMAIN g : m >= Len(g) => m = Len(g)
      BY <2>1
    <3> QED BY <2>2, <3>1 DEF q
  <2>6. CaughtUp(part)'
    BY <2>1, <2>4, <2>5, CaughtEnds DEF q
  <2> QED BY <2>6
<1>2. CASE ~(part = "panel" /\ FreshPanel(g))
  <2>1. ASSUME NEW k \in DOMAIN reqs, k # i, Brings(reqs[k], part)
        PROVE  \E m \in DOMAIN g : Was(i, m) = k /\ Brings(g[m], part)'
    <3>1. PICK m \in DOMAIN g :
              /\ Was(i, m) = k /\ Aged(reqs[k], g[m])
              /\ \/ g[m].dropped = reqs[k].dropped
                 \/ reqs[k].what = "panel" /\ reqs[k].op = None /\ FreshPanel(g)
      BY <2>1 DEF KeptOrFresh
    <3>2. g[m].dropped = reqs[k].dropped
      <4>1. CASE reqs[k].what = "panel" /\ reqs[k].op = None /\ FreshPanel(g)
        <5>1. part = "order"
          BY <1>2, <4>1 DEF Parts
        <5>2. "order" \notin Fills(reqs[k])
          BY <4>1, FillsWhat
        <5>3. reqs[k].then = <<"copy", "refresh">>
          BY <2>1, <4>1, <5>1, <5>2 DEF Brings, Puts, Leads
        <5>4. reqs[k].then # <<>>
          BY <5>3, TheChains
        <5>5. ReqOK(reqs[k])
          BY DEF ReqsInv
        <5> QED BY <4>1, <5>4, <5>5 DEF ReqOK
      <4> QED BY <3>1, <4>1
    <3>3. Brings(g[m], part)'
      BY <2>1, <3>1, <3>2, KeptBrings
    <3> QED BY <3>1, <3>3
  <2> QED BY <2>1
<1> QED BY <1>1, <1>2

LEMMA NotBehind ==
  ASSUME NEW q, NEW part, q.left \/ q.dropped \/ ~q.served
  PROVE  ~Behind(q, part)'
BY DEF Behind, Old, Spoils

\* Nothing is on the screen, and what is under way is of an earlier dialog or
\* has just been asked for.
LEMMA CaughtBlank ==
  ASSUME NEW f, reqs' = f, \A q \in Range(f) : q.left \/ q.dropped \/ ~q.served, shown' = None, panel' = None
  PROVE  FollowInv'
<1>1. ~Stale("order")' /\ ~Stale("panel")'
  BY DEF Stale, StaleOrder, StalePanel
<1>2. ASSUME NEW j \in DOMAIN f, NEW part
      PROVE  ~Behind(f[j], part)'
  <2>1. f[j].left \/ f[j].dropped \/ ~f[j].served
    BY DEF Range
  <2> QED BY <2>1, NotBehind
<1>3. CaughtUp("order")'
  BY <1>1, <1>2, CaughtNone
<1>4. CaughtUp("panel")'
  BY <1>1, <1>2, CaughtNone
<1> QED BY <1>3, <1>4 DEF FollowInv

LEMMA FollowOpen ==
  ASSUME TypeInv, OrderInv, NEW o \in Orders, Open(o), Calm'
  PROVE  FollowInv'
<1>1. asked = None /\ Renders(o, held, local, Append(reqs, Detail(o))) /\ UNCHANGED <<screen, panel, crossed>>
  BY DEF Open
<1>2. ~crossed
  BY <1>1 DEF Calm
<1>3. held = None /\ local = None /\ panel = None
  <2>1. IdOf(held) = None /\ IdOf(local) = None /\ IdOf(panel) = None
    BY <1>1, <1>2 DEF OrderInv, ScreenInv
  <2> QED BY <2>1, ShownNow, IdType
<1>4. shown' = None
  <2>1. Prop(o, held) = None
    BY <1>3 DEF Prop
  <2>2. local' = None /\ shown' = Shown(Prop(o, held), local')
    BY <1>1, <1>3, <2>1, OpenAt, ShownNow, RendersAt
  <2> QED BY <2>1, <2>2 DEF Shown
<1>5. ASSUME NEW f, reqs' = f, NEW q \in Range(f)
      PROVE  q.left \/ ~q.served
  <2>1. Sprung(q)
    BY <1>5, SprungUser
  <2>2. \A x \in Range(reqs) : x.left
    BY <1>1 DEF OrderInv, ReqsInv, ReqOK, Range
  <2> QED BY <2>1, <2>2 DEF Sprung, Aged
<1> QED BY <1>1, <1>3, <1>4, <1>5, CaughtBlank

LEMMA FollowClose ==
  ASSUME TypeInv, OrderInv', Close
  PROVE  FollowInv'
<1>1. Renders(None, None, None, Leaves(reqs)) /\ panel' = None
  BY DEF Close
<1>2. None \in Order0 /\ None \in Copy0 /\ Leaves(reqs) \in Seq(ReqType) /\ Prop(None, None) = None
  BY ShownNow, LeavesAt DEF Order0, Copy0, Prop
<1>3. asked' = None /\ local' = None /\ shown' = Shown(None, local')
  <2>1. local' = None
    BY <1>1, <1>2, RendersAt
  <2>2. asked' = None /\ shown' = Shown(Prop(None, None), local')
    BY <1>1, <1>2, RendersAt
  <2> QED BY <1>2, <2>1, <2>2
<1>4. shown' = None
  BY <1>3 DEF Shown
<1>5. ASSUME NEW f, reqs' = f, NEW q \in Range(f)
      PROVE  q.left
  <2>1. PICK j \in DOMAIN f : q = f[j]
    BY DEF Range
  <2>2. ReqOK(q)'
    BY <1>5, <2>1 DEF OrderInv, ReqsInv
  <2> QED BY <1>3, <2>2 DEF ReqOK
<1> QED BY <1>1, <1>4, <1>5, CaughtBlank

LEMMA FollowPolled ==
  ASSUME TypeInv, Polled
  PROVE  FollowInv'
<1> DEFINE sent == SetToSeq({j \in DOMAIN reqs : reqs[j].what = "op"})
           kept == [k \in DOMAIN sent |-> [reqs[sent[k]] EXCEPT !.dropped = TRUE]]
<1>1. kept \in Seq(ReqType) /\ \A q \in Range(kept) : q.dropped
  BY SentAt, ShownNow
<1>2. /\ reqs' = Append(kept, Detail(asked)) /\ held' = None /\ panel' = None
      /\ UNCHANGED <<asked, local>> /\ screen.polls /\ shown # None /\ screen \in Screens
  BY DEF Polled, TypeInv
<1> HIDE DEF kept
<1>3. local = None
  BY <1>2, PartsAssumption DEF TypeInv
<1>4. asked \in Orders
  BY <1>2, <1>3, ShownNow DEF shown, prop, Shown, Prop, Order0
<1>5. shown' = None
  BY <1>2, <1>3 DEF shown, prop, Shown, Prop
<1>6. \A q \in Range(Append(kept, Detail(asked))) : q.dropped \/ ~q.served
  BY <1>1, <1>4, DetailType, RangeAppend
<1> QED BY <1>2, <1>5, <1>6, CaughtBlank

LEMMA SavedStays ==
  ASSUME UNCHANGED saved
  PROVE  SavedSame("order") /\ SavedSame("panel")
BY DEF SavedSame, VersionOf

LEMMA FollowSame ==
  ASSUME TypeInv, FollowInv,
         UNCHANGED <<screen, asked, held, local, panel, reqs, saved, crossed, reordered, partly, failed>>
  PROVE  FollowInv'
<1> DEFINE i == Len(reqs) + 1
<1>1. reqs \in Seq(ReqType) /\ Len(reqs) \in Nat /\ DOMAIN reqs = 1 .. Len(reqs)
  BY ShownNow
<1>2. \A m \in DOMAIN reqs : Was(i, m) = m /\ m # i
  BY <1>1 DEF Was
<1>3. KeptAt(i, reqs) /\ BackAt(i, reqs)
  <2> HIDE DEF i
  <2> QED BY <1>2 DEF KeptAt, BackAt, Aged
<1>4. i \in Nat /\ i \notin DOMAIN reqs /\ Len(reqs) + 1 >= i
  BY <1>1
<1> HIDE DEF i
<1>5. (Stale("order")' => Stale("order")) /\ (Stale("panel")' => Stale("panel"))
  BY DEF Stale, StaleOrder, StalePanel, shown, prop
<1>6. ASSUME Calm, NEW f, f = reqs
      PROVE  CaughtUp("order")' /\ CaughtUp("panel")'
  <2>1. CaughtUp("order") /\ CaughtUp("panel")
    BY <1>6 DEF FollowInv
  <2>2. SavedSame("order") /\ SavedSame("panel")
    BY SavedStays
  <2>3. Image(i, f) /\ reqs' = f
    BY <1>1, <1>3, <1>4, <1>6 DEF Image
  <2> QED BY <1>4, <1>5, <2>1, <2>2, <2>3, ImageKeeps DEF Parts
<1>7. Calm' => Calm
  BY DEF Calm
<1> QED BY <1>6, <1>7 DEF FollowInv

\* The user's actions send a request, and leave the screen as it is.
LEMMA FollowSent ==
  ASSUME TypeInv, FollowInv, NEW r \in ReqType, ~r.served, reqs' = Append(reqs, r),
         UNCHANGED <<screen, asked, held, local, panel, saved, crossed, reordered, partly, failed>>
  PROVE  FollowInv'
<1>1. reqs \in Seq(ReqType) /\ Len(reqs) \in Nat /\ DOMAIN reqs = 1 .. Len(reqs)
  BY ShownNow
<1> DEFINE i == Len(reqs) + 1
<1>2. Image(i, Append(reqs, r))
  <2> DEFINE f == Append(reqs, r)
  <2>1. /\ f \in Seq(ReqType) /\ Len(f) = i
        /\ \A m \in DOMAIN reqs : m \in DOMAIN f /\ f[m] = reqs[m]
        /\ f[Len(reqs) + 1] = r
        /\ \A m \in DOMAIN f : m \in DOMAIN reqs \/ m = Len(reqs) + 1
    BY <1>1, AppendAt
  <2>2. \A m \in DOMAIN reqs : Was(i, m) = m /\ m # i
    BY <1>1 DEF Was
  <2> HIDE DEF f
  <2>3. KeptAt(i, f)
    BY <2>1, <2>2 DEF KeptAt, Aged
  <2>4. BackAt(i, f)
    BY <1>1, <2>1, <2>2 DEF BackAt, Aged
  <2>5. Len(f) + 1 >= i
    BY <1>1, <2>1
  <2> QED BY <2>1, <2>3, <2>4, <2>5 DEF Image, f
<1>3. i \in Nat /\ i \notin DOMAIN reqs
  BY <1>1
<1>4. (Stale("order")' => Stale("order")) /\ (Stale("panel")' => Stale("panel"))
  BY DEF Stale, StaleOrder, StalePanel, shown, prop
<1>5. ASSUME Calm
      PROVE  CaughtUp("order")' /\ CaughtUp("panel")'
  <2>1. CaughtUp("order") /\ CaughtUp("panel")
    BY <1>5 DEF FollowInv
  <2>2. SavedSame("order") /\ SavedSame("panel") /\ UNCHANGED screen
    BY SavedStays
  <2> HIDE DEF i
  <2> QED BY <1>2, <1>3, <1>4, <2>1, <2>2, ImageKeeps DEF Parts
<1>6. Calm' => Calm
  BY DEF Calm
<1> QED BY <1>5, <1>6 DEF FollowInv

LEMMA FollowOpenForm ==
  ASSUME TypeInv, FollowInv, NEW op \in screen.ops, OpenForm(op)
  PROVE  FollowInv'
<1> DEFINE r == Request("form", shown.of, op, Here, <<>>)
<1>1. /\ shown # None
      /\ UNCHANGED <<screen, asked, held, local, panel, saved, crossed, reordered, partly, failed>>
      /\ reqs' = reqs \/ reqs' = Append(reqs, r)
  BY DEF OpenForm, Visible
<1>2. r \in ReqType /\ ~r.served
  BY <1>1, FormType
<1> HIDE DEF r
<1> QED BY <1>1, <1>2, FollowSame, FollowSent

LEMMA FollowOperate ==
  ASSUME TypeInv, FollowInv, NEW op \in screen.ops, Operate(op)
  PROVE  FollowInv'
<1>1. /\ shown # None /\ (op.form \notin {"none", "follows"} => forms[op] # None)
      /\ UNCHANGED <<screen, asked, held, local, panel, saved, crossed, reordered, partly, failed>>
      /\ reqs' = Append(reqs, Sent(op))
  BY DEF Operate, Visible
<1>2. Sent(op) \in ReqType /\ ~Sent(op).served
  BY <1>1, OpType
<1> QED BY <1>1, <1>2, FollowSent

\* What the server answers now is not older than anything saved.
LEMMA FollowServe ==
  ASSUME TypeInv, WrittenInv, FollowInv, NEW i \in DOMAIN reqs, Serve(i)
  PROVE  FollowInv'
<1>1. UNCHANGED <<screen, asked, held, local, panel, saved, crossed, reordered, partly, failed>>
  BY DEF Serve
<1>2. SUFFICES ASSUME NEW f, f = reqs', Calm, NEW part \in Parts
               PROVE  CaughtUp(part)'
  <2>1. Calm' => Calm
    BY <1>1 DEF Calm
  <2> QED BY <2>1 DEF FollowInv, Parts
<1>3. CaughtUp(part)
  BY <1>2 DEF FollowInv, Parts
<1>4. SavedSame(part)
  BY <1>1, SavedStays DEF Parts
<1>5. f \in Seq(ReqType) /\ DOMAIN f = DOMAIN reqs /\ reqs' = f
  BY <1>2, ServeAt, ShownNow
<1>6. ASSUME NEW k \in DOMAIN reqs
      PROVE  /\ Brings(reqs[k], part) => Brings(f[k], part)'
             /\ Behind(f[k], part)' => Behind(reqs[k], part)
  <2> DEFINE q == f[k]
             r == reqs[k]
  <2>1. q \in ReqType /\ r \in ReqType
    BY <1>5, ShownNow
  <2>2. CASE k # i
    <3>1. q = r
      BY <1>2, <2>2, ServeAt
    <3> HIDE DEF q, r
    <3>2. (Brings(q, part)' <=> Brings(q, part)) /\ (Behind(q, part)' <=> Behind(q, part))
      BY <1>1, <1>4, <2>1, SameFollow
    <3>3. (Brings(r, part) => Brings(q, part)') /\ (Behind(q, part)' => Behind(r, part))
      BY <3>1, <3>2
    <3> QED BY <3>3 DEF q, r
  <2>3. CASE k = i
    <3>1. /\ q.what = r.what /\ q.of = r.of /\ q.dropped = r.dropped /\ q.then = r.then
          /\ q.part = r.part /\ ~r.served /\ q.v = server'[r.of]
      BY <1>2, <2>3, ServeAt
    <3>2. r.of \in Orders
      BY <2>1, ReqParts
    <3>3. /\ server'[r.of] \in Versions /\ server[r.of] \in Versions /\ saved[r.of] \in Versions
          /\ server[r.of].order <= server'[r.of].order /\ server[r.of].panel <= server'[r.of].panel
          /\ saved[r.of].order <= server[r.of].order /\ saved[r.of].panel <= server[r.of].panel
      BY <3>2, ServeAt DEF TypeInv, WrittenInv
    <3>4. \A x \in Versions : x.order \in Nat /\ x.panel \in Nat
      BY DEF Versions
    <3> HIDE DEF q, r
    <3>5. saved[r.of].order <= q.v.order /\ saved[r.of].panel <= q.v.panel
      BY <3>1, <3>3, <3>4
    <3>6. ~ (VersionOf(q.v, part) < VersionOf(saved[q.of], part))
      BY <3>1, <3>3, <3>4, <3>5 DEF VersionOf
    <3>7. ~Old(q, part)
      BY <3>6 DEF Old
    <3>8. Leads(q, part) <=> Leads(r, part)
      BY <3>1 DEF Leads, LoadsOrder
    <3>9. Puts(r, part) => Puts(q, part)
      BY <3>1 DEF Puts, Fills, Carries, Empties, LoadsOrder
    <3>10. (Brings(r, part) => Brings(q, part)) /\ ~Behind(q, part)
      BY <3>1, <3>7, <3>8, <3>9 DEF Brings, Behind
    <3>11. (Brings(q, part)' <=> Brings(q, part)) /\ (Behind(q, part)' <=> Behind(q, part))
      BY <1>1, <1>4, <2>1, SameFollow
    <3>12. (Brings(r, part) => Brings(q, part)') /\ ~Behind(q, part)'
      BY <3>10, <3>11
    <3> QED BY <3>12 DEF q, r
  <2> QED BY <2>2, <2>3
<1>7. Stale(part)' => Stale(part)
  BY <1>1 DEF Stale, StaleOrder, StalePanel, shown, prop
<1>8. Stale(part)' => \E k \in DOMAIN f : Brings(f[k], part)'
  <2>1. Stale(part) => \E k \in DOMAIN reqs : Brings(reqs[k], part)
    BY <1>3 DEF CaughtUp
  <2> QED BY <1>5, <1>6, <1>7, <2>1
<1>9. \A j \in DOMAIN f : Behind(f[j], part)' => \E k \in DOMAIN f : k > j /\ Brings(f[k], part)'
  <2>1. \A j \in DOMAIN reqs : Behind(reqs[j], part) => \E k \in DOMAIN reqs : k > j /\ Brings(reqs[k], part)
    BY <1>3 DEF CaughtUp
  <2> QED BY <1>5, <1>6, <2>1
<1> QED BY <1>5, <1>8, <1>9, CaughtFrom

\* The answer of a request that neither was left nor is late is of the order
\* the screen is open on.
LEMMA CalmAnswer ==
  ASSUME TypeInv, OrderInv, NEW i \in DOMAIN reqs, Applies(reqs[i]), Calm', UNCHANGED <<partly, failed>>
  PROVE  Calm /\ ~Spoils(reqs[i]) /\ asked # None /\ reqs[i].of = asked /\ asked \in Orders
<1>1. Calm /\ ~reqs[i].left /\ ~reqs[i].late
  BY DEF Calm, Applies
<1>2. ReqOK(reqs[i])
  BY DEF OrderInv, ReqsInv
<1>3. asked # None /\ reqs[i].of = asked
  BY <1>1, <1>2 DEF ReqOK, Calm
<1> QED BY <1>1, <1>3, ShownNow DEF Spoils, Order0

LEMMA FollowRenders ==
  ASSUME TypeInv, OrderInv, NEW part \in Parts, CaughtUp(part), NEW i \in DOMAIN reqs, NEW f,
         Image(i, f), Overtakes(i, f), NEW h \in Copy0, NEW l \in Copy0, Renders(asked, h, l, f),
         asked \in Orders, shown' # None, ~Spoils(reqs[i]), ~reqs[i].dropped, UNCHANGED <<screen, saved>>,
         \/ part \in Fills(reqs[i]) /\ (Stale(part)' => Behind(reqs[i], part) \/ (Stale(part) /\ ~Brings(reqs[i], part)))
         \/ ~Brings(reqs[i], part) /\ (Stale(part)' => Stale(part))
  PROVE  CaughtUp(part)'
<1>1. f \in Seq(ReqType) /\ i \in Nat /\ asked \in Order0
  BY ShownNow DEF Image
<1> DEFINE p == Prop(asked, h)
           d0 == IdOf(Shown(p, local'))
           from0 == [page |-> asked, own |-> IdOf(p), at |-> None, left |-> FALSE]
<1>2. /\ local' \in Copy0 /\ p \in Copy0 /\ shown' = Shown(p, local') /\ IdOf(p) \in Order0
      /\ reqs' = Follows(f, asked, d0, from0)
  BY <1>1, RendersAt
<1>3. d0 \in Orders
  <2>1. Shown(p, local') \in Copy0 /\ Shown(p, local') # None
    BY <1>2 DEF Shown
  <2> HIDE DEF p
  <2>2. d0 \in Order0 /\ d0 # None
    BY <2>1, IdType
  <2> QED BY <2>2 DEF Order0
<1>4. from0.page \in Order0 /\ from0.own \in Order0 /\ from0.at \in Order0 /\ from0.left \in BOOLEAN
  BY <1>1, <1>2 DEF Order0
<1> HIDE DEF p, d0, from0
<1>5. PICK a, d, from, g : a = asked /\ d = d0 /\ from = from0 /\ g = reqs'
  OBVIOUS
<1>6. a \in Orders /\ d \in Orders /\ from.page \in Order0 /\ from.own \in Order0
      /\ from.at \in Order0 /\ from.left \in BOOLEAN
      /\ g = Follows(f, a, d, from)
  BY <1>2, <1>3, <1>4, <1>5
<1>7. ReqsInv
  BY DEF OrderInv
<1>8. g \in Seq(ReqType) /\ BackAt(i, g) /\ Overtakes(i, g) /\ KeptOrFresh(i, g)
  BY <1>1, <1>6, <1>7, FollowsImage
<1>9. SavedSame(part) /\ reqs' = g
  BY <1>5, SavedStays DEF Parts
<1>10. \/ CaughtUp(part)'
       \/ \A k \in DOMAIN reqs : k # i /\ Brings(reqs[k], part) =>
            \E m \in DOMAIN g : Was(i, m) = k /\ Brings(g[m], part)'
  BY <1>1, <1>7, <1>8, <1>9, FollowsBrings
<1>11. CASE \A k \in DOMAIN reqs : k # i /\ Brings(reqs[k], part) =>
              \E m \in DOMAIN g : Was(i, m) = k /\ Brings(g[m], part)'
  <2>1. CASE part \in Fills(reqs[i]) /\ (Stale(part)' => Behind(reqs[i], part) \/ (Stale(part) /\ ~Brings(reqs[i], part)))
    BY <1>8, <1>9, <1>11, <2>1, CaughtArrives
  <2>2. CASE ~Brings(reqs[i], part) /\ (Stale(part)' => Stale(part))
    BY <1>1, <1>8, <1>9, <1>11, <2>2, CaughtKeeps
  <2> QED BY <2>1, <2>2
<1> QED BY <1>10, <1>11

LEMMA OldAnswer ==
  ASSUME NEW r, NEW x, r.served, x.of = r.of, ~r.dropped, ~Spoils(r)
  PROVE  /\ x.v = r.v.order /\ x.v < saved[x.of].order /\ "order" \in Fills(r) => Behind(r, "order")
         /\ x.v = r.v.panel /\ x.v < saved[x.of].panel /\ "panel" \in Fills(r) /\ ~Empties(r) => Behind(r, "panel")
BY DEF Old, VersionOf, Behind, Puts

\* The page's answer is followed by nothing but the load of the items to review.
LEMMA RowsImage ==
  ASSUME TypeInv, NEW i \in DOMAIN reqs
  PROVE  /\ Image(i, Others(i) \o Rows(reqs[i])) /\ Overtakes(i, Others(i) \o Rows(reqs[i]))
         /\ Others(i) \in Seq(ReqType) /\ Rows(reqs[i]) \in Seq(ReqType)
         /\ Others(i) \o Rows(reqs[i]) \in Seq(ReqType)
         /\ \A q \in Range(Rows(reqs[i])) : ~q.served /\ ~q.dropped /\ q.what = "panel"
         /\ reqs[i].rows => Rows(reqs[i]) # <<>>
<1> DEFINE r == reqs[i]
<1>1. r \in ReqType /\ i \in Nat
  BY RestAt, ShownNow
<1> HIDE DEF r
<1>2. Rows(r) \in Seq(ReqType)
  BY <1>1, RowsAt
<1>3. (\A q \in Range(Rows(r)) : ~q.served /\ ~q.dropped /\ q.what = "panel") /\ (r.rows => Rows(r) # <<>>)
  <2>1. CASE Rows(r) = <<>> /\ ~r.rows
    BY <2>1 DEF Range
  <2>2. ASSUME NEW q \in ReqType, Rows(r) = <<q>>, q.what = "panel", ~q.served, ~q.dropped
        PROVE  (\A x \in Range(Rows(r)) : ~x.served /\ ~x.dropped /\ x.what = "panel") /\ Rows(r) # <<>>
    <3>1. DOMAIN Rows(r) = {1} /\ Rows(r)[1] = q /\ Len(Rows(r)) = 1
      BY <2>2, SingleSeq
    <3> QED BY <2>2, <3>1 DEF Range
  <2> QED BY <1>1, <2>1, <2>2, RowsAt
<1>4. Image(i, Others(i)) /\ Overtakes(i, Others(i)) /\ Others(i) \in Seq(ReqType)
  BY OthersImage, RestAt
<1>5. Image(i, Others(i) \o Rows(r)) /\ Overtakes(i, Others(i) \o Rows(r))
  BY <1>1, <1>2, <1>3, <1>4, TailImage
<1> QED BY <1>2, <1>3, <1>4, <1>5, RestAt DEF r

\* The page shows what it loaded, or the dialog goes on showing its own copy.
LEMMA FollowOrderShown ==
  ASSUME TypeInv, OrderInv, FollowInv, NEW i \in DOMAIN reqs, OrderArrives(i), Calm'
  PROVE  CaughtUp("order")' /\ (~ (screen.panel.loads = "after" /\ reqs[i].rows) => CaughtUp("panel")')
<1> DEFINE r == reqs[i]
           h == [of |-> r.of, v |-> r.v.order]
           lists == [of |-> r.of, v |-> r.v.panel]
<1>1. /\ LoadsOrder(r) /\ r.served /\ ~r.dropped /\ Renders(asked, h, local, Others(i) \o Rows(r)) /\ Applies(r)
      /\ Carries(r) => panel' = lists
      /\ ~Carries(r) /\ Empties(r) => panel' = None
      /\ ~Carries(r) /\ ~Empties(r) => panel' = panel
      /\ UNCHANGED <<screen, server, saved, partly, failed, acts>>
  <2>1. /\ LoadsOrder(r) /\ r.served /\ ~r.dropped /\ Renders(asked, h, local, Others(i) \o Rows(r)) /\ Applies(r)
        /\ UNCHANGED <<screen, server, saved, partly, failed, acts>>
    BY DEF OrderArrives
  <2>2. panel' = CASE Carries(r) -> lists [] Empties(r) -> None [] OTHER -> panel
    BY DEF OrderArrives
  <2>3. ~ (Carries(r) /\ Empties(r))
    BY DEF Carries, Empties
  <2> HIDE DEF h, lists, r
  <2>4. /\ Carries(r) => panel' = lists
        /\ ~Carries(r) /\ Empties(r) => panel' = None
        /\ ~Carries(r) /\ ~Empties(r) => panel' = panel
    BY <2>2, <2>3
  <2> QED BY <2>1, <2>4
<1>2. Calm /\ ~Spoils(r) /\ asked # None /\ asked \in Orders
  BY <1>1, CalmAnswer
<1>3. CaughtUp("order") /\ CaughtUp("panel")
  BY <1>2 DEF FollowInv
<1>4. h \in Copy /\ h \in Copy0 /\ h.of = r.of /\ h.v = r.v.order /\ lists.of = r.of /\ lists.v = r.v.panel /\ h # None
  BY AnswerCopy, NoneIsNone DEF Copy0
<1>5. /\ Image(i, Others(i) \o Rows(r)) /\ Overtakes(i, Others(i) \o Rows(r))
      /\ Others(i) \o Rows(r) \in Seq(ReqType) /\ asked \in Order0 /\ local \in Copy0
  BY RowsImage, ShownNow
<1> HIDE DEF h, lists, r
<1>6. Prop(asked, h) = h
  BY <1>2 DEF Prop
<1>7. /\ shown' = Shown(h, local')
      /\ local' = IF ~screen.copies THEN None ELSE IF IdOf(h) # IdOf(prop) THEN h ELSE local
  <2>1. /\ shown' = Shown(Prop(asked, h), local')
        /\ local' = IF ~screen.copies THEN None
                    ELSE IF IdOf(Prop(asked, h)) # IdOf(prop) THEN Prop(asked, h) ELSE local
    BY <1>1, <1>4, <1>5, RendersAt
  <2> QED BY <1>6, <2>1
<1>8. shown' = h \/ (screen.copies /\ local # None /\ shown' = local /\ shown = local)
  BY <1>7 DEF Shown, shown
<1>9. shown' # None
  BY <1>4, <1>8
<1>10. "order" \in Fills(r) /\ r.what \in {"detail", "refresh"}
  BY <1>1, FillsWhat DEF LoadsOrder
<1>11. Stale("order")' => Behind(r, "order") \/ (Stale("order") /\ ~Brings(r, "order"))
  <2>1. CASE shown' = h
    <3>1. Stale("order")' => h.v < saved[h.of].order
      BY <1>1, <2>1 DEF Stale, StaleOrder
    <3> QED BY <1>1, <1>2, <1>4, <1>10, <3>1, OldAnswer
  <2>2. CASE screen.copies /\ local # None /\ shown' = local /\ shown = local
    <3>1. Stale("order")' => Stale("order")
      BY <1>1, <2>2 DEF Stale, StaleOrder
    <3>2. ~Brings(r, "order")
      BY <1>10, <2>2 DEF Brings, Leads
    <3> QED BY <3>1, <3>2
  <2> QED BY <1>8, <2>1, <2>2
<1>12. CaughtUp("order")'
  <2>1. PICK f : f = Others(i) \o Rows(r)
    OBVIOUS
  <2> QED BY <1>1, <1>2, <1>3, <1>4, <1>5, <1>9, <1>10, <1>11, <2>1, FollowRenders DEF Parts, r
<1>13. ASSUME ~ (screen.panel.loads = "after" /\ r.rows)
       PROVE  \/ "panel" \in Fills(r) /\ (Stale("panel")' => Behind(r, "panel"))
              \/ ~Brings(r, "panel") /\ (Stale("panel")' => Stale("panel"))
  <2>1. CASE screen.panel.loads = "with"
    <3>1. "panel" \in Fills(r) /\ ~Empties(r) /\ Carries(r)
      BY <1>1, <2>1, FillsWhat DEF Carries
    <3>2. Stale("panel")' => lists.v < saved[lists.of].panel
      BY <1>1, <3>1 DEF Stale, StalePanel
    <3> QED BY <1>1, <1>2, <1>4, <3>1, <3>2, OldAnswer
  <2>2. CASE screen.panel.loads = "after"
    <3>1. Empties(r) /\ ~Carries(r)
      BY <1>1, <1>13, <2>2 DEF Empties, Carries
    <3>2. "panel" \in Fills(r) /\ panel' = None
      BY <1>1, <3>1, FillsWhat
    <3> QED BY <3>2 DEF Stale, StalePanel
  <2>3. CASE screen.panel.loads \notin {"with", "after"}
    <3>1. ~Carries(r) /\ ~Empties(r)
      BY <2>3 DEF Carries, Empties
    <3>2. "panel" \notin Fills(r)
      BY <1>10, <3>1, FillsWhat
    <3>3. ~Brings(r, "panel")
      BY <2>3, <3>2 DEF Brings, Puts, Leads
    <3>4. Stale("panel")' => Stale("panel")
      BY <1>1, <3>1 DEF Stale, StalePanel
    <3> QED BY <3>3, <3>4
  <2> QED BY <2>1, <2>2, <2>3
<1>14. ASSUME ~ (screen.panel.loads = "after" /\ r.rows)
       PROVE  CaughtUp("panel")'
  <2>1. PICK f : f = Others(i) \o Rows(r)
    OBVIOUS
  <2> QED BY <1>1, <1>2, <1>3, <1>4, <1>5, <1>9, <1>13, <1>14, <2>1, FollowRenders DEF Parts, r
<1> QED BY <1>12, <1>14 DEF r

\* A load that has just been asked for brings what it fills.
LEMMA FreshBrings ==
  ASSUME NEW q, NEW part \in Parts, ~q.served, ~q.dropped, part \in Fills(q), UNCHANGED screen,
         part = "order" /\ screen.copies => q.what = "copy"
  PROVE  Brings(q, part)'
<1>1. Puts(q, part)
  BY FillsWhat DEF Puts
<1>2. Puts(q, part)'
  BY <1>1, PutsSame
<1> QED BY <1>2 DEF Brings, Old

LEMMA CaughtFresh ==
  ASSUME NEW s \in Seq(ReqType), NEW t \in Seq(ReqType), reqs' = s \o t, NEW part,
         \A q \in Range(t) : ~q.served, NEW p \in Range(t), Brings(p, part)'
  PROVE  CaughtUp(part)'
<1>1. PICK f : f = s \o t
  OBVIOUS
<1>2. /\ f \in Seq(ReqType)
      /\ \A k \in DOMAIN t : Len(s) + k \in DOMAIN f /\ f[Len(s) + k] = t[k]
      /\ \A m \in DOMAIN f : m \in DOMAIN s \/ \E k \in DOMAIN t : m = Len(s) + k
  BY <1>1, ConcatAt
<1>3. DOMAIN s = 1 .. Len(s) /\ Len(s) \in Nat /\ \A k \in DOMAIN t : k \in Nat /\ k >= 1
  OBVIOUS
<1>4. PICK k \in DOMAIN t : p = t[k]
  BY DEF Range
<1> DEFINE n == Len(s) + k
<1>5. n \in DOMAIN f /\ f[n] = p
  BY <1>2, <1>4
<1>6. ASSUME NEW m \in DOMAIN f, m >= n
      PROVE  ~f[m].served
  <2>1. m \notin DOMAIN s
    BY <1>3, <1>4, <1>6
  <2>2. PICK j \in DOMAIN t : m = Len(s) + j
    BY <1>2, <2>1
  <2>3. f[m] = t[j] /\ t[j] \in Range(t)
    BY <1>2, <2>2 DEF Range
  <2> QED BY <2>3
<1> HIDE DEF n
<1>7. Brings(f[n], part)'
  BY <1>5
<1> QED BY <1>1, <1>2, <1>5, <1>6, <1>7, CaughtEnds

LEMMA FollowOrderArrives ==
  ASSUME TypeInv, OrderInv, FollowInv, NEW i \in DOMAIN reqs, OrderArrives(i), Calm'
  PROVE  CaughtUp("order")' /\ CaughtUp("panel")'
<1> DEFINE r == reqs[i]
<1>1. CASE screen.panel.loads = "after" /\ r.rows
  <2>1. UNCHANGED screen /\ \E a, h, l : Renders(a, h, l, Others(i) \o Rows(r))
    BY DEF OrderArrives
  <2>2. reqs' = Others(i) \o Rows(r)
    <3> HIDE DEF r
    <3>1. PICK a, h, l : Renders(a, h, l, Others(i) \o Rows(r))
      BY <2>1
    <3>2. \E d, from : reqs' = Follows(Others(i) \o Rows(r), a, d, from)
      BY <3>1 DEF Renders
    <3> QED BY <1>1, <3>2 DEF Follows
  <2>3. /\ Others(i) \in Seq(ReqType) /\ Rows(r) \in Seq(ReqType) /\ Rows(r) # <<>>
        /\ \A q \in Range(Rows(r)) : ~q.served /\ ~q.dropped /\ q.what = "panel"
    BY <1>1, RowsImage
  <2> HIDE DEF r
  <2>4. PICK q \in Range(Rows(r)) : TRUE
    <3>1. 1 \in DOMAIN Rows(r)
      BY <2>3
    <3> QED BY <3>1 DEF Range
  <2>5. "panel" \in Fills(q) /\ ~Empties(q)
    BY <2>3, FillsWhat
  <2>6. Brings(q, "panel")'
    BY <2>1, <2>3, <2>5, FreshBrings DEF Parts
  <2>7. CaughtUp("panel")'
    BY <2>2, <2>3, <2>6, CaughtFresh
  <2> QED BY <2>7, FollowOrderShown
<1>2. CASE ~ (screen.panel.loads = "after" /\ r.rows)
  BY <1>2, FollowOrderShown
<1> QED BY <1>1, <1>2

\* What follows the answer of a request is asked for after it.
LEMMA RestImage ==
  ASSUME TypeInv, NEW i \in DOMAIN reqs
  PROVE  /\ Image(i, Others(i) \o Continues(reqs[i])) /\ Overtakes(i, Others(i) \o Continues(reqs[i]))
         /\ \A q \in Range(Continues(reqs[i])) : ~q.served /\ ~q.dropped
<1> DEFINE r == reqs[i]
<1>1. r \in ReqType /\ Continues(r) \in Seq(ReqType) /\ i \in Nat
  BY RestAt, ThensAt, ShownNow
<1>2. r.then \in AllChains /\ r.of \in Orders /\ r.op \in Operation \cup {None}
      /\ r.page \in Order0 /\ r.own \in Order0 /\ r.at \in Order0 /\ r.left \in BOOLEAN
  BY <1>1, ReqParts, ThensAt
<1> HIDE DEF r
<1>3. \A q \in Range(Continues(r)) : ~q.served /\ ~q.dropped
  BY <1>2, SprungContinues
<1>4. Image(i, Others(i)) /\ Overtakes(i, Others(i))
  BY OthersImage
<1>5. Image(i, Others(i) \o Continues(r)) /\ Overtakes(i, Others(i) \o Continues(r))
  BY <1>1, <1>3, <1>4, TailImage
<1> QED BY <1>3, <1>5 DEF r

LEMMA FollowCopyArrives ==
  ASSUME TypeInv, OrderInv, WrittenInv, FollowInv, NEW i \in DOMAIN reqs, CopyArrives(i), Calm'
  PROVE  CaughtUp("order")' /\ CaughtUp("panel")'
<1> DEFINE r == reqs[i]
           l == [of |-> r.of, v |-> r.v.order]
<1>1. /\ r.what = "copy" /\ r.served /\ Renders(asked, held, l, Others(i) \o Continues(r)) /\ Applies(r)
      /\ UNCHANGED <<screen, server, panel, saved, partly, failed, acts>>
  BY DEF CopyArrives
<1>2. Calm /\ ~Spoils(r) /\ asked # None /\ asked \in Orders
  BY <1>1, CalmAnswer
<1>3. CaughtUp("order") /\ CaughtUp("panel")
  BY <1>2 DEF FollowInv
<1>4. l \in Copy /\ l \in Copy0 /\ l.of = r.of /\ l.v = r.v.order /\ l # None
  BY AnswerCopy, NoneIsNone DEF Copy0
<1>5. screen.copies /\ ~r.dropped
  <2>1. ReqOK(r)
    BY DEF OrderInv, ReqsInv
  <2>2. r.dropped => r.what \in {"op", "panel"}
    BY DEF WrittenInv
  <2> QED BY <1>1, <2>1, <2>2 DEF ReqOK
<1>6. /\ Image(i, Others(i) \o Continues(r)) /\ Overtakes(i, Others(i) \o Continues(r))
      /\ Others(i) \o Continues(r) \in Seq(ReqType) /\ asked \in Order0 /\ held \in Copy0
  BY RestImage, RestAt, ShownNow
<1> HIDE DEF l, r
<1>7. local' = l /\ shown' = l
  <2>1. /\ shown' = Shown(Prop(asked, held), local')
        /\ local' = IF ~screen.copies THEN None
                    ELSE IF IdOf(Prop(asked, held)) # IdOf(prop) THEN Prop(asked, held) ELSE l
    BY <1>1, <1>4, <1>6, RendersAt
  <2>2. local' = l
    BY <1>5, <2>1 DEF prop
  <2> QED BY <1>4, <2>1, <2>2 DEF Shown
<1>8. shown' # None
  BY <1>4, <1>7
<1>9. Fills(r) = {"order"}
  BY <1>1, FillsWhat
<1>10. Stale("order")' => Behind(r, "order")
  <2>1. Stale("order")' => l.v < saved[l.of].order
    BY <1>1, <1>7 DEF Stale, StaleOrder
  <2> QED BY <1>1, <1>2, <1>4, <1>5, <1>9, <2>1, OldAnswer
<1>11. ~Brings(r, "panel") /\ (Stale("panel")' => Stale("panel"))
  BY <1>1, <1>9 DEF Brings, Puts, Leads, LoadsOrder, Stale, StalePanel
<1>12. PICK f : f = Others(i) \o Continues(r)
  OBVIOUS
<1>13. CaughtUp("order")'
  BY <1>1, <1>2, <1>3, <1>4, <1>5, <1>6, <1>8, <1>9, <1>10, <1>12, FollowRenders DEF Parts, r
<1>14. CaughtUp("panel")'
  BY <1>1, <1>2, <1>3, <1>4, <1>5, <1>6, <1>8, <1>11, <1>12, FollowRenders DEF Parts, r
<1> QED BY <1>13, <1>14

\* What a load of the shipments goes on with, once its answer has come.
LEMMA CopyFollows ==
  ASSUME TypeInv, OrderInv, NEW i \in DOMAIN reqs, ~crossed, reqs[i].then = <<"copy", "refresh">>
  PROVE  screen.copies /\ \E q \in Range(Continues(reqs[i])) : q.what = "copy"
<1> DEFINE r == reqs[i]
<1>1. r \in ReqType
  BY RestAt
<1>2. r.then \in AllChains /\ r.of \in Orders /\ r.op \in Operation \cup {None}
      /\ r.page \in Order0 /\ r.own \in Order0 /\ r.at \in Order0 /\ r.left \in BOOLEAN
  BY <1>1, ReqParts, ThensAt
<1>3. ReqOK(r)
  BY DEF OrderInv, ReqsInv
<1>4. screen.copies /\ r.own = r.of /\ r.then # <<>> /\ Head(r.then) = "copy" /\ r.own # None
  BY <1>2, <1>3, ChainParts, NoneIsNone DEF ReqOK
<1> HIDE DEF r
<1>5. PICK q \in ReqType : Continues(r) = <<q>> /\ q.what = Head(r.then)
  BY <1>2, <1>4, ContinuesAt
<1>6. q \in Range(Continues(r))
  BY <1>5, SingleSeq DEF Range
<1> QED BY <1>4, <1>5, <1>6 DEF r

LEMMA FollowPanelArrives ==
  ASSUME TypeInv, OrderInv, FollowInv, NEW i \in DOMAIN reqs, PanelArrives(i), Calm'
  PROVE  CaughtUp("order")' /\ CaughtUp("panel")'
<1> DEFINE r == reqs[i]
           lists == [of |-> r.of, v |-> r.v.panel]
<1>1. /\ r.what = "panel" /\ r.served /\ reqs' = Others(i) \o Continues(r)
      /\ IF r.dropped THEN UNCHANGED <<panel, crossed, reordered>> ELSE panel' = lists /\ Applies(r)
      /\ UNCHANGED <<screen, server, asked, held, local, saved, partly, failed, acts>>
  BY DEF PanelArrives
<1>2. lists.of = r.of /\ lists.v = r.v.panel
  OBVIOUS
<1>3. /\ Image(i, Others(i) \o Continues(r)) /\ Overtakes(i, Others(i) \o Continues(r))
      /\ Others(i) \in Seq(ReqType) /\ Continues(r) \in Seq(ReqType) /\ i \in Nat
      /\ \A q \in Range(Continues(r)) : ~q.served /\ ~q.dropped
  BY RestImage, RestAt, ThensAt, ShownNow
<1> HIDE DEF lists, r
<1>4. SavedSame("order") /\ SavedSame("panel") /\ UNCHANGED screen
  BY <1>1, SavedStays
<1>5. Stale("order")' => Stale("order")
  BY <1>1 DEF Stale, StaleOrder, shown, prop
<1>6. "order" \notin Fills(r) /\ "panel" \in Fills(r) /\ ~Empties(r)
  BY <1>1, FillsWhat
<1>7. PICK f : f = Others(i) \o Continues(r)
  OBVIOUS
<1>8. CASE r.dropped
  <2>1. Calm
    BY <1>1, <1>8 DEF Calm
  <2>2. CaughtUp("order") /\ CaughtUp("panel")
    BY <2>1 DEF FollowInv
  <2>3. ~Brings(r, "order") /\ ~Brings(r, "panel")
    BY <1>8 DEF Brings
  <2>4. Stale("panel")' => Stale("panel")
    BY <1>1, <1>8 DEF Stale, StalePanel
  <2>5. CaughtUp("order")'
    BY <1>1, <1>3, <1>4, <1>5, <1>7, <2>2, <2>3, ImageKeeps DEF Parts, r
  <2>6. CaughtUp("panel")'
    BY <1>1, <1>3, <1>4, <1>7, <2>2, <2>3, <2>4, ImageKeeps DEF Parts, r
  <2> QED BY <2>5, <2>6
<1>9. CASE ~r.dropped
  <2>1. Calm /\ ~Spoils(r)
    BY <1>1, <1>9, CalmAnswer DEF r
  <2>2. CaughtUp("order") /\ CaughtUp("panel")
    BY <2>1 DEF FollowInv
  <2>3. Stale("panel")' => Behind(r, "panel")
    <3>1. Stale("panel")' => lists.v < saved[lists.of].panel
      BY <1>1, <1>9 DEF Stale, StalePanel
    <3> QED BY <1>1, <1>2, <1>6, <1>9, <2>1, <3>1, OldAnswer
  <2>4. CaughtUp("panel")'
    BY <1>1, <1>3, <1>4, <1>6, <1>7, <1>9, <2>1, <2>2, <2>3, ImageArrives DEF Parts, r
  <2>5. CASE r.then = <<"copy", "refresh">>
    <3>1. screen.copies
      BY <2>1, <2>5, CopyFollows DEF Calm, r
    <3>2. PICK q \in Range(Continues(r)) : q.what = "copy"
      BY <2>1, <2>5, CopyFollows DEF Calm, r
    <3>3. ~q.served /\ ~q.dropped /\ "order" \in Fills(q)
      BY <1>3, <3>2, FillsWhat
    <3>4. Brings(q, "order")'
      BY <1>4, <3>2, <3>3, FreshBrings DEF Parts
    <3>5. CaughtUp("order")'
      BY <1>1, <1>3, <3>4, CaughtFresh
    <3> QED BY <2>4, <3>5
  <2>6. CASE r.then # <<"copy", "refresh">>
    <3>1. ~Brings(r, "order")
      BY <1>1, <1>6, <2>6 DEF Brings, Puts, Leads
    <3>2. CaughtUp("order")'
      BY <1>1, <1>3, <1>4, <1>5, <1>7, <2>2, <3>1, ImageKeeps DEF Parts, r
    <3> QED BY <2>4, <3>2
  <2> QED BY <2>5, <2>6
<1> QED BY <1>8, <1>9

\* The loads that start once an operation is done.
LEMMA DoneStarts ==
  ASSUME NEW r \in ReqType, r.what = "op", NEW k \in {1, 2}, r.page # None, r.own # None, r.at # None,
         Steps(r.op)[k] # <<>>
  PROVE  \E q \in Range(Continues([r EXCEPT !.then = Steps(r.op)[k]])) :
           q.what = Head(Steps(r.op)[k]) /\ q.then = Tail(Steps(r.op)[k])
<1> DEFINE s == Steps(r.op)[k]
           y == [r EXCEPT !.then = s]
<1>1. s \in AllChains /\ s # <<>>
  BY StepsAt
<1>2. /\ y.then = s /\ y.of \in Orders /\ y.op \in Operation \cup {None}
      /\ y.page \in Order0 /\ y.own \in Order0 /\ y.at \in Order0 /\ y.left \in BOOLEAN
      /\ y.page # None /\ y.own # None /\ y.at # None
  BY <1>1, ThenAt, ReqParts
<1> HIDE DEF y, s
<1>3. PICK q \in ReqType : Continues(y) = <<q>> /\ q.what = Head(s) /\ q.then = Tail(s)
  BY <1>1, <1>2, ContinuesAt
<1>4. q \in Range(Continues(y))
  BY <1>3, SingleSeq DEF Range
<1> QED BY <1>3, <1>4 DEF y, s

LEMMA CaughtTwoFresh ==
  ASSUME NEW s \in Seq(ReqType), NEW t \in Seq(ReqType), NEW u \in Seq(ReqType), reqs' = (s \o t) \o u, NEW part,
         \A q \in Range(t) \cup Range(u) : ~q.served, NEW p \in Range(t) \cup Range(u), Brings(p, part)'
  PROVE  CaughtUp(part)'
<1>1. (s \o t) \o u = s \o (t \o u)
  BY ConcatAssociative
<1>2. t \o u \in Seq(ReqType) /\ s \o t \in Seq(ReqType)
  BY ConcatAt
<1>3. \A q \in Range(t \o u) : q \in Range(t) \cup Range(u)
  BY RangeConcat
<1>4. \A q \in Range(t \o u) : ~q.served
  BY <1>3
<1>5. p \in Range(t \o u)
  <2>1. CASE p \in Range(t)
    <3>1. PICK k \in DOMAIN t : p = t[k]
      BY <2>1 DEF Range
    <3>2. k \in DOMAIN (t \o u) /\ (t \o u)[k] = p
      BY <3>1, ConcatAt
    <3> QED BY <3>2 DEF Range
  <2>2. CASE p \in Range(u)
    <3>1. PICK k \in DOMAIN u : p = u[k]
      BY <2>2 DEF Range
    <3>2. Len(t) + k \in DOMAIN (t \o u) /\ (t \o u)[Len(t) + k] = p
      BY <3>1, ConcatAt
    <3> QED BY <3>2 DEF Range
  <2> QED BY <2>1, <2>2
<1> QED BY <1>1, <1>2, <1>4, <1>5, CaughtFresh

\* One of the loads an operation is followed by brings each part it changes.
Changes(op, part) == IF part = "order" THEN op.order ELSE op.panel

LEMMA DoneBrings ==
  ASSUME TypeInv, OrderInv, ~crossed, NEW i \in DOMAIN reqs, reqs[i].what = "op", UNCHANGED screen,
         NEW part \in Parts, Changes(reqs[i].op, part)
  PROVE  LET r == reqs[i]
             first == Continues([r EXCEPT !.then = Steps(r.op)[1]])
             second == Continues([r EXCEPT !.then = Steps(r.op)[2]])
         IN \E q \in Range(first) \cup Range(second) : Brings(q, part)'
<1> DEFINE r == reqs[i]
           first == Continues([r EXCEPT !.then = Steps(r.op)[1]])
           second == Continues([r EXCEPT !.then = Steps(r.op)[2]])
<1>1. r \in ReqType /\ r.of \in Orders
  BY RestAt, ReqParts
<1>2. ReqOK(r)
  BY DEF OrderInv, ReqsInv
<1>3. r.op \in screen.ops /\ r.page # None /\ r.own # None /\ r.at # None
  BY <1>1, <1>2, NoneIsNone DEF ReqOK, OpOK
<1>4. (\A q \in Range(first) : ~q.served /\ ~q.dropped) /\ \A q \in Range(second) : ~q.served /\ ~q.dropped
  BY DoneFresh
<1>5. Steps(r.op)[1] # <<>> => \E q \in Range(first) : q.what = Head(Steps(r.op)[1]) /\ q.then = Tail(Steps(r.op)[1])
  BY <1>1, <1>3, DoneStarts
<1>6. Steps(r.op)[2] # <<>> => \E q \in Range(second) : q.what = Head(Steps(r.op)[2]) /\ q.then = Tail(Steps(r.op)[2])
  BY <1>1, <1>3, DoneStarts
<1>7. /\ screen.copies /\ r.op.panel => Head(Steps(r.op)[1]) = "panel" /\ Steps(r.op)[1] # <<>>
      /\ screen.copies /\ r.op.panel /\ r.op.order => Steps(r.op)[1] = <<"panel", "copy", "refresh">>
      /\ screen.copies /\ ~r.op.panel /\ r.op.order => Steps(r.op)[1] = <<"copy", "refresh">>
      /\ ~screen.copies /\ r.op.order => Steps(r.op)[2] = <<"refresh">>
      /\ ~screen.copies /\ r.op.panel /\ (screen.panel.loads = "effect" \/ ~r.op.order)
           => Steps(r.op)[1] = <<"panel">>
  BY <1>1, StepsAt
<1>8. screen.panel.loads \in {"effect", "with", "after", "none"} /\ (r.op.panel => screen.panel.loads # "none")
  <2>1. screen \in Screens /\ screen \in Screen
    BY ScreensAssumption DEF TypeInv
  <2>2. screen.panel.loads \in {"effect", "with", "after", "none"}
    BY <2>1 DEF Screen
  <2>3. r.op.panel => screen.panel.loads # "none"
    BY <1>3, <2>1, PartsAssumption
  <2> QED BY <2>2, <2>3
<1> HIDE DEF r, first, second
<1>9. CASE part = "order"
  <2>1. r.op.order
    BY <1>9 DEF Changes, r
  <2>2. CASE screen.copies /\ r.op.panel
    <3>1. Steps(r.op)[1] = <<"panel", "copy", "refresh">>
      BY <1>7, <2>1, <2>2
    <3>2. PICK q \in Range(first) : q.what = "panel" /\ q.then = <<"copy", "refresh">>
      BY <1>5, <3>1, ChainParts
    <3>3. Brings(q, part)'
      BY <1>4, <1>9, <3>2 DEF Brings, Leads
    <3> QED BY <3>3 DEF r, first, second
  <2>3. CASE screen.copies /\ ~r.op.panel
    <3>1. Steps(r.op)[1] = <<"copy", "refresh">>
      BY <1>7, <2>1, <2>3
    <3>2. PICK q \in Range(first) : q.what = "copy"
      BY <1>5, <3>1, ChainParts
    <3>3. part \in Fills(q)
      BY <1>9, <3>2, FillsWhat
    <3>4. Brings(q, part)'
      BY <1>4, <3>2, <3>3, FreshBrings
    <3> QED BY <3>4 DEF r, first, second
  <2>4. CASE ~screen.copies
    <3>1. Steps(r.op)[2] = <<"refresh">>
      BY <1>7, <2>1, <2>4
    <3>2. PICK q \in Range(second) : q.what = "refresh"
      BY <1>6, <3>1, ChainParts
    <3>3. part \in Fills(q)
      BY <1>9, <3>2, FillsWhat
    <3>4. Brings(q, part)'
      BY <1>4, <2>4, <3>2, <3>3, FreshBrings
    <3> QED BY <3>4 DEF r, first, second
  <2> QED BY <2>2, <2>3, <2>4
<1>10. CASE part = "panel"
  <2>1. r.op.panel
    BY <1>10 DEF Changes, r
  <2>2. CASE screen.copies \/ screen.panel.loads = "effect" \/ ~r.op.order
    <3>1. Head(Steps(r.op)[1]) = "panel" /\ Steps(r.op)[1] # <<>>
      BY <1>7, <2>1, <2>2, ChainParts
    <3>2. PICK q \in Range(first) : q.what = "panel"
      BY <1>5, <3>1
    <3>3. part \in Fills(q)
      BY <1>10, <3>2, FillsWhat
    <3>4. Brings(q, part)'
      BY <1>4, <1>10, <3>2, <3>3, FreshBrings
    <3> QED BY <3>4 DEF r, first, second
  <2>3. CASE ~ (screen.copies \/ screen.panel.loads = "effect" \/ ~r.op.order)
    <3>1. Steps(r.op)[2] = <<"refresh">> /\ screen.panel.loads \in {"with", "after"}
      BY <1>7, <1>8, <2>1, <2>3
    <3>2. PICK q \in Range(second) : q.what = "refresh"
      BY <1>6, <3>1, ChainParts
    <3>3. Brings(q, part)'
      <4>1. CASE screen.panel.loads = "with"
        <5>1. part \in Fills(q)
          BY <1>10, <3>2, <4>1, FillsWhat DEF LoadsOrder
        <5> QED BY <1>4, <1>10, <3>2, <5>1, FreshBrings
      <4>2. CASE screen.panel.loads = "after"
        BY <1>4, <1>10, <3>2, <4>2 DEF Brings, Leads, LoadsOrder
      <4> QED BY <3>1, <4>1, <4>2
    <3> QED BY <3>3 DEF r, first, second
  <2> QED BY <2>2, <2>3
<1> QED BY <1>9, <1>10 DEF Parts

\* An operation that leaves a part alone writes nothing of it.
LEMMA DoneSame ==
  ASSUME TypeInv, NEW i \in DOMAIN reqs, saved' = [saved EXCEPT ![reqs[i].of] = Larger(@, Wrote(reqs[i]))],
         NEW part \in Parts, ~Changes(reqs[i].op, part)
  PROVE  SavedSame(part)
<1> DEFINE r == reqs[i]
           n == Larger(saved[r.of], Wrote(r))
<1>1. r \in ReqType /\ r.of \in Orders /\ saved \in [Orders -> Versions] /\ saved[r.of] \in Versions
  BY RestAt, ReqParts DEF TypeInv
<1>2. Wrote(r) \in Versions /\ (part = "order" => Wrote(r).order = 0) /\ (part = "panel" => Wrote(r).panel = 0)
  BY <1>1, WroteType DEF Changes, Parts
<1>3. /\ n.order \in {saved[r.of].order, Wrote(r).order} /\ n.panel \in {saved[r.of].panel, Wrote(r).panel}
      /\ saved[r.of].order <= n.order /\ saved[r.of].panel <= n.panel
  BY <1>1, <1>2, LargerType
<1>4. saved[r.of].order \in Nat /\ saved[r.of].panel \in Nat
  BY <1>1 DEF Versions
<1>5. \A o \in Orders : saved'[o] = saved[o] \/ (o = r.of /\ saved'[o] = n)
  BY <1>1
<1> HIDE DEF n, r
<1>6. CASE part = "order"
  <2>1. n.order = saved[r.of].order
    BY <1>2, <1>3, <1>4, <1>6
  <2> QED BY <1>5, <1>6, <2>1 DEF SavedSame, VersionOf
<1>7. CASE part = "panel"
  <2>1. n.panel = saved[r.of].panel
    BY <1>2, <1>3, <1>4, <1>7
  <2> QED BY <1>5, <1>7, <2>1 DEF SavedSame, VersionOf
<1> QED BY <1>6, <1>7 DEF Parts

LEMMA StaleSame ==
  ASSUME TypeInv, UNCHANGED <<asked, held, local, panel>>, NEW part \in Parts, SavedSame(part)
  PROVE  Stale(part)' => Stale(part)
<1>1. UNCHANGED shown
  BY DEF shown, prop
<1>2. (shown # None => shown.of \in Orders) /\ (panel # None => panel.of \in Orders)
  BY ShownNow DEF Copy0, Copy
<1>3. CASE part = "order"
  <2>1. \A o \in Orders : saved'[o].order = saved[o].order
    BY <1>3 DEF SavedSame, VersionOf
  <2> QED BY <1>1, <1>2, <1>3, <2>1 DEF Stale, StaleOrder
<1>4. CASE part = "panel"
  <2>1. \A o \in Orders : saved'[o].panel = saved[o].panel
    BY <1>4 DEF SavedSame, VersionOf
  <2> QED BY <1>2, <1>4, <2>1 DEF Stale, StalePanel
<1> QED BY <1>3, <1>4 DEF Parts

LEMMA OpBringsNot ==
  ASSUME NEW r, r.what = "op", NEW part \in Parts, r.dropped \/ part = "panel" \/ ~ (r.part > 1)
  PROVE  ~Brings(r, part)
BY FillsWhat DEF Brings, Puts, Leads, LoadsOrder, Parts

\* An operation of several requests changes the order, and no shipments.
LEMMA OpParts ==
  ASSUME TypeInv, OrderInv, NEW i \in DOMAIN reqs, reqs[i].what = "op"
  PROVE  /\ reqs[i].part \in Nat /\ reqs[i].op.parts \in Nat /\ reqs[i].part >= 1
         /\ reqs[i].part <= reqs[i].op.parts
         /\ reqs[i].op.parts > 1 => reqs[i].op.order /\ ~reqs[i].op.panel
<1> DEFINE r == reqs[i]
<1>1. r \in ReqType /\ ReqOK(r)
  BY RestAt DEF OrderInv, ReqsInv
<1>2. r.op \in screen.ops /\ r.part \in 1 .. r.op.parts
  BY <1>1 DEF ReqOK, OpOK
<1>3. screen \in Screens /\ screen \in Screen
  BY ScreensAssumption DEF TypeInv
<1> HIDE DEF r
<1>4. r.op \in Operation
  BY <1>2, <1>3 DEF Screen
<1>5. r.op.parts \in Nat
  BY <1>4 DEF Operation
<1>6. r.op.parts > 1 => r.op.order /\ ~r.op.panel
  BY <1>2, <1>3, PartsAssumption
<1> QED BY <1>2, <1>5, <1>6 DEF r

LEMMA FollowOpDone ==
  ASSUME TypeInv, OrderInv, FollowInv, NEW i \in DOMAIN reqs, OpDone(i), Calm', NEW part \in Parts
  PROVE  CaughtUp(part)'
<1> DEFINE r == reqs[i]
           first == Continues([r EXCEPT !.then = Steps(r.op)[1]])
           second == Continues([r EXCEPT !.then = Steps(r.op)[2]])
           rs == (Others(i) \o first) \o second
<1>1. /\ r.what = "op"
      /\ UNCHANGED <<screen, server, asked, held, local, panel, crossed, reordered, partly, failed, acts>>
      /\ \/ reqs' = Others(i) /\ UNCHANGED saved /\ r.dropped
         \/ reqs' = rs /\ saved' = [saved EXCEPT ![r.of] = Larger(@, Wrote(r))] /\ r.part = r.op.parts
  BY DEF OpDone, Saves
<1>2. Calm /\ ~crossed
  BY <1>1 DEF Calm
<1>3. CaughtUp(part)
  BY <1>2 DEF FollowInv, Parts
<1>4. /\ first \in Seq(ReqType) /\ second \in Seq(ReqType) /\ Others(i) \o first \in Seq(ReqType)
      /\ Others(i) \in Seq(ReqType)
  BY <1>1, DoneAt, RestAt
<1>5. (\A q \in Range(first) : ~q.served) /\ \A q \in Range(second) : ~q.served
  BY <1>1, DoneFresh
<1>6. i \in Nat /\ Image(i, Others(i))
  BY ShownNow, OthersImage
<1>7. CASE reqs' = Others(i) /\ UNCHANGED saved /\ r.dropped
  <2>1. SavedSame(part)
    BY <1>7, SavedStays DEF Parts
  <2>2. Stale(part)' => Stale(part)
    BY <1>1, <2>1, StaleSame
  <2>3. PICK f : f = Others(i)
    OBVIOUS
  <2>4. ~Brings(r, part)
    BY <1>1, <1>7, OpBringsNot
  <2> QED BY <1>1, <1>3, <1>6, <1>7, <2>1, <2>2, <2>3, <2>4, ImageKeeps
<1>8. CASE reqs' = rs /\ saved' = [saved EXCEPT ![r.of] = Larger(@, Wrote(r))]
  <2>1. CASE Changes(r.op, part)
    <3>1. PICK q \in Range(first) \cup Range(second) : Brings(q, part)'
      BY <1>1, <1>2, <2>1, DoneBrings
    <3> HIDE DEF first, second
    <3> QED BY <1>4, <1>5, <1>8, <3>1, CaughtTwoFresh
  <2>2. CASE ~Changes(r.op, part)
    <3>1. SavedSame(part)
      BY <1>8, <2>2, DoneSame
    <3>2. Stale(part)' => Stale(part)
      BY <1>1, <3>1, StaleSame
    <3>3. Image(i, Others(i) \o first)
      <4> HIDE DEF first
      <4> QED BY <1>4, <1>5, <1>6, TailImage
    <3>4. Image(i, rs)
      <4> HIDE DEF first, second
      <4> QED BY <1>4, <1>5, <1>6, <3>3, TailImage
    <3>5. ~Brings(r, part)
      <4>1. part = "panel" \/ ~ (r.part > 1)
        BY <1>1, <2>2, OpParts DEF Changes, Parts
      <4> QED BY <1>1, <4>1, OpBringsNot
    <3>6. PICK f : f = rs
      OBVIOUS
    <3> HIDE DEF rs
    <3> QED BY <1>1, <1>3, <1>6, <1>8, <3>1, <3>2, <3>4, <3>5, <3>6, ImageKeeps
  <2> QED BY <2>1, <2>2
<1> QED BY <1>1, <1>7, <1>8

\* The next request of an operation will be followed by the loads of the order.
LEMMA FollowPartDone ==
  ASSUME TypeInv, OrderInv, FollowInv, NEW i \in DOMAIN reqs, PartDone(i), Calm', NEW part \in Parts
  PROVE  CaughtUp(part)'
<1> DEFINE r == reqs[i]
<1>1. /\ r.what = "op" /\ r.part < r.op.parts /\ reqs' = Append(Others(i), NextPart(r))
      /\ saved' = [saved EXCEPT ![r.of] = Larger(@, Wrote(r))]
      /\ UNCHANGED <<screen, server, asked, held, local, panel, crossed, reordered, partly, failed, acts>>
  BY DEF PartDone, Saves
<1>2. r \in ReqType /\ Others(i) \in Seq(ReqType) /\ i \in Nat /\ Image(i, Others(i))
  BY RestAt, ShownNow, OthersImage
<1>3. r.part \in Nat /\ r.part >= 1 /\ r.op.parts \in Nat /\ (r.op.parts > 1 => r.op.order /\ ~r.op.panel)
  BY <1>1, OpParts
<1>4. ~r.op.panel
  BY <1>1, <1>3
<1>5. PICK q \in ReqType : q = NextPart(r) /\ q.what = "op" /\ q.part = r.part + 1 /\ ~q.served /\ ~q.dropped
  BY <1>2, NextPartAt
<1>6. /\ reqs' = Others(i) \o <<q>> /\ <<q>> \in Seq(ReqType)
      /\ q \in Range(<<q>>) /\ \A x \in Range(<<q>>) : ~x.served
  <2>1. Append(Others(i), q) = Others(i) \o <<q>>
    BY <1>2, <1>5
  <2>2. <<q>> \in Seq(ReqType) /\ DOMAIN <<q>> = {1} /\ <<q>>[1] = q
    BY <1>5, SingleSeq
  <2>3. reqs' = Append(Others(i), q)
    BY <1>1, <1>5
  <2>4. Range(<<q>>) = {q}
    BY <2>2 DEF Range
  <2> QED BY <1>5, <2>1, <2>2, <2>3, <2>4
<1>7. CASE part = "order"
  <2>1. q.part > 1
    BY <1>3, <1>5
  <2>2. Brings(q, part)'
    BY <1>5, <1>7, <2>1 DEF Brings, Leads
  <2> HIDE DEF r
  <2> QED BY <1>2, <1>6, <2>2, CaughtFresh
<1>8. CASE part = "panel"
  <2>1. ~Changes(r.op, part)
    BY <1>4, <1>8 DEF Changes
  <2>2. SavedSame(part)
    BY <1>1, <2>1, DoneSame
  <2>3. Stale(part)' => Stale(part)
    BY <1>1, <2>2, StaleSame
  <2>4. ~Brings(r, part)
    BY <1>1, <1>8, OpBringsNot
  <2>5. CaughtUp(part)
    <3>1. Calm
      BY <1>1 DEF Calm
    <3> QED BY <3>1 DEF FollowInv, Parts
  <2>6. PICK f : f = Others(i) \o <<q>>
    OBVIOUS
  <2>7. Image(i, f)
    BY <1>2, <1>6, <2>6, TailImage
  <2> QED BY <1>1, <1>2, <1>6, <2>2, <2>3, <2>4, <2>5, <2>6, <2>7, ImageKeeps
<1> QED BY <1>7, <1>8 DEF Parts

LEMMA FollowOpFails ==
  ASSUME TypeInv, OrderInv, FollowInv, NEW i \in DOMAIN reqs, OpFails(i), Calm', NEW part \in Parts
  PROVE  CaughtUp(part)'
<1> DEFINE r == reqs[i]
<1>1. /\ r.what = "op" /\ reqs' = Others(i) /\ partly' = (partly \/ r.part > 1)
      /\ UNCHANGED <<screen, server, asked, held, local, panel, loading, saved, crossed, reordered, failed, acts>>
  BY DEF OpFails
<1>2. Calm /\ ~ (r.part > 1)
  BY <1>1 DEF Calm
<1>3. CaughtUp(part) /\ SavedSame(part)
  BY <1>1, <1>2, SavedStays DEF FollowInv, Parts
<1>4. Stale(part)' => Stale(part)
  BY <1>1, <1>3, StaleSame
<1>5. ~Brings(r, part)
  BY <1>1, <1>2, OpBringsNot
<1>6. i \in Nat /\ Image(i, Others(i))
  BY ShownNow, OthersImage
<1>7. PICK f : f = Others(i)
  OBVIOUS
<1> QED BY <1>1, <1>3, <1>4, <1>5, <1>6, <1>7, ImageKeeps

LEMMA FollowFormArrives ==
  ASSUME TypeInv, FollowInv, NEW i \in DOMAIN reqs, FormArrives(i), Calm', NEW part \in Parts
  PROVE  CaughtUp(part)'
<1> DEFINE r == reqs[i]
<1>1. /\ r.what = "form" /\ reqs' = Others(i) /\ Applies(r)
      /\ UNCHANGED <<screen, server, asked, held, local, panel, saved, partly, failed>>
  BY DEF FormArrives
<1>2. Calm
  BY <1>1 DEF Calm, Applies
<1>3. CaughtUp(part) /\ SavedSame(part)
  BY <1>1, <1>2, SavedStays DEF FollowInv, Parts
<1>4. Stale(part)' => Stale(part)
  BY <1>1, <1>3, StaleSame
<1>5. ~Brings(r, part)
  BY <1>1, FillsWhat DEF Brings, Puts, Leads, LoadsOrder
<1>6. i \in Nat /\ Image(i, Others(i))
  BY ShownNow, OthersImage
<1>7. PICK f : f = Others(i)
  OBVIOUS
<1> QED BY <1>1, <1>3, <1>4, <1>5, <1>6, <1>7, ImageKeeps

LEMMA FollowInit == Init => FollowInv
<1> SUFFICES ASSUME Init PROVE FollowInv
  OBVIOUS
<1>1. asked \in Orders /\ held = None /\ local = None /\ panel = None /\ reqs = <<Detail(asked)>>
  BY DEF Init
<1>2. \A j \in DOMAIN reqs : ~reqs[j].served
  BY <1>1, DetailType, SingleSeq
<1>3. shown = None
  BY <1>1 DEF shown, prop, Prop, Shown
<1>4. ~Stale("order") /\ ~Stale("panel")
  BY <1>1, <1>3 DEF Stale, StaleOrder, StalePanel
<1>5. \A j \in DOMAIN reqs : ~Behind(reqs[j], "order") /\ ~Behind(reqs[j], "panel")
  BY <1>2 DEF Behind, Old
<1> QED BY <1>4, <1>5 DEF FollowInv, CaughtUp

LEMMA FollowNext ==
  TypeInv /\ OrderInv /\ FormsInv /\ WrittenInv /\ FollowInv /\ [Next]_vars => FollowInv'
<1> SUFFICES ASSUME TypeInv, OrderInv, FormsInv, WrittenInv, FollowInv, [Next]_vars PROVE FollowInv'
  OBVIOUS
<1>1. ASSUME Calm' => CaughtUp("order")' /\ CaughtUp("panel")'
      PROVE  FollowInv'
  BY <1>1 DEF FollowInv
<1>2. CASE UNCHANGED vars
  BY <1>2, FollowSame DEF vars
<1>3. ASSUME NEW o \in Orders, Open(o)
      PROVE  FollowInv'
  BY <1>1, <1>3, FollowOpen DEF FollowInv
<1>4. ASSUME NEW o \in Orders, OtherUser(o)
      PROVE  FollowInv'
  BY <1>4, FollowSame DEF OtherUser
<1>5. CASE Close
  BY <1>5, OrderNext, FollowClose DEF Next
<1>6. CASE Polled
  BY <1>6, FollowPolled
<1>7. ASSUME NEW op \in screen.ops, OpenForm(op)
      PROVE  FollowInv'
  BY <1>7, FollowOpenForm
<1>8. ASSUME NEW op \in screen.ops, CloseForm(op)
      PROVE  FollowInv'
  BY <1>8, FollowSame DEF CloseForm
<1>9. ASSUME NEW op \in screen.ops, Operate(op)
      PROVE  FollowInv'
  BY <1>9, FollowOperate
<1>10. ASSUME NEW i \in DOMAIN reqs, Serve(i)
       PROVE  FollowInv'
  BY <1>10, FollowServe
<1>11. ASSUME NEW i \in DOMAIN reqs, OrderArrives(i)
       PROVE  FollowInv'
  BY <1>1, <1>11, FollowOrderArrives
<1>12. ASSUME NEW i \in DOMAIN reqs, CopyArrives(i)
       PROVE  FollowInv'
  BY <1>1, <1>12, FollowCopyArrives
<1>13. ASSUME NEW i \in DOMAIN reqs, PanelArrives(i)
       PROVE  FollowInv'
  BY <1>1, <1>13, FollowPanelArrives
<1>14. ASSUME NEW i \in DOMAIN reqs, FormArrives(i)
       PROVE  FollowInv'
  BY <1>1, <1>14, FollowFormArrives DEF Parts
<1>15. ASSUME NEW i \in DOMAIN reqs, PartDone(i)
       PROVE  FollowInv'
  BY <1>1, <1>15, FollowPartDone DEF Parts
<1>16. ASSUME NEW i \in DOMAIN reqs, OpDone(i)
       PROVE  FollowInv'
  BY <1>1, <1>16, FollowOpDone DEF Parts
<1>17. ASSUME NEW i \in DOMAIN reqs, OpFails(i)
       PROVE  FollowInv'
  BY <1>1, <1>17, FollowOpFails DEF Parts
<1>18. ASSUME NEW i \in DOMAIN reqs, LoadFails(i)
       PROVE  FollowInv'
  <2>1. failed \in Nat /\ failed' = failed + 1
    BY <1>18 DEF LoadFails, TypeInv
  <2>2. failed' # 0
    BY <2>1
  <2>3. ~Calm'
    BY <2>2 DEF Calm
  <2> QED BY <2>3 DEF FollowInv
<1> QED BY <1>2, <1>3, <1>4, <1>5, <1>6, <1>7, <1>8, <1>9, <1>10, <1>11, <1>12, <1>13, <1>14, <1>15,
           <1>16, <1>17, <1>18 DEF Next

LEMMA FollowShows == TypeInv /\ OrderInv /\ FollowInv => ShowsWhatWasSaved
<1> SUFFICES ASSUME TypeInv, OrderInv, FollowInv, reqs = <<>>, shown # None,
                    failed = 0, ~partly, ~reordered, ~crossed
             PROVE  /\ shown.v >= saved[shown.of].order
                    /\ panel # None => panel.of = shown.of /\ panel.v >= saved[shown.of].panel
  BY DEF ShowsWhatWasSaved
<1>1. CaughtUp("order") /\ CaughtUp("panel") /\ DOMAIN reqs = {}
  BY NoSeq DEF FollowInv, Calm
<1>2. ~StaleOrder /\ ~StalePanel
  BY <1>1 DEF CaughtUp, Stale
<1>3. shown \in Copy /\ (panel # None => panel \in Copy) /\ saved \in [Orders -> Versions]
  BY ShownNow DEF Copy0, TypeInv
<1>4. shown.of = asked /\ (panel # None => panel.of = asked)
  <2>1. IdOf(held) \in {None, asked} /\ IdOf(local) \in {None, asked} /\ IdOf(panel) \in {None, asked}
    BY DEF OrderInv, ScreenInv
  <2>2. shown \in {held, local}
    BY DEF shown, prop, Shown, Prop
  <2>3. shown.of # None /\ (panel # None => panel.of # None)
    BY <1>3, NoneIsNone DEF Copy
  <2> QED BY <2>1, <2>2, <2>3 DEF IdOf
<1>5. /\ shown.of \in Orders /\ shown.v \in Nat /\ (panel # None => panel.v \in Nat)
      /\ saved[shown.of].order \in Nat /\ saved[shown.of].panel \in Nat
  BY <1>3 DEF Copy, Versions
<1>6. shown.v >= saved[shown.of].order
  BY <1>2, <1>5 DEF StaleOrder
<1>7. panel # None => panel.of = shown.of /\ panel.v >= saved[shown.of].panel
  BY <1>2, <1>4, <1>5 DEF StalePanel
<1> QED BY <1>6, <1>7

\* What the user saved is on the screen once everything is answered, unless a
\* load failed, an operation of several requests failed after its first, or
\* answers overtook each other or came from an earlier dialog: whatever is older
\* than it, shown or on its way, is followed by a load that reads it, or by the
\* operation's next request and then that load (refreshOrder,
\* refreshSelectedOrder and loadShipments after every operation).
THEOREM SavedIsShown == Spec => []ShowsWhatWasSaved
<1>1. Init => IInv
  <2>1. Init => FormsInv
    BY DEF Init, FormsInv
  <2> QED BY <2>1, TypeInit, OrderInit, WrittenInit, FollowInit DEF IInv
<1>2. IInv /\ [Next]_vars => IInv'
  BY TypeNext, OrderNext, FormsNext, WrittenNext, FollowNext DEF IInv
<1>3. IInv => ShowsWhatWasSaved
  BY FollowShows DEF IInv
<1> QED BY <1>1, <1>2, <1>3, PTL DEF Spec
=============================================================================
