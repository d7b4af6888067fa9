--------------------------- MODULE Watchers_proofs ---------------------------
(***************************************************************************)
(* The watchers of a connection that is up are watched, for any number of  *)
(* watchers, options and bounds. The list of watchers keeps its links in   *)
(* the watchers themselves, and AddAllWatchers adds a watcher to a second  *)
(* list before it is taken from the first: what the proof has to know of   *)
(* the links that are left is that they never lead from one bus to         *)
(* another.                                                                *)
(***************************************************************************)
EXTENDS Plugin_proofs

-----------------------------------------------------------------------------
(***************************************************************************)
(* The chain of links.                                                     *)
(***************************************************************************)

\* The lists: those that wait for a bus, and those of its connection. And the
\* chains whose heads and links are among the first n watchers.
Lists == {"waiting", "listed"} \X Watchable

Chain(n) == [head : [Lists -> [first : 0..n, last : 0..n]], next : [Ids -> 0..n], prev : [Ids -> 0..n]]

\* A chain that knows the first n watchers only, and whose links and heads never
\* leave a bus: own is the bus that each watcher was asked for, which a link may
\* remember longer than the watcher lives.
ChainOK(c, n, own) ==
  /\ c \in Chain(n)
  /\ \A w \in Ids : w > n => c.next[w] = 0 /\ c.prev[w] = 0
  /\ \A w \in Ids : /\ c.next[w] # 0 => own[c.next[w]] = own[w]
                    /\ c.prev[w] # 0 => own[c.prev[w]] = own[w]
  /\ \A k \in Lists : /\ c.head[k].first # 0 => own[c.head[k].first] = k[2]
                      /\ c.head[k].last # 0 => own[c.head[k].last] = k[2]

\* Whoever is in a list is in every set that follows its links.
LEMMA ListedLeast ==
  ASSUME NEW c, NEW k, NEW S \in SUBSET Ids, Follows(c, k, S)
  PROVE  Listed(c, k) \subseteq S
  BY DEF Listed

\* The list is itself such a set: what it links to is in it.
LEMMA ListedFollows ==
  ASSUME NEW n \in 0..MaxWatchers, NEW c \in Chain(n), NEW k \in Lists
  PROVE  Follows(c, k, Listed(c, k)) /\ Listed(c, k) \subseteq Ids
<1>1. c.head[k].first # 0 => c.head[k].first \in Ids
  BY BusesAssumption DEF Chain, Ids
<1>2. \A w \in Ids : c.next[w] # 0 => c.next[w] \in Ids
  BY BusesAssumption DEF Chain, Ids
<1> QED BY <1>1, <1>2 DEF Follows, Listed

\* A list meets watchers of its own bus only.
LEMMA ListedOwn ==
  ASSUME NEW n \in 0..MaxWatchers, NEW own, NEW c, ChainOK(c, n, own), NEW k \in Lists
  PROVE  \A w \in Listed(c, k) : w \in Ids /\ w <= n /\ own[w] = k[2]
<1> DEFINE S == {w \in Ids : w <= n /\ own[w] = k[2]}
<1>1. Follows(c, k, S)
  BY SMTT(30), BusesAssumption DEF ChainOK, Chain, Follows, Ids
<1>2. S \in SUBSET Ids
  OBVIOUS
<1>3. Listed(c, k) \subseteq S
  BY <1>1, <1>2, ListedLeast
<1> QED BY <1>3

\* cListBase::Add of a watcher to a list of its bus.
LEMMA AddOK ==
  ASSUME NEW n \in 0..MaxWatchers, NEW own, NEW c, ChainOK(c, n, own), NEW k \in Lists,
         NEW w \in Ids, w <= n, own[w] = k[2]
  PROVE  ChainOK(ListAdd(c, k, w), n, own)
<1> DEFINE d == ListAdd(c, k, w)
           last == c.head[k].last
<1> USE BusesAssumption DEF Ids
<1>1. last \in 0..n /\ w \in 0..n
  BY DEF ChainOK, Chain
<1>2. d.head \in [Lists -> [first : 0..n, last : 0..n]]
  BY <1>1 DEF ListAdd, ChainOK, Chain
<1>3. d.next \in [Ids -> 0..n] /\ d.prev \in [Ids -> 0..n]
  BY <1>1 DEF ListAdd, ChainOK, Chain
<1>4. d \in Chain(n)
  BY <1>2, <1>3 DEF ListAdd, Chain
<1>5. \A x \in Ids : x > n => d.next[x] = 0 /\ d.prev[x] = 0
  BY <1>1 DEF ListAdd, ChainOK, Chain
<1>6. \A x \in Ids : /\ d.next[x] # 0 => own[d.next[x]] = own[x]
                     /\ d.prev[x] # 0 => own[d.prev[x]] = own[x]
  BY <1>1 DEF ListAdd, ChainOK, Chain
<1>7. \A j \in Lists : /\ d.head[j].first # 0 => own[d.head[j].first] = j[2]
                       /\ d.head[j].last # 0 => own[d.head[j].last] = j[2]
  BY <1>1 DEF ListAdd, ChainOK, Chain
<1> HIDE DEF d
<1>8. ChainOK(d, n, own)
  BY <1>4, <1>5, <1>6, <1>7 DEF ChainOK
<1> QED BY <1>8 DEF d

\* It adds the watcher to what a list meets, at most.
LEMMA AddFollows ==
  ASSUME NEW n \in 0..MaxWatchers, NEW c \in Chain(n), NEW k \in Lists, NEW w \in Ids,
         NEW j \in Lists, NEW S \in SUBSET Ids, Follows(c, j, S), c.next[w] # 0 => c.next[w] \in S
  PROVE  Follows(ListAdd(c, k, w), j, S \union {w})
<1> USE BusesAssumption DEF Ids
<1>1. ListAdd(c, k, w).head[j].first \in {w, c.head[j].first}
  BY DEF ListAdd, Chain
<1>2. \A x \in Ids : ListAdd(c, k, w).next[x] \in {w, c.next[x]}
  BY DEF ListAdd
<1> QED BY <1>1, <1>2 DEF Follows

\* cListBase::Del of a watcher from a list of its bus.
LEMMA DelOK ==
  ASSUME NEW n \in 0..MaxWatchers, NEW own, NEW c, ChainOK(c, n, own), NEW k \in Lists,
         NEW w \in Ids, w <= n, own[w] = k[2]
  PROVE  ChainOK(ListDel(c, k, w), n, own)
<1> DEFINE d == ListDel(c, k, w)
<1> USE BusesAssumption DEF Ids
<1>1. c.next[w] \in 0..n /\ c.prev[w] \in 0..n /\ w \in 0..n
  BY DEF ChainOK, Chain
<1>2. d.head \in [Lists -> [first : 0..n, last : 0..n]]
  BY <1>1 DEF ListDel, ChainOK, Chain
<1>3. d.next \in [Ids -> 0..n] /\ d.prev \in [Ids -> 0..n]
  BY SMTT(30), <1>1 DEF ListDel, ChainOK, Chain
<1>4. d \in Chain(n)
  BY <1>2, <1>3 DEF ListDel, Chain
<1>5. \A x \in Ids : x > n => d.next[x] = 0 /\ d.prev[x] = 0
  BY <1>1 DEF ListDel, ChainOK, Chain
<1>6. \A x \in Ids : /\ d.next[x] # 0 => own[d.next[x]] = own[x]
                     /\ d.prev[x] # 0 => own[d.prev[x]] = own[x]
  BY SMTT(30), <1>1 DEF ListDel, ChainOK, Chain
<1>7. \A j \in Lists : /\ d.head[j].first # 0 => own[d.head[j].first] = j[2]
                       /\ d.head[j].last # 0 => own[d.head[j].last] = j[2]
  BY <1>1 DEF ListDel, ChainOK, Chain
<1> HIDE DEF d
<1>8. ChainOK(d, n, own)
  BY <1>4, <1>5, <1>6, <1>7 DEF ChainOK
<1> QED BY <1>8 DEF d

\* It adds nothing to what a list meets, if the watcher is in that list, or its
\* predecessor is not: the links on both sides are joined whichever list they
\* belong to.
LEMMA DelFollows ==
  ASSUME NEW n \in 0..MaxWatchers, NEW c \in Chain(n), NEW k \in Lists, NEW w \in Ids,
         NEW j \in Lists, NEW S \in SUBSET Ids, Follows(c, j, S), w \in S \/ (j # k /\ c.prev[w] \notin S)
  PROVE  Follows(ListDel(c, k, w), j, S)
<1> USE BusesAssumption DEF Ids
<1>1. ListDel(c, k, w).head[j].first = IF j = k /\ c.head[j].first = w THEN c.next[w] ELSE c.head[j].first
  BY DEF ListDel, Chain
<1>2. \A x \in Ids : ListDel(c, k, w).next[x] = IF x = w THEN 0 ELSE IF x = c.prev[w] THEN c.next[w] ELSE c.next[x]
  BY DEF ListDel
<1> QED BY <1>1, <1>2 DEF Follows

\* The head of a list is reset.
Reset(c, k) == [c EXCEPT !.head[k] = [first |-> 0, last |-> 0]]

\* The list meets nobody any more, and the others are left alone.
LEMMA ResetOK ==
  ASSUME NEW n \in 0..MaxWatchers, NEW own, NEW c, ChainOK(c, n, own), NEW k \in Lists
  PROVE  /\ ChainOK(Reset(c, k), n, own)
         /\ Listed(Reset(c, k), k) = {}
         /\ \A j \in Lists : j # k => Listed(Reset(c, k), j) = Listed(c, j) /\ Reset(c, k).head[j] = c.head[j]
<1> DEFINE d == Reset(c, k)
<1>1. c \in Chain(n)
  BY DEF ChainOK
<1>2. /\ d.next = c.next /\ d.prev = c.prev
      /\ d.head = [c.head EXCEPT ![k] = [first |-> 0, last |-> 0]]
  BY <1>1 DEF Reset, Chain
<1>3. /\ d.head \in [Lists -> [first : 0..n, last : 0..n]]
      /\ d.head[k].first = 0 /\ d.head[k].last = 0
      /\ \A j \in Lists : j # k => d.head[j] = c.head[j]
  BY <1>1, <1>2 DEF Chain
<1>4. d \in Chain(n)
  BY <1>1, <1>2, <1>3 DEF Reset, Chain
<1> HIDE DEF d
<1>5. ChainOK(d, n, own)
  BY <1>2, <1>3, <1>4 DEF ChainOK
<1>6. Listed(d, k) = {}
  <2>1. Follows(d, k, {})
    BY <1>3 DEF Follows
  <2> QED BY <2>1, ListedLeast
<1>7. ASSUME NEW j \in Lists, j # k PROVE Listed(d, j) = Listed(c, j) /\ d.head[j] = c.head[j]
  <2>1. \A S \in SUBSET Ids : Follows(d, j, S) <=> Follows(c, j, S)
    BY <1>2, <1>3, <1>7 DEF Follows
  <2> QED BY <1>3, <1>7, <2>1 DEF Listed
<1> QED BY <1>5, <1>6, <1>7 DEF d

\* A watcher that is not linked may be asked for on any bus.
LEMMA Relabelled ==
  ASSUME NEW n \in 0..MaxWatchers, NEW own, NEW c, ChainOK(c, n, own), NEW v \in Ids, v = n + 1,
         NEW b \in Watchable, own \in [Ids -> Watchable]
  PROVE  ChainOK(c, n, [own EXCEPT ![v] = b]) /\ ChainOK(c, v, [own EXCEPT ![v] = b]) /\ c.next[v] = 0
<1> DEFINE o == [own EXCEPT ![v] = b]
<1>1. c \in Chain(n) /\ \A x \in Ids : x > n => c.next[x] = 0 /\ c.prev[x] = 0
  BY DEF ChainOK
<1>2. c.next[v] = 0 /\ c.prev[v] = 0
  BY <1>1
<1>3. \A x \in Ids : x # v => o[x] = own[x]
  OBVIOUS
<1>4. c \in Chain(v)
  <2>1. n \in Nat /\ v \in Nat
    BY BusesAssumption DEF Ids
  <2>2. 0..n \subseteq 0..v
    BY <2>1
  <2> QED BY <1>1, <2>2 DEF Chain
<1>5. \A x \in Ids : x > v => c.next[x] = 0 /\ c.prev[x] = 0
  BY <1>1, BusesAssumption DEF Ids
<1> HIDE DEF o
<1>6. ASSUME NEW x \in Ids
      PROVE  (c.next[x] # 0 => o[c.next[x]] = o[x]) /\ (c.prev[x] # 0 => o[c.prev[x]] = o[x])
  <2>1. c.next[x] \in 0..n /\ c.prev[x] \in 0..n
    BY <1>1 DEF Chain
  <2>2. \A y \in 0..n : y # 0 => y \in Ids /\ y # v
    BY BusesAssumption DEF Ids
  <2>3. /\ c.next[x] # 0 => own[c.next[x]] = own[x]
        /\ c.prev[x] # 0 => own[c.prev[x]] = own[x]
    BY DEF ChainOK
  <2> QED BY <1>2, <1>3, <2>1, <2>2, <2>3
<1>7. ASSUME NEW k \in Lists
      PROVE  /\ c.head[k].first # 0 => o[c.head[k].first] = k[2]
             /\ c.head[k].last # 0 => o[c.head[k].last] = k[2]
  <2>1. /\ c.head[k].first # 0 => c.head[k].first \in Ids \ {v} /\ own[c.head[k].first] = k[2]
        /\ c.head[k].last # 0 => c.head[k].last \in Ids \ {v} /\ own[c.head[k].last] = k[2]
    BY <1>1, BusesAssumption DEF ChainOK, Chain, Ids
  <2> QED BY <1>3, <2>1
<1>8. ChainOK(c, n, o) /\ ChainOK(c, v, o)
  BY <1>1, <1>4, <1>5, <1>6, <1>7 DEF ChainOK
<1> QED BY <1>2, <1>8 DEF o

\* One that is not linked is added to a list of its bus: no other bus's list
\* meets it.
LEMMA FreshAdded ==
  ASSUME NEW n \in 0..MaxWatchers, NEW own, NEW c, ChainOK(c, n, own), NEW w \in Ids, w <= n, c.next[w] = 0,
         NEW k \in Lists, own[w] = k[2], NEW j \in Lists
  PROVE  /\ ChainOK(ListAdd(c, k, w), n, own)
         /\ Listed(ListAdd(c, k, w), j) \subseteq Listed(c, j) \union {w}
         /\ j[2] # k[2] => Listed(ListAdd(c, k, w), j) \subseteq Listed(c, j)
         /\ j # k => ListAdd(c, k, w).head[j] = c.head[j]
<1> DEFINE d == ListAdd(c, k, w)
<1>1. ChainOK(d, n, own)
  BY AddOK
<1>2. c \in Chain(n)
  BY DEF ChainOK
<1>3. Follows(c, j, Listed(c, j)) /\ Listed(c, j) \subseteq Ids
  BY <1>2, ListedFollows
<1>4. Follows(d, j, Listed(c, j) \union {w})
  BY <1>2, <1>3, AddFollows
<1>5. j # k => d.head[j] = c.head[j]
  BY <1>2 DEF ListAdd, Chain
<1> HIDE DEF d
<1>6. Listed(d, j) \subseteq Listed(c, j) \union {w}
  BY <1>3, <1>4, ListedLeast
<1>7. \A x \in Listed(d, j) : own[x] = j[2]
  BY <1>1, ListedOwn
<1> QED BY <1>1, <1>5, <1>6, <1>7 DEF d

-----------------------------------------------------------------------------
(***************************************************************************)
(* AddAllWatchers.                                                         *)
(***************************************************************************)

\* The chain after each of up to n steps of AddAllWatchers' loop: m[i] after i
\* of them.
Moves(m, n, b) == m = [i \in 0..n |-> IF i = 0 THEN chain ELSE MovedOne(m[i - 1], b)]

\* There is such a function, by induction over the number of steps.
LEMMA MovesExist ==
  ASSUME NEW b, NEW n \in Nat
  PROVE  \E m : Moves(m, n, b)
<1> DEFINE S == {k \in Nat : \E m : Moves(m, k, b)}
<1>1. 0 \in S
  <2>1. Moves([i \in 0..0 |-> chain], 0, b)
    BY DEF Moves
  <2> QED BY <2>1
<1>2. ASSUME NEW k \in S PROVE k + 1 \in S
  <2>1. k \in Nat /\ \E m : Moves(m, k, b)
    OBVIOUS
  <2>2. PICK m : Moves(m, k, b)
    BY <2>1
  <2> DEFINE e == [i \in 0..(k + 1) |-> IF i = k + 1 THEN MovedOne(m[k], b) ELSE m[i]]
  <2>3. ASSUME NEW i \in 0..(k + 1)
        PROVE  e[i] = IF i = 0 THEN chain ELSE MovedOne(e[i - 1], b)
    <3>1. CASE i = k + 1
      <4>1. k \in 0..(k + 1) /\ k # k + 1 /\ i - 1 = k /\ i # 0
        BY <2>1, <3>1
      <4>2. e[i - 1] = m[k]
        BY <4>1
      <4> QED BY <3>1, <4>1, <4>2
    <3>2. CASE i # k + 1
      <4>1. i \in 0..k /\ (i # 0 => i - 1 \in 0..(k + 1) /\ i - 1 # k + 1)
        BY <2>1, <3>2
      <4>2. e[i] = m[i] /\ (i # 0 => e[i - 1] = m[i - 1])
        BY <3>2, <4>1
      <4>3. m[i] = IF i = 0 THEN chain ELSE MovedOne(m[i - 1], b)
        BY <2>2, <4>1 DEF Moves
      <4> QED BY <4>2, <4>3
    <3> QED BY <3>1, <3>2
  <2>4. Moves(e, k + 1, b)
    <3> HIDE DEF e
    <3>1. e = [i \in 0..(k + 1) |-> e[i]]
      BY DEF e
    <3> QED BY <2>3, <3>1 DEF Moves
  <2> QED BY <2>1, <2>4
<1> HIDE DEF S
<1>3. S \in SUBSET Nat
  BY DEF S
<1>4. S = Nat
  BY <1>1, <1>2, <1>3, Induction
<1> QED BY <1>4 DEF S

\* It is the one that AddAllWatchers is defined with.
LEMMA AllMoved ==
  ASSUME NEW b, AddAllWatchers(b)
  PROVE  \E m : Moves(m, MaxWatchers, b) /\ chain' = m[MaxWatchers] /\ chain'.head[<<"waiting", b>>].first = 0
<1>1. \E m : Moves(m, MaxWatchers, b)
  BY MovesExist, BusesAssumption
<1> DEFINE F == CHOOSE m : Moves(m, MaxWatchers, b)
<1>2. Moves(F, MaxWatchers, b)
  BY <1>1
<1>3. chain' = F[MaxWatchers] /\ chain'.head[<<"waiting", b>>].first = 0
  BY DEF AddAllWatchers, Moves
<1> QED BY <1>2, <1>3

\* What AddAllWatchers keeps of the chain c it began with, in d: the lists of
\* bus b meet nobody that one of them did not meet, and the other buses' lists
\* are as before.
Rearranged(c, d, n, own, b) ==
  /\ ChainOK(d, n, own)
  /\ \A k \in Lists : Follows(d, k, IF k[2] = b THEN Listed(c, <<"listed", b>>) \union Listed(c, <<"waiting", b>>)
                                                ELSE Listed(c, k))
  /\ \A k \in Lists : k[2] # b => d.head[k] = c.head[k]

\* Before its first step.
LEMMA RearrangedItself ==
  ASSUME NEW n \in 0..MaxWatchers, NEW own, NEW c, ChainOK(c, n, own), NEW b \in Watchable
  PROVE  Rearranged(c, c, n, own, b)
<1>1. c \in Chain(n)
  BY DEF ChainOK
<1>2. ASSUME NEW k \in Lists, k[2] = b
      PROVE  Follows(c, k, Listed(c, <<"listed", b>>) \union Listed(c, <<"waiting", b>>))
  <2>1. k = <<"listed", b>> \/ k = <<"waiting", b>>
    BY <1>2 DEF Lists
  <2>2. <<"listed", b>> \in Lists /\ <<"waiting", b>> \in Lists
    BY DEF Lists
  <2> QED BY <1>1, <2>1, <2>2, ListedFollows DEF Follows
<1> QED BY <1>1, <1>2, ListedFollows DEF Rearranged

\* Each of its steps: the watcher is added to the connection's list, and then
\* deleted from the other one - with the links that the first call has left it.
LEMMA MovedOneKeeps ==
  ASSUME NEW n \in 0..MaxWatchers, NEW own, NEW c, ChainOK(c, n, own), NEW b \in Watchable,
         NEW d, Rearranged(c, d, n, own, b)
  PROVE  Rearranged(c, MovedOne(d, b), n, own, b)
<1> DEFINE lb == <<"listed", b>>
           wb == <<"waiting", b>>
           w == d.head[wb].first
           U == Listed(c, lb) \union Listed(c, wb)
           e == ListAdd(d, lb, w)
           f == ListDel(e, wb, w)
<1>1. lb \in Lists /\ wb \in Lists /\ lb[2] = b /\ wb[2] = b
  BY DEF Lists
<1>2. c \in Chain(n) /\ d \in Chain(n)
  BY DEF ChainOK, Rearranged
<1>3. U \in SUBSET Ids
  BY <1>1, <1>2, ListedFollows
<1>4. Follows(d, lb, U) /\ Follows(d, wb, U)
  BY <1>1 DEF Rearranged
<1>5. SUFFICES ASSUME w # 0 PROVE Rearranged(c, f, n, own, b)
  <2>1. w # 0 => MovedOne(d, b) = f
    BY DEF MovedOne
  <2>2. w = 0 => MovedOne(d, b) = d
    BY DEF MovedOne
  <2> HIDE DEF w, f
  <2> QED BY <2>1, <2>2
<1>6. w \in U /\ w \in Ids /\ w <= n /\ own[w] = b
  <2>1. w \in U
    BY <1>4, <1>5 DEF Follows
  <2> QED BY <1>1, <1>3, <2>1, ListedOwn
<1>7. d.next[w] # 0 => d.next[w] \in U
  BY <1>4, <1>6 DEF Follows
<1>8. ChainOK(e, n, own) /\ e \in Chain(n)
  <2> HIDE DEF w
  <2>1. ChainOK(d, n, own)
    BY DEF Rearranged
  <2>2. ChainOK(e, n, own)
    BY <1>1, <1>6, <2>1, AddOK
  <2> HIDE DEF e
  <2> QED BY <2>2 DEF ChainOK
<1>9. ChainOK(f, n, own)
  <2> HIDE DEF w, e
  <2> QED BY <1>1, <1>6, <1>8, DelOK
<1>10. ASSUME NEW k \in Lists, k[2] = b PROVE Follows(f, k, U)
  <2> HIDE DEF w, U
  <2>1. Follows(d, k, U)
    BY <1>10 DEF Rearranged, U
  <2>2. U \union {w} = U
    BY <1>6
  <2>3. Follows(e, k, U)
    BY <1>1, <1>2, <1>3, <1>6, <1>7, <2>1, <2>2, AddFollows
  <2> HIDE DEF e
  <2> QED BY <1>1, <1>3, <1>6, <1>8, <2>3, DelFollows
<1>11. ASSUME NEW k \in Lists, k[2] # b PROVE Follows(f, k, Listed(c, k)) /\ f.head[k] = d.head[k]
  <2> DEFINE L == Listed(c, k)
  <2>1. L \in SUBSET Ids /\ \A x \in L : own[x] = k[2]
    BY <1>2, ListedFollows, ListedOwn
  <2>2. Follows(d, k, L)
    BY <1>11 DEF Rearranged
  <2>3. k # lb /\ k # wb
    BY <1>1, <1>11
  <2>4. f.head[k] = d.head[k]
    BY <1>1, <1>2, <2>3 DEF ListAdd, ListDel, Chain
  <2>5. d.head[lb].last \notin L /\ w \notin L
    <3>1. d.head[lb].last # 0 => own[d.head[lb].last] = b
      BY <1>1 DEF Rearranged, ChainOK
    <3>2. 0 \notin L
      BY <2>1, BusesAssumption DEF Ids
    <3> HIDE DEF L, w
    <3> QED BY <1>6, <1>11, <2>1, <3>1, <3>2
  <2>6. Follows(e, k, L)
    <3>1. e.head[k] = d.head[k]
      BY <1>1, <1>2, <2>3 DEF ListAdd, Chain
    <3>2. \A x \in L : e.next[x] = d.next[x]
      BY <2>1, <2>5 DEF ListAdd
    <3> HIDE DEF e, L
    <3> QED BY <2>2, <3>1, <3>2 DEF Follows
  <2>7. e.prev[w] \notin L
    <3>1. e.prev[w] # 0 => own[e.prev[w]] = own[w]
      BY <1>6, <1>8 DEF ChainOK
    <3>2. 0 \notin L
      BY <2>1, BusesAssumption DEF Ids
    <3> HIDE DEF L, w, e
    <3> QED BY <1>6, <1>11, <2>1, <3>1, <3>2
  <2>8. Follows(f, k, L)
    <3> HIDE DEF e, w, L
    <3> QED BY <1>1, <1>6, <1>8, <2>1, <2>3, <2>6, <2>7, DelFollows
  <2> QED BY <2>4, <2>8
<1>12. \A k \in Lists : k[2] # b => d.head[k] = c.head[k]
  BY DEF Rearranged
<1> HIDE DEF f, U
<1> QED BY <1>9, <1>10, <1>11, <1>12 DEF Rearranged, U

\* And so all of them, however many watchers wait.
LEMMA AllRearranged ==
  ASSUME NEW n \in 0..MaxWatchers, NEW own, ChainOK(chain, n, own), NEW b \in Watchable, AddAllWatchers(b)
  PROVE  Rearranged(chain, chain', n, own, b) /\ chain'.head[<<"waiting", b>>].first = 0
<1>1. PICK m : Moves(m, MaxWatchers, b) /\ chain' = m[MaxWatchers] /\ chain'.head[<<"waiting", b>>].first = 0
  BY AllMoved
<1> DEFINE S == {i \in Nat : i <= MaxWatchers => Rearranged(chain, m[i], n, own, b)}
<1>2. 0 \in S
  BY <1>1, RearrangedItself, BusesAssumption DEF Moves
<1>3. ASSUME NEW i \in S PROVE i + 1 \in S
  <2>1. i \in Nat /\ (i <= MaxWatchers => Rearranged(chain, m[i], n, own, b))
    OBVIOUS
  <2>2. SUFFICES ASSUME i + 1 <= MaxWatchers PROVE Rearranged(chain, m[i + 1], n, own, b)
    BY <2>1
  <2>3. i <= MaxWatchers /\ i + 1 \in 0..MaxWatchers /\ (i + 1) - 1 = i /\ i + 1 # 0
    BY <2>1, <2>2, BusesAssumption
  <2>4. m[i + 1] = MovedOne(m[i], b)
    BY <1>1, <2>3 DEF Moves
  <2> QED BY <2>1, <2>3, <2>4, MovedOneKeeps
<1> HIDE DEF S
<1>4. S \in SUBSET Nat
  BY DEF S
<1>5. S = Nat
  BY <1>2, <1>3, <1>4, Induction
<1>6. Rearranged(chain, m[MaxWatchers], n, own, b)
  BY <1>5, BusesAssumption DEF S
<1> QED BY <1>1, <1>6

-----------------------------------------------------------------------------
(***************************************************************************)
(* The invariant.                                                          *)
(***************************************************************************)

\* The watchers that may be linked: not the one that WatchBusname is just
\* adding.
Known == IF command = <<>> THEN ids ELSE ids - 1

\* A cDBusWatcher.
Watcher == [bus : Watchable \union {"none"}, watch_id : {0, 1}, live : {0, 1},
            told : {"nothing", "appeared", "vanished"}]

\* The type of the watchers' variables; the one that is just being added is
\* fresh.
WatcherType ==
  /\ watcher \in [Ids -> Watcher]
  /\ ids \in 0..MaxWatchers /\ unsure \subseteq Ids
  /\ command = <<>> \/ command \in Watchable \X {"add", "watch"}
  /\ \A w \in Ids : w > ids => watcher[w] = NoWatcher
  /\ command # <<>> => ids > 0 /\ watcher[ids] = [NoWatcher EXCEPT !.bus = command[1]]

\* A watcher that was not deleted belongs to the bus that it was asked for.
Owned(own) == \A w \in Ids : watcher[w].bus # "none" => own[w] = watcher[w].bus

\* Nobody believes in a name that is not watched: half of WatchersServed.
Believed == \A w \in Ids : watcher[w].told = "appeared" => watcher[w].live = 1

\* The watchers of a connection's list watch while it is up, and have no watch
\* id when it comes up: only then does cDBusWatcher::Watch watch again.
ListedServed(b) == \A w \in Listed(chain, <<"listed", b>>) \ unsure : watcher[w].bus = b =>
  /\ bus[b] = "up" => watcher[w].watch_id = 1 /\ watcher[w].live = 1
  /\ bus[b] \notin {"up"} \union Ending => watcher[w].watch_id = 0

\* Those that wait for a bus have never watched; nobody waits for a bus that is
\* there.
WaitingUnwatched(b) ==
  /\ bus[b] # "none" => chain.head[<<"waiting", b>>].first = 0
  /\ \A w \in Listed(chain, <<"waiting", b>>) : watcher[w].bus = b => watcher[w].watch_id = 0

\* The inductive invariant, for an assignment of buses to watchers. That links
\* stay within a bus is what makes it inductive: Del and Add write links without
\* asking whose they are.
WatchInv(own) ==
  /\ WatcherType /\ ChainOK(chain, Known, own) /\ Owned(own) /\ Believed
  /\ \A b \in Watchable : ListedServed(b) /\ WaitingUnwatched(b)

\* There are no watchers at the start.
LEMMA WatchInit == Init => \E own \in [Ids -> Watchable] : WatchInv(own)
<1> SUFFICES ASSUME Init PROVE \E own \in [Ids -> Watchable] : WatchInv(own)
  OBVIOUS
<1> DEFINE own == [w \in Ids |-> "system"]
<1> USE BusesAssumption DEF Ids
<1>1. WatcherType /\ Owned(own) /\ Believed /\ Known = 0
  BY DEF Init, BusesInit, WatcherType, Watcher, NoWatcher, Owned, Believed, Known
<1>2. ChainOK(chain, 0, own)
  BY DEF Init, BusesInit, ChainOK, Chain, Lists
<1>3. ASSUME NEW k \in Lists PROVE Listed(chain, k) = {} /\ chain.head[k].first = 0
  <2>1. chain.head[k].first = 0
    BY DEF Init, BusesInit, Lists
  <2>2. Follows(chain, k, {})
    BY <2>1 DEF Follows
  <2> QED BY <2>1, <2>2, ListedLeast
<1>4. \A b \in Watchable : ListedServed(b) /\ WaitingUnwatched(b)
  BY <1>3 DEF ListedServed, WaitingUnwatched, Lists
<1>5. own \in [Ids -> Watchable]
  BY DEF Watchable
<1> HIDE DEF own
<1> QED BY <1>1, <1>2, <1>4, <1>5 DEF WatchInv

\* How many watchers may be linked.
LEMMA KnownRange ==
  ASSUME WatcherType
  PROVE  Known \in 0..MaxWatchers /\ Known <= ids
  BY BusesAssumption DEF WatcherType, Known

\* A step that touches no watcher, by which no connection comes up.
LEMMA WatchKept ==
  ASSUME NEW own \in [Ids -> Watchable], WatchInv(own), UNCHANGED <<watcher, ids, chain, unsure, command>>,
         \A b \in Watchable : \/ bus'[b] = bus[b]
                              \/ bus[b] # "none" /\ bus'[b] \in Ending
                              \/ bus[b] \notin {"none", "up"} \union Ending /\ bus'[b] \notin {"none", "up"}
  PROVE  WatchInv(own)'
<1>1. UNCHANGED <<WatcherType, Known, Owned(own), Believed>>
  BY DEF WatcherType, Known, Owned, Believed
<1>2. \A b \in Watchable : ListedServed(b)' /\ WaitingUnwatched(b)'
  BY DEF WatchInv, ListedServed, WaitingUnwatched, Ending
<1>3. ChainOK(chain, Known, own)'
  BY <1>1 DEF WatchInv
<1> QED BY <1>1, <1>2, <1>3 DEF WatchInv

\* The lists of a bus as a step finds them.
LEMMA ListedFacts ==
  ASSUME NEW own \in [Ids -> Watchable], WatchInv(own), NEW b \in Watchable, NEW kind \in {"waiting", "listed"}
  PROVE  /\ <<kind, b>> \in Lists
         /\ Listed(chain, <<kind, b>>) \subseteq Ids
         /\ \A w \in Listed(chain, <<kind, b>>) : w <= Known /\ own[w] = b
         /\ chain.head[<<kind, b>>].first = 0 => Listed(chain, <<kind, b>>) = {}
         /\ bus[b] # "none" => Listed(chain, <<"waiting", b>>) = {}
<1>1. <<kind, b>> \in Lists /\ <<"waiting", b>> \in Lists
  BY DEF Lists
<1>2. ChainOK(chain, Known, own) /\ Known \in 0..MaxWatchers /\ chain \in Chain(Known)
  BY KnownRange DEF WatchInv, ChainOK
<1>3. ASSUME NEW k \in Lists, chain.head[k].first = 0 PROVE Listed(chain, k) = {}
  <2>1. Follows(chain, k, {})
    BY <1>3 DEF Follows
  <2> QED BY <2>1, ListedLeast
<1>4. bus[b] # "none" => chain.head[<<"waiting", b>>].first = 0
  BY DEF WatchInv, WaitingUnwatched
<1>5. Listed(chain, <<kind, b>>) \subseteq Ids
  BY <1>1, <1>2, ListedFollows
<1>6. \A w \in Listed(chain, <<kind, b>>) : w <= Known /\ own[w] = b
  BY <1>1, <1>2, ListedOwn
<1> QED BY <1>1, <1>3, <1>4, <1>5, <1>6

\* Whoever is in a list.
LEMMA ListedOwned ==
  ASSUME NEW own \in [Ids -> Watchable], WatchInv(own), NEW k \in Lists, NEW w \in Listed(chain, k)
  PROVE  w \in Ids /\ w <= Known /\ own[w] = k[2]
  BY KnownRange, ListedFollows, ListedOwn DEF WatchInv, ChainOK

-----------------------------------------------------------------------------
(***************************************************************************)
(* The steps of a connection.                                              *)
(***************************************************************************)

\* A step that changes watchers of the bus b only, and not the chain,
OthersKept(b, own) ==
  /\ \A c \in Watchable \ {b} : bus'[c] = bus[c]
  /\ \A w \in Ids : watcher'[w] = watcher[w] \/ (own[w] = b /\ watcher'[w].bus = watcher[w].bus)
  /\ \A w \in Ids : w > Known => watcher'[w] = watcher[w]

\* keeps the invariant, if it does so for the list of that bus.
LEMMA WatchersOfBus ==
  ASSUME NEW own \in [Ids -> Watchable], WatchInv(own), NEW b \in Watchable,
         UNCHANGED <<ids, chain, command>>, OthersKept(b, own), bus[b] # "none", bus'[b] # "none",
         watcher' \in [Ids -> Watcher], unsure' \subseteq unsure,
         unsure \ unsure' \subseteq Listed(chain, <<"listed", b>>),
         Believed', ListedServed(b)'
  PROVE  WatchInv(own)'
<1>1. WatcherType' /\ Known' = Known
  BY BusesAssumption DEF WatchInv, WatcherType, Known, Ids, OthersKept
<1>2. ChainOK(chain, Known, own)'
  BY <1>1 DEF WatchInv
<1>3. Owned(own)'
  BY DEF WatchInv, Owned, OthersKept
<1>4. WaitingUnwatched(b)'
  <2>1. chain.head[<<"waiting", b>>].first = 0
    BY DEF WatchInv, WaitingUnwatched
  <2>2. Listed(chain, <<"waiting", b>>) = {}
    BY ListedFacts
  <2> QED BY <2>1, <2>2 DEF WaitingUnwatched
<1>5. ASSUME NEW c \in Watchable \ {b} PROVE ListedServed(c)' /\ WaitingUnwatched(c)'
  <2>1. ListedServed(c) /\ WaitingUnwatched(c)
    BY DEF WatchInv
  <2>2. ASSUME NEW w \in Listed(chain, <<"listed", b>>) PROVE own[w] = b
    BY ListedOwned DEF Lists
  <2>3. ASSUME NEW kind \in {"waiting", "listed"}, NEW w \in Listed(chain, <<kind, c>>)
        PROVE  w \in Ids /\ own[w] = c
    BY ListedOwned DEF Lists
  <2>4. \A w \in Ids : own[w] = c => watcher'[w] = watcher[w] /\ w \notin Listed(chain, <<"listed", b>>)
    BY <2>2 DEF OthersKept
  <2>5. ListedServed(c)'
    BY <2>1, <2>3, <2>4 DEF ListedServed, OthersKept
  <2>6. WaitingUnwatched(c)'
    BY <2>1, <2>3, <2>4 DEF WaitingUnwatched, OthersKept
  <2> QED BY <2>5, <2>6
<1> QED BY <1>1, <1>2, <1>3, <1>4, <1>5 DEF WatchInv

\* A step by which a watcher is not told that its name appeared, or is watched.
LEMMA BelievedWith ==
  ASSUME Believed, \A w \in Ids : \/ watcher'[w] = watcher[w]
                                  \/ watcher'[w].live = 1
                                  \/ watcher'[w].told # "appeared"
  PROVE  Believed'
  BY DEF Believed

\* What cDBusWatcher's Watch and Unwatch, and the closing of its connection, do.
LEMMA WatcherOps ==
  ASSUME watcher \in [Ids -> Watcher], NEW w \in Ids
  PROVE  /\ watcher[w] \in Watcher
         /\ Watched(w) \in Watcher /\ Watched(w).bus = watcher[w].bus
         /\ watcher[w].watch_id = 0 => Watched(w).watch_id = 1 /\ Watched(w).live = 1
         /\ watcher[w].watch_id # 0 => Watched(w) = watcher[w]
         /\ Unwatched(w) \in Watcher /\ Unwatched(w).bus = watcher[w].bus
         /\ Unwatched(w).watch_id = 0 /\ Unwatched(w).told = "vanished"
         /\ Closed(w) \in Watcher /\ Closed(w).bus = watcher[w].bus
         /\ Closed(w).watch_id = watcher[w].watch_id
         /\ Closed(w) = watcher[w] \/ Closed(w).told = "vanished"
         /\ watcher[w].live = 0 => Closed(w) = watcher[w]
<1>1. watcher[w] \in Watcher
  OBVIOUS
<1> DEFINE r == watcher[w]
<1> HIDE DEF r
<1>2. r \in Watcher
  BY <1>1 DEF r
<1>3. /\ Watched(w) = IF r.watch_id = 0 THEN [r EXCEPT !.watch_id = 1, !.live = 1] ELSE r
      /\ Unwatched(w) = [r EXCEPT !.watch_id = 0, !.live = 0, !.told = "vanished"]
      /\ Closed(w) = IF r.live = 1 THEN [r EXCEPT !.live = 0, !.told = "vanished"] ELSE r
  BY DEF Watched, Unwatched, Closed, r
<1>4. /\ Watched(w) \in Watcher /\ Watched(w).bus = r.bus
      /\ r.watch_id = 0 => Watched(w).watch_id = 1 /\ Watched(w).live = 1
      /\ r.watch_id # 0 => Watched(w) = r
  BY <1>2, <1>3 DEF Watcher
<1>5. /\ Unwatched(w) \in Watcher /\ Unwatched(w).bus = r.bus
      /\ Unwatched(w).watch_id = 0 /\ Unwatched(w).told = "vanished"
  BY <1>2, <1>3 DEF Watcher
<1>6. /\ Closed(w) \in Watcher /\ Closed(w).bus = r.bus
      /\ Closed(w).watch_id = r.watch_id
      /\ Closed(w) = r \/ Closed(w).told = "vanished"
      /\ r.live = 0 => Closed(w) = r
  <2>1. CASE r.live = 1
    <3> DEFINE q == [r EXCEPT !.live = 0, !.told = "vanished"]
    <3>1. Closed(w) = q
      BY <1>3, <2>1
    <3>2. q \in Watcher /\ q.bus = r.bus /\ q.watch_id = r.watch_id /\ q.told = "vanished"
      BY <1>2 DEF Watcher
    <3> HIDE DEF q
    <3> QED BY <2>1, <3>1, <3>2
  <2>2. CASE r.live # 1
    BY <1>2, <1>3, <2>2
  <2> QED BY <2>1, <2>2
<1> QED BY <1>2, <1>4, <1>5, <1>6 DEF r

\* The connection comes up and its watchers are registered, in time or while the
\* destructor waits (on_bus_get).
LEMMA WatchersUp ==
  ASSUME NEW own \in [Ids -> Watchable], WatchInv(own), NEW b \in Watchable,
         \/ bus[b] \in {"new", "failed", "lost"} /\ bus'[b] = "up"
         \/ bus[b] = "doomed" /\ bus'[b] = "closing",
         \A c \in Watchable \ {b} : bus'[c] = bus[c],
         RegisterWatchers(b), UNCHANGED <<ids, chain, command>>
  PROVE  WatchInv(own)'
<1> DEFINE L == Listed(chain, <<"listed", b>>)
<1>1. bus[b] # "none" /\ bus'[b] # "none" /\ \A c \in Watchable \ {b} : bus'[c] = bus[c]
  OBVIOUS
<1>2. watcher' = [w \in Ids |-> IF w \in L THEN Watched(w) ELSE watcher[w]]
      /\ unsure' = {w \in unsure : w \notin L \/ watcher[w].watch_id # 0}
  BY DEF RegisterWatchers
<1>3. watcher \in [Ids -> Watcher] /\ unsure \subseteq Ids /\ ListedServed(b) /\ Believed
  BY DEF WatchInv, WatcherType
<1>4. L \subseteq Ids
  BY ListedFacts
<1>5. ASSUME NEW w \in L PROVE w <= Known /\ own[w] = b
  BY ListedOwned DEF Lists
<1> HIDE DEF L
<1>6. OthersKept(b, own)
  <2>1. \A w \in Ids : w > Known => w \notin L
    BY <1>3, <1>5, KnownRange DEF WatchInv, Ids
  <2>2. \A w \in Ids : w \notin L => watcher'[w] = watcher[w]
    BY <1>2
  <2>3. \A w \in Ids : w \in L => own[w] = b /\ watcher'[w].bus = watcher[w].bus
    BY <1>2, <1>3, <1>5, WatcherOps
  <2> QED BY <1>1, <2>1, <2>2, <2>3 DEF OthersKept
<1>7. watcher' \in [Ids -> Watcher]
  BY <1>2, <1>3, WatcherOps
<1>8. Believed'
  BY <1>2, <1>3, BelievedWith, WatcherOps
<1>9. ListedServed(b)'
  <2> SUFFICES ASSUME NEW w \in L, w \notin unsure', watcher'[w].bus = b, bus'[b] = "up"
               PROVE  watcher'[w].watch_id = 1 /\ watcher'[w].live = 1
    BY DEF ListedServed, L, Ending
  <2>1. w \in Ids /\ watcher'[w] = Watched(w) /\ watcher[w].bus = b
    BY <1>2, <1>3, <1>4, WatcherOps
  <2>2. watcher[w].watch_id = 0
    BY <1>2, <1>3, <2>1 DEF ListedServed, L, Ending
  <2> QED BY <1>3, <2>1, <2>2, WatcherOps
<1> QED BY <1>1, <1>2, <1>3, <1>6, <1>7, <1>8, <1>9, WatchersOfBus DEF L

\* The destructor need not wait for ever after all.
LEMMA WatchersSaved ==
  ASSUME NEW own \in [Ids -> Watchable], WatchInv(own), ConnType, NEW b \in Watchable, BusSaved(b), command' = command
  PROVE  WatchInv(own)'
<1>1. /\ bus'[b] = "closing" /\ \A c \in Watchable \ {b} : bus'[c] = bus[c]
      /\ UNCHANGED <<ids, chain>>
  BY DEF BusSaved, ConnType, Buses, Watchable
<1>2. CASE bus[b] = "sinking" /\ UNCHANGED <<watcher, unsure>>
  BY <1>1, <1>2, WatchKept DEF Ending
<1>3. CASE bus[b] = "doomed" /\ RegisterWatchers(b)
  BY <1>1, <1>3, WatchersUp
<1> QED BY <1>2, <1>3 DEF BusSaved

\* The name is lost and they are unregistered (on_name_lost).
LEMMA WatchersLost ==
  ASSUME NEW own \in [Ids -> Watchable], WatchInv(own), ConnType, NEW b \in Watchable, BusLost(b), command' = command
  PROVE  WatchInv(own)'
<1> DEFINE L == Listed(chain, <<"listed", b>>)
<1>1. /\ bus[b] # "none" /\ bus'[b] \in {"losing", "sinking"} /\ \A c \in Watchable \ {b} : bus'[c] = bus[c]
      /\ UNCHANGED <<ids, chain, unsure>>
  BY DEF BusLost, ConnType, Buses, Watchable
<1>2. watcher' = [w \in Ids |-> IF w \in L THEN Unwatched(w) ELSE watcher[w]]
  BY DEF BusLost, UnregisterWatchers
<1>3. watcher \in [Ids -> Watcher] /\ Believed
  BY DEF WatchInv, WatcherType
<1>4. L \subseteq Ids
  BY ListedFacts
<1>5. ASSUME NEW w \in L PROVE w <= Known /\ own[w] = b
  BY ListedOwned DEF Lists
<1> HIDE DEF L
<1>6. OthersKept(b, own)
  <2>1. \A w \in Ids : w > Known => w \notin L
    BY <1>3, <1>5, KnownRange DEF WatchInv, Ids
  <2>2. \A w \in Ids : w \notin L => watcher'[w] = watcher[w]
    BY <1>2
  <2>3. \A w \in Ids : w \in L => own[w] = b /\ watcher'[w].bus = watcher[w].bus
    BY <1>2, <1>3, <1>5, WatcherOps
  <2> QED BY <1>1, <2>1, <2>2, <2>3 DEF OthersKept
<1>7. watcher' \in [Ids -> Watcher]
  BY <1>2, <1>3, WatcherOps
<1>8. Believed'
  BY <1>2, <1>3, BelievedWith, WatcherOps
<1>9. ListedServed(b)'
  BY <1>1, <1>2, <1>3, <1>4, WatcherOps DEF ListedServed, L, Ending
<1> QED BY <1>1, <1>6, <1>7, <1>8, <1>9, WatchersOfBus

\* The connection is closed, and GLib tells those who still watch on it.
LEMMA WatchersClosed ==
  ASSUME NEW own \in [Ids -> Watchable], WatchInv(own), ConnType, NEW b \in Watchable, BusClosed(b), command' = command
  PROVE  WatchInv(own)'
<1>1. /\ \/ bus[b] = "losing" /\ bus'[b] \in {"lost", "failed"}
         \/ bus[b] = "sinking" /\ bus'[b] = "doomed"
      /\ \A c \in Watchable \ {b} : bus'[c] = bus[c]
      /\ UNCHANGED <<ids, chain, unsure>>
  BY DEF BusClosed, ConnType, Buses, Watchable
<1>2. watcher' = [w \in Ids |-> IF watcher[w].bus = b THEN Closed(w) ELSE watcher[w]]
  BY DEF BusClosed
<1>3. watcher \in [Ids -> Watcher] /\ Believed /\ Owned(own) /\ ListedServed(b) /\ WatcherType
  BY DEF WatchInv, WatcherType
<1>4. Listed(chain, <<"listed", b>>) \subseteq Ids
  BY ListedFacts
<1>5. \A w \in Ids : w > Known => watcher'[w] = watcher[w]
  <2> SUFFICES ASSUME NEW w \in Ids, w > Known PROVE watcher[w].live = 0
    BY <1>2, <1>3, WatcherOps DEF Watcher
  <2>1. w > ids \/ (w = ids /\ command # <<>>)
    BY <1>3, BusesAssumption DEF Known, WatcherType, Ids
  <2> QED BY <1>3, <2>1 DEF WatcherType, NoWatcher
<1>6. OthersKept(b, own)
  BY <1>1, <1>2, <1>3, <1>5, WatcherOps DEF OthersKept, Owned, Watchable
<1>7. watcher' \in [Ids -> Watcher]
  BY <1>2, <1>3, WatcherOps
<1>8. Believed'
  BY <1>2, <1>3, BelievedWith, WatcherOps
<1>9. ListedServed(b)'
  BY <1>1, <1>2, <1>3, <1>4, WatcherOps DEF ListedServed, Ending
<1> QED BY <1>1, <1>6, <1>7, <1>8, <1>9, WatchersOfBus

\* GLib tells a watcher who owns its name.
LEMMA WatchersTold ==
  ASSUME NEW own \in [Ids -> Watchable], WatchInv(own), NEW w \in Ids, NEW what \in {"appeared", "vanished"},
         Notify(w, what), command' = command
  PROVE  WatchInv(own)'
<1>1. UNCHANGED <<bus, ids, chain, unsure>> /\ watcher[w].live = 1 /\ watcher' = [watcher EXCEPT ![w].told = what]
  BY DEF Notify, connections
<1>2. WatcherType
  BY DEF WatchInv
<1>3. \A x \in Ids : /\ watcher'[x].bus = watcher[x].bus /\ watcher'[x].watch_id = watcher[x].watch_id
                     /\ watcher'[x].live = watcher[x].live
  BY <1>1, <1>2 DEF WatcherType, Watcher
<1>4. WatcherType' /\ Known' = Known
  <2>1. watcher' \in [Ids -> Watcher]
    BY <1>1, <1>2 DEF WatcherType, Watcher
  <2>2. w <= ids /\ (command # <<>> => w # ids)
    BY <1>1, <1>2 DEF WatcherType, NoWatcher, Ids
  <2>3. \A x \in Ids : x > ids \/ (command # <<>> /\ x = ids) => watcher'[x] = watcher[x]
    BY <1>1, <1>2, <2>2 DEF WatcherType
  <2>4. command # <<>> => ids \in Ids
    BY <1>2, BusesAssumption DEF WatcherType, Ids
  <2> QED BY <1>1, <1>2, <2>1, <2>3, <2>4 DEF WatcherType, Known
<1>5. ChainOK(chain, Known, own)' /\ Owned(own)'
  BY <1>1, <1>3, <1>4 DEF WatchInv, Owned
<1>6. Believed'
  BY <1>1, <1>2 DEF WatchInv, Believed, WatcherType, Watcher
<1>7. ASSUME NEW b \in Watchable PROVE ListedServed(b)' /\ WaitingUnwatched(b)'
  <2>1. Listed(chain, <<"listed", b>>) \subseteq Ids /\ Listed(chain, <<"waiting", b>>) \subseteq Ids
    BY ListedFacts
  <2>2. ListedServed(b) /\ WaitingUnwatched(b)
    BY DEF WatchInv
  <2> QED BY <1>1, <1>3, <2>1, <2>2 DEF ListedServed, WaitingUnwatched
<1> QED BY <1>4, <1>5, <1>6, <1>7 DEF WatchInv

\* A connection is deleted, and with it its list;
GoneWith(b, own) ==
  /\ chain' = Reset(chain, <<"listed", b>>)
  /\ \A c \in Watchable \ {b} : bus'[c] = bus[c]
  /\ \A w \in Ids : watcher'[w] = watcher[w] \/ (own[w] = b /\ watcher'[w].bus \in {watcher[w].bus, "none"})
  /\ \A w \in Ids : w > Known => watcher'[w] = watcher[w]

\* this keeps the invariant.
LEMMA WatchersGone ==
  ASSUME NEW own \in [Ids -> Watchable], WatchInv(own), NEW b \in Watchable,
         UNCHANGED <<ids, unsure, command>>, bus[b] # "none", bus'[b] = "none",
         GoneWith(b, own),
         watcher' \in [Ids -> Watcher], Believed'
  PROVE  WatchInv(own)'
<1>1. WatcherType' /\ Known' = Known
  BY BusesAssumption DEF WatchInv, WatcherType, Known, Ids, GoneWith
<1>2. /\ Known \in 0..MaxWatchers /\ ChainOK(chain, Known, own)
      /\ \A kind \in {"waiting", "listed"}, c \in Watchable : <<kind, c>> \in Lists
  BY KnownRange DEF WatchInv, Lists
<1>3. /\ ChainOK(chain', Known, own) /\ Listed(chain', <<"listed", b>>) = {}
      /\ \A j \in Lists : j # <<"listed", b>> => Listed(chain', j) = Listed(chain, j) /\ chain'.head[j] = chain.head[j]
  BY <1>2, ResetOK DEF GoneWith
<1>4. Owned(own)'
  BY DEF WatchInv, Owned, GoneWith
<1>5. ListedServed(b)'
  BY <1>3 DEF ListedServed
<1>6. WaitingUnwatched(b)'
  <2>1. Listed(chain, <<"waiting", b>>) = {}
    BY ListedFacts
  <2>2. Listed(chain', <<"waiting", b>>) = {}
    BY <1>2, <1>3, <2>1
  <2> QED BY <2>2 DEF WaitingUnwatched
<1>7. ASSUME NEW c \in Watchable \ {b} PROVE ListedServed(c)' /\ WaitingUnwatched(c)'
  <2>1. ListedServed(c) /\ WaitingUnwatched(c)
    BY DEF WatchInv
  <2>2. ASSUME NEW kind \in {"waiting", "listed"}, NEW w \in Listed(chain, <<kind, c>>)
        PROVE  w \in Ids /\ own[w] = c
    BY ListedOwned DEF Lists
  <2>3. \A w \in Ids : own[w] = c => watcher'[w] = watcher[w]
    BY DEF GoneWith
  <2>4. /\ Listed(chain', <<"listed", c>>) = Listed(chain, <<"listed", c>>)
        /\ Listed(chain', <<"waiting", c>>) = Listed(chain, <<"waiting", c>>)
        /\ chain'.head[<<"waiting", c>>] = chain.head[<<"waiting", c>>]
    <3>1. <<"listed", c>> # <<"listed", b>> /\ <<"waiting", c>> # <<"listed", b>>
      OBVIOUS
    <3> QED BY <1>2, <1>3, <3>1
  <2>5. ListedServed(c)'
    BY <2>1, <2>2, <2>3, <2>4 DEF ListedServed, GoneWith
  <2>6. WaitingUnwatched(c)'
    BY <2>1, <2>2, <2>3, <2>4 DEF WaitingUnwatched, GoneWith
  <2> QED BY <2>5, <2>6
<1> QED BY <1>1, <1>3, <1>4, <1>5, <1>6, <1>7 DEF WatchInv

\* A watcher that is gone.
LEMMA NoWatcherFacts ==
  NoWatcher \in Watcher /\ NoWatcher.bus = "none" /\ NoWatcher.told # "appeared" /\ NoWatcher.watch_id = 0 /\ NoWatcher.live = 0
  BY DEF NoWatcher, Watcher

\* The destructor of a connection, or the first part of it if it waits.
LEMMA WatchersDropped ==
  ASSUME NEW own \in [Ids -> Watchable], WatchInv(own), ConnType, NEW b \in Buses, DeleteBus(b), command' = command
  PROVE  WatchInv(own)'
<1>1. UNCHANGED <<ids, unsure>> /\ \A c \in Watchable \ {b} : bus'[c] = bus[c]
  BY DEF DeleteBus, ConnType, Buses, Watchable
<1>2. CASE bus'[b] # "none" \/ b \notin Watchable
  <2>1. /\ watcher' = [w \in Ids |-> watcher[w]] /\ chain' = chain
        /\ b \in Watchable => bus[b] # "none" /\ bus'[b] \in Ending
    BY <1>2 DEF DeleteBus, ConnType, Waiting, Ending
  <2>2. watcher' = watcher
    BY <2>1 DEF WatchInv, WatcherType
  <2> QED BY <1>1, <1>2, <2>1, <2>2, WatchKept
<1>3. CASE bus'[b] = "none" /\ b \in Watchable
  <2> DEFINE L == Listed(chain, <<"listed", b>>)
  <2>1. /\ watcher' = [w \in Ids |-> IF w \in L THEN NoWatcher ELSE watcher[w]]
        /\ chain' = Reset(chain, <<"listed", b>>)
        /\ bus[b] # "none" /\ bus'[b] = "none"
    BY <1>3 DEF DeleteBus, Reset, ConnType
  <2>2. watcher \in [Ids -> Watcher] /\ Believed
    BY DEF WatchInv, WatcherType
  <2>3. ASSUME NEW w \in L PROVE w <= Known /\ own[w] = b
    BY <1>3, ListedOwned DEF Lists
  <2> HIDE DEF L
  <2>4. GoneWith(b, own)
    <3>1. \A w \in Ids : w > Known => w \notin L
      BY <2>3, KnownRange DEF WatchInv, Ids
    <3> QED BY <1>1, <2>1, <2>3, <3>1, NoWatcherFacts DEF GoneWith
  <2>5. watcher' \in [Ids -> Watcher] /\ Believed'
    BY <2>1, <2>2, NoWatcherFacts, BelievedWith
  <2> QED BY <1>1, <1>3, <2>1, <2>4, <2>5, WatchersGone
<1> QED BY <1>2, <1>3

\* The rest of it, after the close was served.
LEMMA WatchersDeleted ==
  ASSUME NEW own \in [Ids -> Watchable], WatchInv(own), ConnType, NEW b \in Buses, BusDeleted(b), command' = command
  PROVE  WatchInv(own)'
<1> DEFINE L == Listed(chain, <<"listed", b>>)
<1>1. /\ UNCHANGED <<ids, unsure>> /\ bus[b] = "closing" /\ bus'[b] = "none"
      /\ \A c \in Watchable \ {b} : bus'[c] = bus[c]
  BY DEF BusDeleted, ConnType, Buses, Watchable
<1>2. watcher' = [w \in Ids |-> IF watcher[w].bus # b THEN watcher[w]
                                ELSE IF w \in L THEN NoWatcher ELSE Closed(w)]
  BY DEF BusDeleted
<1>3. watcher \in [Ids -> Watcher] /\ Believed /\ Owned(own) /\ WatcherType
  BY DEF WatchInv, WatcherType
<1>4. CASE b \notin Watchable
  <2>1. \A w \in Ids : watcher[w].bus # b
    BY <1>3, <1>4 DEF Watcher, Buses, Watchable
  <2>2. watcher' = watcher /\ chain' = chain
    BY <1>2, <1>3, <1>4, <2>1 DEF BusDeleted
  <2> QED BY <1>1, <1>4, <2>2, WatchKept
<1>5. CASE b \in Watchable
  <2>1. chain' = Reset(chain, <<"listed", b>>)
    BY <1>5 DEF BusDeleted, Reset
  <2>2. \A w \in Ids : w > Known => w \notin L /\ watcher[w].live = 0
    <3>1. ASSUME NEW w \in L PROVE w <= Known
      BY <1>5, ListedOwned DEF Lists
    <3>2. ASSUME NEW w \in Ids, w > Known PROVE watcher[w].live = 0
      <4>1. w > ids \/ (w = ids /\ command # <<>>)
        BY <1>3, <3>2, BusesAssumption DEF Known, WatcherType, Ids
      <4> QED BY <1>3, <4>1 DEF WatcherType, NoWatcher
    <3> QED BY <1>3, <3>1, <3>2, KnownRange DEF Ids
  <2> HIDE DEF L
  <2>3. GoneWith(b, own)
    <3>1. \A w \in Ids : w > Known => watcher'[w] = watcher[w]
      BY <1>2, <1>3, <2>2, WatcherOps
    <3>2. \A w \in Ids : watcher[w].bus = b => own[w] = b
      BY <1>3, <1>5 DEF Owned, Watchable
    <3>3. \A w \in Ids : watcher[w].bus = b => watcher'[w].bus \in {watcher[w].bus, "none"}
      BY <1>2, <1>3, WatcherOps, NoWatcherFacts
    <3>4. \A w \in Ids : watcher[w].bus # b => watcher'[w] = watcher[w]
      BY <1>2
    <3> QED BY <1>1, <2>1, <3>1, <3>2, <3>3, <3>4 DEF GoneWith
  <2>4. watcher' \in [Ids -> Watcher]
    BY <1>2, <1>3, NoWatcherFacts, WatcherOps
  <2>5. Believed'
    <3>1. \A w \in Ids : watcher'[w] = watcher[w] \/ watcher'[w].told # "appeared"
      BY <1>2, <1>3, NoWatcherFacts, WatcherOps
    <3> QED BY <1>3, <3>1, BelievedWith
  <2> QED BY <1>1, <1>5, <2>1, <2>3, <2>4, <2>5, WatchersGone
<1> QED BY <1>4, <1>5

\* A connection is made and takes over those that wait for it (AddAllWatchers).
LEMMA WatchersTaken ==
  ASSUME NEW own \in [Ids -> Watchable], WatchInv(own), ConnType, NEW b \in Watchable, bus[b] = "none",
         CreateBus(b), command' = command
  PROVE  WatchInv(own)'
<1>1. /\ UNCHANGED <<watcher, ids, unsure>> /\ bus'[b] = "new" /\ \A c \in Watchable \ {b} : bus'[c] = bus[c]
      /\ AddAllWatchers(b)
  BY DEF CreateBus, ConnType, Buses, Watchable
<1>2. /\ WatcherType' /\ Known' = Known /\ Known \in 0..MaxWatchers /\ Owned(own)' /\ Believed'
      /\ ChainOK(chain, Known, own)
  BY <1>1, KnownRange DEF WatchInv, WatcherType, Known, Owned, Believed
<1>3. Rearranged(chain, chain', Known, own, b) /\ chain'.head[<<"waiting", b>>].first = 0
  BY <1>1, <1>2, AllRearranged
<1>4. ChainOK(chain', Known, own)
  BY <1>3 DEF Rearranged
<1> DEFINE U == Listed(chain, <<"listed", b>>) \union Listed(chain, <<"waiting", b>>)
<1>5. U \subseteq Ids
  BY ListedFacts
<1>6. ListedServed(b) /\ WaitingUnwatched(b)
  BY DEF WatchInv
<1>7. \A w \in U : w \notin unsure /\ watcher[w].bus = b => watcher[w].watch_id = 0
  BY <1>6 DEF ListedServed, Ending, WaitingUnwatched
<1>8. Listed(chain', <<"listed", b>>) \subseteq U
  <2>1. <<"listed", b>> \in Lists
    BY DEF Lists
  <2>2. Follows(chain', <<"listed", b>>, U)
    BY <1>3, <2>1 DEF Rearranged
  <2> QED BY <1>5, <2>2, ListedLeast
<1> HIDE DEF U
<1>9. ListedServed(b)'
  BY <1>1, <1>7, <1>8 DEF ListedServed
<1>10. WaitingUnwatched(b)'
  <2>1. Follows(chain', <<"waiting", b>>, {})
    BY <1>3 DEF Follows
  <2> QED BY <1>3, <2>1, ListedLeast DEF WaitingUnwatched
<1>11. ASSUME NEW c \in Watchable \ {b} PROVE ListedServed(c)' /\ WaitingUnwatched(c)'
  <2>1. ListedServed(c) /\ WaitingUnwatched(c)
    BY DEF WatchInv
  <2>2. ASSUME NEW k \in Lists, k[2] # b
        PROVE  Listed(chain', k) \subseteq Listed(chain, k) /\ chain'.head[k] = chain.head[k]
    <3>1. Follows(chain', k, Listed(chain, k)) /\ chain'.head[k] = chain.head[k]
      BY <1>3, <2>2 DEF Rearranged
    <3>2. Listed(chain, k) \subseteq Ids
      BY ListedOwned
    <3> QED BY <3>1, <3>2, ListedLeast
  <2>3. /\ Listed(chain', <<"listed", c>>) \subseteq Listed(chain, <<"listed", c>>)
        /\ Listed(chain', <<"waiting", c>>) \subseteq Listed(chain, <<"waiting", c>>)
        /\ chain'.head[<<"waiting", c>>] = chain.head[<<"waiting", c>>]
    BY <2>2 DEF Lists
  <2> QED BY <1>1, <2>1, <2>3 DEF ListedServed, WaitingUnwatched
<1> QED BY <1>2, <1>4, <1>9, <1>10, <1>11 DEF WatchInv

-----------------------------------------------------------------------------
(***************************************************************************)
(* WatchBusname and UnwatchBusname.                                        *)
(***************************************************************************)

\* Watcher w is added to a list of bus b,
Added(b, kind, w) ==
  /\ bus' = bus /\ chain' = ListAdd(chain, <<kind, b>>, w)
  /\ \A x \in Ids \ {w} : watcher'[x] = watcher[x]
  /\ watcher'[w].bus = b /\ watcher'[w].told # "appeared"
  /\ kind = "waiting" => bus[b] = "none"
  /\ unsure \subseteq unsure' /\ unsure' \subseteq unsure \union {w}
  /\ w \notin unsure' => /\ bus[b] = "up" => watcher'[w].watch_id = 1 /\ watcher'[w].live = 1
                         /\ bus[b] \notin {"up"} \union Ending => watcher'[w].watch_id = 0
  /\ bus[b] = "none" => watcher'[w].watch_id = 0

\* which keeps the invariant if it is the next one.
LEMMA WatcherAdded ==
  ASSUME NEW own, own \in [Ids -> Watchable], WatchInv(own), NEW b \in Watchable, NEW kind \in {"waiting", "listed"},
         NEW w \in Ids, w = Known + 1, w >= ids, ids' = w, command' = <<>>, watcher' \in [Ids -> Watcher],
         Added(b, kind, w)
  PROVE  WatchInv([own EXCEPT ![w] = b])'
<1> DEFINE o == [own EXCEPT ![w] = b]
<1>1. o \in [Ids -> Watchable] /\ o[w] = b /\ \A x \in Ids \ {w} : o[x] = own[x]
  OBVIOUS
<1>2. WatcherType' /\ Known' = w
  BY BusesAssumption DEF WatchInv, WatcherType, Known, Ids, Added
<1>3. Owned(o)' /\ Believed'
  BY <1>1 DEF WatchInv, Owned, Believed, Added
<1>4. Known \in 0..MaxWatchers /\ ChainOK(chain, Known, own)
  BY KnownRange DEF WatchInv
<1>5. ChainOK(chain, w, o) /\ chain.next[w] = 0 /\ w \in 0..MaxWatchers
  <2>1. w \in 0..MaxWatchers
    BY BusesAssumption DEF Ids
  <2>2. w = Known + 1
    BY <1>4
  <2>3. ChainOK(chain, w, [own EXCEPT ![w] = b]) /\ chain.next[w] = 0
    <3> HIDE DEF o
    <3> QED BY <1>4, <2>2, Relabelled
  <2> QED BY <2>1, <2>3
<1> DEFINE k == <<kind, b>>
<1>6. k \in Lists /\ k[2] = b
  BY DEF Lists
<1>7. chain' = ListAdd(chain, k, w)
  BY DEF Added
<1> HIDE DEF o, k
<1>8. ASSUME NEW j \in Lists
      PROVE  /\ ChainOK(chain', w, o)
             /\ \A x \in Listed(chain', j) : (x = w \/ x \in Listed(chain, j)) /\ x \in Ids /\ o[x] = j[2]
             /\ j # k => chain'.head[j] = chain.head[j]
  <2>1. w <= w
    BY <1>5
  <2>2. /\ ChainOK(chain', w, o) /\ Listed(chain', j) \subseteq Listed(chain, j) \union {w}
        /\ j # k => chain'.head[j] = chain.head[j]
    BY <1>1, <1>5, <1>6, <1>7, <2>1, FreshAdded
  <2> QED BY <1>5, <2>2, ListedOwn
<1>9. ASSUME NEW c \in Watchable PROVE ListedServed(c)'
  <2> DEFINE j == <<"listed", c>>
  <2>1. j \in Lists /\ j[2] = c
    BY DEF Lists
  <2>2. SUFFICES ASSUME NEW x \in Listed(chain', j), x \notin unsure', watcher'[x].bus = c
                 PROVE  /\ bus'[c] = "up" => watcher'[x].watch_id = 1 /\ watcher'[x].live = 1
                        /\ bus'[c] \notin {"up"} \union Ending => watcher'[x].watch_id = 0
    BY DEF ListedServed
  <2>3. x \in Ids /\ (x = w \/ x \in Listed(chain, j))
    BY <1>8, <2>1
  <2>4. CASE x = w
    BY <2>2, <2>4 DEF Added
  <2>5. CASE x # w /\ x \in Listed(chain, j)
    <3>1. watcher'[x] = watcher[x] /\ x \notin unsure /\ bus' = bus
      BY <2>2, <2>3, <2>5 DEF Added
    <3>2. ListedServed(c)
      BY DEF WatchInv
    <3> QED BY <2>2, <2>5, <3>1, <3>2 DEF ListedServed
  <2> QED BY <2>3, <2>4, <2>5
<1>10. ASSUME NEW c \in Watchable PROVE WaitingUnwatched(c)'
  <2> DEFINE j == <<"waiting", c>>
  <2>1. j \in Lists /\ j[2] = c
    BY DEF Lists
  <2>2. WaitingUnwatched(c)
    BY DEF WatchInv
  <2>3. ASSUME bus'[c] # "none" PROVE chain'.head[j].first = 0
    <3>1. bus[c] # "none" /\ chain.head[j].first = 0
      BY <2>2, <2>3 DEF WaitingUnwatched, Added
    <3>2. j # k
      BY <3>1 DEF Added, k
    <3> QED BY <1>8, <2>1, <3>1, <3>2
  <2>4. ASSUME NEW x \in Listed(chain', j), watcher'[x].bus = c PROVE watcher'[x].watch_id = 0
    <3>1. x \in Ids /\ (x = w \/ x \in Listed(chain, j))
      BY <1>8, <2>1
    <3>2. bus'[c] = "none"
      <4>1. SUFFICES ASSUME bus'[c] # "none" PROVE FALSE
        OBVIOUS
      <4>2. Follows(chain', j, {})
        BY <2>3, <4>1 DEF Follows
      <4> QED BY <2>4, <4>2, ListedLeast
    <3>3. CASE x = w
      BY <2>4, <3>2, <3>3 DEF Added
    <3>4. CASE x # w /\ x \in Listed(chain, j)
      BY <2>2, <2>4, <3>1, <3>4 DEF Added, WaitingUnwatched
    <3> QED BY <3>1, <3>3, <3>4
  <2> QED BY <2>3, <2>4 DEF WaitingUnwatched
<1> QED BY <1>2, <1>3, <1>6, <1>8, <1>9, <1>10 DEF WatchInv, o

\* WatchBusname finds no connection and lets the watcher wait; or finds one,
\* looks at its status and will add it.
LEMMA WatcherWaits ==
  ASSUME NEW own, own \in [Ids -> Watchable], WatchInv(own), NEW b \in Watchable, WatchBusname(b),
         NEW w, w = ids + 1
  PROVE  WatchInv([own EXCEPT ![w] = b])'
<1> DEFINE o == [own EXCEPT ![w] = b]
<1>1. WatcherType
  BY DEF WatchInv
<1>2. /\ w \in Ids /\ command = <<>> /\ Known = ids /\ w > ids /\ ids' = w
      /\ watcher' = [watcher EXCEPT ![w].bus = b]
      /\ bus' = bus /\ unsure' = unsure /\ watcher[w] = NoWatcher
  BY <1>1, BusesAssumption DEF WatchBusname, WatcherType, Known, Ids, connections
<1>3. watcher' \in [Ids -> Watcher] /\ watcher'[w] = [NoWatcher EXCEPT !.bus = b]
      /\ \A x \in Ids \ {w} : watcher'[x] = watcher[x]
  BY <1>1, <1>2, NoWatcherFacts DEF WatcherType, Watcher
<1>4. o \in [Ids -> Watchable] /\ o[w] = b /\ \A x \in Ids \ {w} : o[x] = own[x]
  BY <1>2
<1> DEFINE r == [NoWatcher EXCEPT !.bus = b]
<1>5. r.bus = b /\ r.told # "appeared" /\ r.watch_id = 0
  BY DEF NoWatcher
<1> HIDE DEF r
<1>6. watcher'[w] = r
  BY <1>3 DEF r
<1>7. CASE bus[b] = "none"
  <2>1. chain' = ListAdd(chain, <<"waiting", b>>, w) /\ command' = <<>>
    BY <1>2, <1>7 DEF WatchBusname
  <2>2. Added(b, "waiting", w)
    <3>1. watcher'[w].bus = b /\ watcher'[w].told # "appeared" /\ watcher'[w].watch_id = 0
      BY <1>5, <1>6
    <3>2. bus' = bus /\ unsure' = unsure /\ \A x \in Ids \ {w} : watcher'[x] = watcher[x]
      BY <1>2, <1>3
    <3> HIDE <1>2, <1>3, <1>4
    <3> QED BY <1>7, <2>1, <3>1, <3>2 DEF Added
  <2>3. w = Known + 1 /\ w >= ids
    BY <1>1, <1>2 DEF WatcherType
  <2> HIDE DEF o
  <2> QED BY <1>2, <1>3, <2>1, <2>2, <2>3, WatcherAdded
<1>8. CASE bus[b] # "none"
  <2>1. command' = <<b, IF BelowThree(b) THEN "add" ELSE "watch">> /\ chain' = chain
    BY <1>2, <1>8 DEF WatchBusname
  <2>2. command' \in Watchable \X {"add", "watch"} /\ command' # <<>> /\ command'[1] = b
    BY <2>1
  <2>3. Known' = Known
    BY <1>1, <1>2, <2>2 DEF Known, WatcherType
  <2>4. WatcherType'
    <3>1. \A x \in Ids : x > w => watcher'[x] = NoWatcher
      BY <1>1, <1>2, <1>3 DEF WatcherType, Ids
    <3>2. w \in 0..MaxWatchers /\ w > 0
      BY <1>2, BusesAssumption DEF Ids
    <3> QED BY <1>1, <1>2, <1>3, <2>2, <3>1, <3>2 DEF WatcherType
  <2>5. ChainOK(chain, Known, own) /\ Known \in 0..MaxWatchers /\ w = Known + 1
    BY <1>1, <1>2, KnownRange DEF WatchInv
  <2>6. ChainOK(chain, Known, [own EXCEPT ![w] = b])
    BY <1>2, <2>5, Relabelled
  <2>7. Owned(o)' /\ Believed'
    <3>1. Owned(own) /\ Believed
      BY DEF WatchInv
    <3> HIDE DEF o
    <3> QED BY <1>2, <1>3, <1>4, <1>5, <1>6, <3>1 DEF Owned, Believed
  <2>8. ASSUME NEW c \in Watchable PROVE ListedServed(c)' /\ WaitingUnwatched(c)'
    <3>1. ListedServed(c) /\ WaitingUnwatched(c)
      BY DEF WatchInv
    <3>2. ASSUME NEW kind \in {"waiting", "listed"}, NEW x \in Listed(chain, <<kind, c>>)
          PROVE  x \in Ids /\ x # w
      <4>1. x \in Ids /\ x <= Known
        BY ListedOwned DEF Lists
      <4> QED BY <1>2, <2>5, <4>1, KnownRange, <1>1 DEF Ids
    <3> QED BY <1>2, <1>3, <2>1, <3>1, <3>2 DEF ListedServed, WaitingUnwatched
  <2>9. WatchInv(o)'
    <3>1. ChainOK(chain, Known, o)'
      BY <2>1, <2>3, <2>6
    <3> HIDE DEF o
    <3> QED BY <2>4, <2>7, <2>8, <3>1 DEF WatchInv
  <2> QED BY <2>9
<1> QED BY <1>7, <1>8

\* It adds it, to a connection that may have come up, been lost or been deleted
\* meanwhile.
LEMMA WatcherListed ==
  ASSUME NEW own, own \in [Ids -> Watchable], WatchInv(own), AddOrWatch, NEW w, w = ids, NEW b, b = command[1]
  PROVE  WatchInv([own EXCEPT ![w] = b])' /\ b \in Watchable
<1>1. WatcherType
  BY DEF WatchInv
<1>2. /\ command # <<>> /\ command' = <<>> /\ ids' = w /\ w > 0 /\ bus' = bus
      /\ b \in Watchable /\ watcher[w] = [NoWatcher EXCEPT !.bus = b]
  BY <1>1 DEF AddOrWatch, WatcherType, connections
<1>3. w \in Ids /\ w = Known + 1 /\ w >= ids
  BY <1>1, <1>2, BusesAssumption DEF WatcherType, Known, Ids
<1> DEFINE r == [NoWatcher EXCEPT !.bus = b]
<1>4. r.bus = b /\ r.told # "appeared" /\ r.watch_id = 0 /\ r.live = 0
  BY DEF NoWatcher
<1> HIDE DEF r
<1>5. watcher[w] = r /\ r \in Watcher
  BY <1>1, <1>2, <1>3 DEF r, WatcherType
<1>6. AddWatcher(w, b) \/ WatchNow(w, b)
  BY DEF AddOrWatch
<1>7. /\ chain' = ListAdd(chain, <<"listed", b>>, w) /\ unsure \subseteq unsure' /\ unsure' \subseteq unsure \union {w}
      /\ watcher' = watcher \/ watcher' = [watcher EXCEPT ![w] = IF bus[b] \in {"up", "losing"} THEN Watched(w) ELSE @]
      /\ bus[b] = "losing" => w \in unsure'
      /\ w \notin unsure' /\ bus[b] = "up" => watcher' = [watcher EXCEPT ![w] = Watched(w)]
  BY <1>6 DEF AddWatcher, WatchNow
<1>8. /\ watcher' \in [Ids -> Watcher] /\ \A x \in Ids \ {w} : watcher'[x] = watcher[x]
      /\ watcher'[w] = watcher[w] \/ (watcher'[w] = Watched(w) /\ bus[b] \in {"up", "losing"})
  BY SMTT(30), <1>1, <1>3, <1>7, WatcherOps DEF WatcherType
<1>9. Watched(w) = [r EXCEPT !.watch_id = 1, !.live = 1]
  BY <1>4, <1>5 DEF Watched
<1>10. watcher'[w].bus = b /\ watcher'[w].told # "appeared"
  <2>1. [r EXCEPT !.watch_id = 1, !.live = 1].told = r.told /\ [r EXCEPT !.watch_id = 1, !.live = 1].bus = r.bus
    BY <1>5 DEF Watcher
  <2> QED BY ZenonT(30), <1>4, <1>5, <1>8, <1>9, <2>1
<1>11. w \notin unsure' /\ bus[b] = "up" => watcher'[w].watch_id = 1 /\ watcher'[w].live = 1
  <2>1. Watched(w).watch_id = 1 /\ Watched(w).live = 1
    BY <1>1, <1>3, <1>4, <1>5, WatcherOps DEF WatcherType
  <2> QED BY <1>1, <1>3, <1>7, <2>1 DEF WatcherType
<1>12. w \notin unsure' /\ bus[b] # "up" => watcher'[w].watch_id = 0
  BY <1>4, <1>5, <1>7, <1>8
<1>13. Added(b, "listed", w)
  <2>1. bus[b] = "none" => watcher'[w].watch_id = 0
    BY <1>4, <1>5, <1>8
  <2> QED BY <1>2, <1>7, <1>8, <1>10, <1>11, <1>12, <2>1 DEF Added
<1>14. WatchInv([own EXCEPT ![w] = b])'
  BY <1>2, <1>3, <1>8, <1>13, WatcherAdded
<1> QED BY <1>2, <1>14

\* UnwatchBusname: Del of a watcher that is in its connection's list.
LEMMA WatcherUnlisted ==
  ASSUME NEW own \in [Ids -> Watchable], WatchInv(own), NEW w \in Ids, UnwatchBusname(w)
  PROVE  WatchInv(own)'
<1> DEFINE b == watcher[w].bus
<1>1. /\ UNCHANGED <<ids, unsure, command, bus>> /\ command = <<>> /\ w <= ids /\ b # "none"
      /\ IF bus[b] = "none" THEN UNCHANGED <<watcher, chain>> ELSE Unwatch(w, b)
  BY DEF UnwatchBusname, connections
<1>2. WatcherType /\ Owned(own) /\ Believed /\ ChainOK(chain, Known, own)
  BY DEF WatchInv
<1>3. b \in Watchable /\ own[w] = b /\ Known = ids /\ Known' = ids /\ w <= Known /\ Known \in 0..MaxWatchers
  BY <1>1, <1>2, KnownRange DEF WatcherType, Watcher, Owned, Known
<1> HIDE DEF b
<1>4. CASE UNCHANGED <<watcher, chain>>
  BY <1>1, <1>4, WatchKept
<1>5. CASE bus[b] # "none" /\ w \in Listed(chain, <<"listed", b>>)
  <2>1. watcher' = [watcher EXCEPT ![w] = NoWatcher] /\ chain' = ListDel(chain, <<"listed", b>>, w)
    BY <1>1, <1>5 DEF Unwatch
  <2> DEFINE k == <<"listed", b>>
  <2>2. k \in Lists /\ k[2] = b /\ chain \in Chain(Known)
    BY <1>2, <1>3 DEF Lists, ChainOK
  <2>3. ChainOK(chain', Known, own)
    BY <1>2, <1>3, <2>1, <2>2, DelOK
  <2>4. ASSUME NEW j \in Lists
        PROVE  /\ Listed(chain', j) \subseteq Listed(chain, j) /\ Listed(chain', j) \subseteq Ids
               /\ j # k => chain'.head[j] = chain.head[j]
    <3>1. Follows(chain, j, Listed(chain, j)) /\ Listed(chain, j) \subseteq Ids
      BY <1>3, <2>2, ListedFollows
    <3>2. j = k => w \in Listed(chain, j)
      BY <1>5
    <3>3. j # k => chain.prev[w] \notin Listed(chain, j)
      <4>1. ASSUME NEW x \in Listed(chain, j) PROVE own[x] = j[2] /\ x # 0
        BY ListedOwned, BusesAssumption DEF Ids
      <4>2. chain.prev[w] # 0 => own[chain.prev[w]] = b
        BY <1>2, <1>3 DEF ChainOK
      <4>3. j # k /\ j[2] = b => Listed(chain, j) = {}
        <5>1. j # k /\ j[2] = b => j = <<"waiting", b>>
          BY DEF Lists
        <5>2. Listed(chain, <<"waiting", b>>) = {}
          BY <1>3, <1>5, ListedFacts
        <5> QED BY <5>1, <5>2
      <4> QED BY <4>1, <4>2, <4>3
    <3>4. Follows(chain', j, Listed(chain, j))
      BY <1>3, <2>1, <2>2, <3>1, <3>2, <3>3, DelFollows
    <3>5. j # k => chain'.head[j] = chain.head[j]
      BY <2>1, <2>2 DEF ListDel, Chain
    <3> QED BY <3>1, <3>4, <3>5, ListedLeast
  <2>5. watcher' \in [Ids -> Watcher] /\ \A x \in Ids \ {w} : watcher'[x] = watcher[x]
    BY <1>2, <2>1, NoWatcherFacts DEF WatcherType
  <2>6. watcher'[w] = NoWatcher
    BY <1>2, <2>1 DEF WatcherType
  <2> HIDE DEF k
  <2>7. WatcherType' /\ Owned(own)' /\ Believed'
    <3>1. \A x \in Ids : x > ids => watcher'[x] = NoWatcher
      BY <1>2, <2>5, <2>6 DEF WatcherType
    <3> QED BY <1>1, <1>2, <2>5, <2>6, <3>1, NoWatcherFacts DEF WatcherType, Owned, Believed
  <2>8. ASSUME NEW c \in Watchable PROVE ListedServed(c)' /\ WaitingUnwatched(c)'
    <3>1. ListedServed(c) /\ WaitingUnwatched(c)
      BY DEF WatchInv
    <3>2. /\ <<"listed", c>> \in Lists /\ <<"waiting", c>> \in Lists /\ <<"waiting", c>> # k
      BY DEF Lists, k
    <3>3. ASSUME NEW kind \in {"waiting", "listed"}, NEW x \in Listed(chain', <<kind, c>>), watcher'[x].bus = c
          PROVE  x \in Listed(chain, <<kind, c>>) /\ x \in Ids /\ watcher'[x] = watcher[x]
      <4>1. x \in Listed(chain, <<kind, c>>) /\ x \in Ids
        BY <2>4, <3>2
      <4>2. x # w
        BY <2>6, <3>3, NoWatcherFacts DEF Watchable
      <4> QED BY <2>5, <4>1, <4>2
    <3>4. chain'.head[<<"waiting", c>>] = chain.head[<<"waiting", c>>]
      BY <2>4, <3>2
    <3>5. ListedServed(c)'
      BY <1>1, <3>1, <3>3 DEF ListedServed
    <3>6. WaitingUnwatched(c)'
      BY <1>1, <3>1, <3>3, <3>4 DEF WaitingUnwatched
    <3> QED BY <3>5, <3>6
  <2> QED BY <1>3, <2>3, <2>7, <2>8 DEF WatchInv
<1> QED BY <1>1, <1>4, <1>5 DEF Unwatch

-----------------------------------------------------------------------------
(***************************************************************************)
(* All steps.                                                              *)
(***************************************************************************)

\* Every step of every thread keeps the invariant.
LEMMA WatchNext ==
  ASSUME NEW own \in [Ids -> Watchable], WatchInv(own), ConnType, SystemLater, [Next]_vars
  PROVE  \E o \in [Ids -> Watchable] : WatchInv(o)'
<1>1. CASE UNCHANGED <<watching, command, bus>>
  BY <1>1, WatchKept DEF watching
<1>2. CASE Initialize \/ StartMainLoop \/ StartNetwork \/ StartMonitor \/ Announce
  BY <1>1, <1>2 DEF Initialize, StartMainLoop, StartNetwork, StartMonitor, Announce, TestFile, MonitorFile, StartClients,
     Elsewhere, buses, connections
<1>3. CASE StartSystemBus
  <2>1. bus["system"] = "none" /\ command' = command
    BY <1>3 DEF StartSystemBus, SystemLater, Step
  <2>2. CASE CreateBus("system")
    BY <2>1, <2>2, WatchersTaken DEF Watchable
  <2>3. CASE UNCHANGED buses
    BY <2>1, <2>3, <1>1 DEF buses, connections
  <2> QED BY <1>3, <2>2, <2>3 DEF StartSystemBus
<1>4. CASE \E from, to : StartSessionBus(from, to)
  <2>1. command' = command
    BY <1>4 DEF StartSessionBus
  <2>2. CASE bus["session"] = "none" /\ CreateBus("session")
    BY <2>1, <2>2, WatchersTaken DEF Watchable
  <2>3. CASE UNCHANGED buses
    BY <2>1, <2>3, <1>1 DEF buses, connections
  <2> QED BY <1>4, <2>2, <2>3 DEF StartSessionBus
<1>5. CASE AddOrWatch
  <2>1. PICK w0, b0 : w0 = ids /\ b0 = command[1]
    OBVIOUS
  <2>2. WatchInv([own EXCEPT ![w0] = b0])' /\ b0 \in Watchable
    BY <1>5, <2>1, WatcherListed
  <2>3. [own EXCEPT ![w0] = b0] \in [Ids -> Watchable]
    BY <2>2
  <2> QED BY <2>2, <2>3
<1>6. ASSUME NEW b \in Buses, Delete(b), command' = command PROVE WatchInv(own)'
  <2>1. DeleteBus(b)
    BY <1>6 DEF Delete, DeleteConnection
  <2> QED BY <1>6, <2>1, WatchersDropped
<1>7. ASSUME NEW b, Deleted(b), command' = command PROVE WatchInv(own)'
  BY <1>7, WatchKept DEF Deleted, Elsewhere, buses, connections, watching
<1>8. CASE StopSessionBus
  <2>1. command' = command /\ "session" \in Buses
    BY <1>8 DEF StopSessionBus, Buses
  <2>2. Delete("session") \/ Deleted("session")
    BY <1>8 DEF StopSessionBus
  <2> QED BY <1>6, <1>7, <2>1, <2>2
<1>9. CASE \E from : \E b \in Buses : StopBus(from, b)
  BY <1>6, <1>7, <1>9 DEF StopBus
<1>10. CASE BeginStop \/ StopNetwork \/ FreeThreadPools \/ StopMainLoop
  BY <1>1, <1>10 DEF BeginStop, StopNetwork, FreeThreadPools, StopMainLoop, StopClients, IgnoreFile, Elsewhere, buses, connections
<1>11. CASE Running
  <2>1. CASE MainThreadHook \/ (\E d \in Devices : VdrSwitches(d)) \/ (\E set \in {0, 1} : SetDBusSessionBusAddress(set))
    BY <1>1, <2>1 DEF MainThreadHook, VdrSwitches, SetDBusSessionBusAddress, Elsewhere, main, buses, connections
  <2>2. ASSUME NEW b \in Watchable, WatchBusname(b) PROVE \E o \in [Ids -> Watchable] : WatchInv(o)'
    <3>1. PICK w : w = ids + 1
      OBVIOUS
    <3>2. WatchInv([own EXCEPT ![w] = b])'
      BY <2>2, <3>1, WatcherWaits
    <3>3. [own EXCEPT ![w] = b] \in [Ids -> Watchable]
      OBVIOUS
    <3> QED BY <3>2, <3>3
  <2>3. CASE \E w \in Ids : UnwatchBusname(w)
    BY <2>3, WatcherUnlisted
  <2> QED BY <1>11, <2>1, <2>2, <2>3 DEF Running
<1>12. CASE Crash \/ MethodCalled \/ MethodEnds \/ (\E l \in Loops : LoopThread(l)) \/ UNCHANGED vars
  BY <1>1, <1>12 DEF Crash, MethodCalled, MethodEnds, LoopThread, Elsewhere, vars, main, buses, connections
<1>13. ASSUME NEW b \in Buses \ Watchable, BusUp(b) \/ BusLost(b) \/ BusClosed(b) \/ BusSaved(b), command' = command
       PROVE  WatchInv(own)'
  <2>1. WatcherType
    BY DEF WatchInv
  <2>2. BusClosed(b) => watcher' = watcher
    <3>1. \A w \in Ids : watcher[w].bus # b
      BY <1>13, <2>1 DEF WatcherType, Watcher, Buses, Watchable
    <3> QED BY <2>1, <3>1 DEF BusClosed, WatcherType
  <2>3. UNCHANGED watching /\ \A c \in Watchable : bus'[c] = bus[c]
    BY <1>13, <2>2 DEF BusUp, BusLost, BusClosed, BusSaved, ConnType, Buses, Watchable, watching
  <2> QED BY <1>13, <2>3, WatchKept DEF watching
<1>14. ASSUME NEW b \in Buses, BusFails(b), command' = command
       PROVE  WatchInv(own)'
  <2>1. /\ UNCHANGED watching /\ bus[b] \in {"new", "lost"} /\ bus'[b] = "failed"
        /\ \A c \in Watchable : c # b => bus'[c] = bus[c]
    BY <1>14 DEF BusFails, ConnType, Buses, Watchable
  <2> QED BY <1>14, <2>1, WatchKept DEF watching, Ending
<1>15. CASE Served
  <2>1. command' = command
    BY <1>15 DEF Served, main
  <2>2. ASSUME NEW b \in Buses, BusDeleted(b) \/ BusUp(b) PROVE WatchInv(own)'
    <3>1. CASE BusDeleted(b)
      BY <2>1, <3>1, WatchersDeleted
    <3>2. CASE BusUp(b) /\ b \in Watchable
      <4>1. /\ bus[b] \in {"new", "failed", "lost"} /\ bus'[b] = "up" /\ \A c \in Watchable \ {b} : bus'[c] = bus[c]
            /\ RegisterWatchers(b) /\ UNCHANGED <<ids, chain>>
        BY <3>2 DEF BusUp, ConnType, Buses, Watchable
      <4> QED BY <2>1, <3>2, <4>1, WatchersUp
    <3> QED BY <1>13, <2>1, <2>2, <3>1, <3>2
  <2>3. CASE (\E b \in Watchable : BusClosed(b)) \/ NameLost
    BY <1>13, <2>1, <2>3, WatchersClosed DEF NameLost, Buses, Watchable
  <2>4. CASE on_file_changed \/ on_name_acquired
    BY <1>1, <2>1, <2>4 DEF on_file_changed, on_name_acquired, buses, connections
  <2> QED BY <1>15, <2>2, <2>3, <2>4 DEF Served
<1>16. CASE Monitor
  <2>1. command' = command
    BY <1>16 DEF Monitor, main
  <2>2. CASE do_connect \/ LoadAddress \/ do_disconnect \/ Dropped
    BY <1>1, <2>1, <2>2 DEF do_connect, LoadAddress, do_disconnect, Dropped, buses, connections
  <2>3. CASE DeleteOld
    BY <2>1, <2>3, WatchersDropped DEF DeleteOld, DeleteConnection, Buses
  <2>4. CASE CreateConnection
    BY <1>1, <2>1, <2>4 DEF CreateConnection, connections
  <2>5. CASE ConnectNew
    <3>1. UNCHANGED watching /\ \A c \in Watchable : bus'[c] = bus[c]
      BY <2>5 DEF ConnectNew, ConnType, Buses, Watchable
    <3> QED BY <2>1, <3>1, WatchKept DEF watching
  <2> QED BY <1>16, <2>2, <2>3, <2>4, <2>5 DEF Monitor, MonitorStep
<1>17. CASE Environment
  <2>1. command' = command
    BY <1>17 DEF Environment, main
  <2>2. CASE \E b \in Buses : BusFails(b) \/ BusLost(b) \/ BusSaved(b)
    <3>1. PICK b \in Buses : BusFails(b) \/ BusLost(b) \/ BusSaved(b)
      BY <2>2
    <3>2. CASE BusFails(b)
      BY <1>14, <2>1, <3>2
    <3>3. CASE BusLost(b) /\ b \in Watchable
      BY <2>1, <3>3, WatchersLost
    <3>4. CASE (BusLost(b) \/ BusSaved(b)) /\ b \notin Watchable
      BY <1>13, <2>1, <3>4
    <3>5. CASE BusSaved(b) /\ b \in Watchable
      BY <2>1, <3>5, WatchersSaved
    <3> QED BY <3>1, <3>2, <3>3, <3>4, <3>5
  <2>3. CASE \E w \in Ids, what \in {"appeared", "vanished"} : Notify(w, what)
    BY <2>1, <2>3, WatchersTold
  <2>4. CASE \E to \in {<<>>} \union {<<a>> : a \in Addresses} : \E event \in Reports(to) : ChangeFile(to, event)
    BY <1>1, <2>1, <2>4 DEF ChangeFile, buses, connections
  <2>5. CASE (\E n \in Names : ServiceResolved(n) \/ ServiceRemoved(n))
               \/ (\E i \in DOMAIN clients : OnConnect(i) \/ OnTimerChange(i) \/ OnTimerList(i))
    BY <1>1, <2>1, <2>5 DEF ServiceResolved, ServiceRemoved, OnConnect, OnTimerChange, OnTimerList, buses, connections
  <2> QED BY <1>17, <2>2, <2>3, <2>4, <2>5 DEF Environment
<1>18. CASE Start
  BY <1>2, <1>3, <1>4, <1>18 DEF Start
<1>19. CASE Stop
  <2>1. StopBus("closenetwork", "network") \/ StopBus("closesession", "session") \/ StopBus("closesystem", "system")
        => \E from : \E b \in Buses : StopBus(from, b)
    <3>1. {"network", "session", "system"} \subseteq Buses
      BY DEF Buses
    <3> QED BY <3>1
  <2> QED BY <1>9, <1>10, <1>19, <2>1 DEF Stop
<1>20. CASE Blocking
  BY <1>2, <1>4, <1>5, <1>8, <1>18, <1>20 DEF Blocking
<1> QED BY <1>11, <1>12, <1>15, <1>16, <1>17, <1>19, <1>20 DEF Next

\* The invariant, for some assignment.
WatchersInv == \E own \in [Ids -> Watchable] : WatchInv(own)

\* It is kept together with the types that its steps need.
LEMMA WatchersNext ==
  ASSUME ConnType, SystemLater, WatchersInv, [Next]_vars
  PROVE  ConnType' /\ SystemLater' /\ WatchersInv'
<1>1. PICK own \in [Ids -> Watchable] : WatchInv(own)
  BY DEF WatchersInv
<1>2. \E o \in [Ids -> Watchable] : WatchInv(o)'
  BY <1>1, WatchNext
<1>3. WatchersInv'
  BY <1>2 DEF WatchersInv
<1> QED BY <1>3, ConnNext, SystemNext

\* For any number of watchers, however the connections come, fail, are lost and
\* are deleted: each one that the list of its connection meets is watched while
\* the connection is up, unless WatchBusname met it as it came or went; and
\* nobody goes on believing in a name whose bus is gone (cDBusWatcher,
\* dbus2vdr.c:125-160 and 644-680).
THEOREM WatchersAreServed == Spec => []WatchersServed
<1>1. Init => ConnType /\ SystemLater /\ WatchersInv
  BY ConnInit, SystemInit, WatchInit DEF WatchersInv
<1>2. ConnType /\ SystemLater /\ WatchersInv /\ [Next]_vars => (ConnType /\ SystemLater /\ WatchersInv)'
  BY WatchersNext
<1>3. WatchersInv => WatchersServed
  <2>1. SUFFICES ASSUME NEW own \in [Ids -> Watchable], WatchInv(own) PROVE WatchersServed
    BY DEF WatchersInv
  <2>2. /\ \A w \in Ids : watcher[w].told = "appeared" => watcher[w].live = 1
        /\ \A b \in Watchable : ListedServed(b)
    BY <2>1 DEF WatchInv, Believed
  <2> QED BY <2>2 DEF ListedServed, WatchersServed
<1> QED BY <1>1, <1>2, <1>3, PTL DEF Spec
=============================================================================
