------------------------- MODULE CJsonItems_proofs --------------------------
(***************************************************************************)
(* The heap of cJSON items, of any size and shape: what cJSON_Delete walks *)
(* over, what an append and a deletion leave of the lists, and what lookup *)
(* returns.                                                                *)
(***************************************************************************)
EXTENDS CJsonItems, FiniteSetTheorems, WellFoundedInduction, TLC, TLAPS

-----------------------------------------------------------------------------
(* Forests.  A graph maps each node to the set of its successors.          *)

ClosedUnder(G, S) == \A n \in S : G[n] \subseteq S

\* The nodes that p leads to, p with them.
Reach(G, p) ==
  {n \in DOMAIN G : \A S \in SUBSET DOMAIN G : p \in S /\ ClosedUnder(G, S) => n \in S}

\* Every node has at most one predecessor, the entries have none and lead to
\* every node, and every set of nodes has an end.
Forest(G, E) ==
  /\ \A n \in DOMAIN G : G[n] \subseteq DOMAIN G
  /\ E \subseteq DOMAIN G
  /\ \A m, n \in DOMAIN G : G[m] \cap G[n] # {} => m = n
  /\ \A n \in DOMAIN G : G[n] \cap E = {}
  /\ \A T \in SUBSET DOMAIN G : T # {} => \E m \in T : G[m] \cap T = {}
  /\ \A S \in SUBSET DOMAIN G : E \subseteq S /\ ClosedUnder(G, S) => S = DOMAIN G

LEMMA ReachClosed ==
  ASSUME NEW G, \A n \in DOMAIN G : G[n] \subseteq DOMAIN G, NEW p \in DOMAIN G
  PROVE  /\ p \in Reach(G, p) /\ Reach(G, p) \subseteq DOMAIN G
         /\ ClosedUnder(G, Reach(G, p))
         /\ \A S \in SUBSET DOMAIN G : p \in S /\ ClosedUnder(G, S) => Reach(G, p) \subseteq S
<1>1. \A S \in SUBSET DOMAIN G : p \in S /\ ClosedUnder(G, S) => Reach(G, p) \subseteq S
  BY DEF Reach
<1>2. p \in Reach(G, p) /\ Reach(G, p) \subseteq DOMAIN G
  BY DEF Reach
<1>3. ASSUME NEW n \in Reach(G, p), NEW m \in G[n] PROVE m \in Reach(G, p)
  <2>1. m \in DOMAIN G
    BY <1>3 DEF Reach
  <2>2. ASSUME NEW S \in SUBSET DOMAIN G, p \in S, ClosedUnder(G, S) PROVE m \in S
    <3>1. n \in S
      BY <1>1, <1>3, <2>2
    <3> QED
      BY <1>3, <2>2, <3>1 DEF ClosedUnder
  <2> QED
    BY <2>1, <2>2 DEF Reach
<1> QED
  BY <1>1, <1>2, <1>3 DEF ClosedUnder

\* What a node leads to leads no further.
LEMMA ReachInside ==
  ASSUME NEW G, \A n \in DOMAIN G : G[n] \subseteq DOMAIN G, NEW p \in DOMAIN G,
         NEW q \in Reach(G, p)
  PROVE  Reach(G, q) \subseteq Reach(G, p)
<1>1. q \in DOMAIN G /\ Reach(G, p) \in SUBSET DOMAIN G /\ ClosedUnder(G, Reach(G, p))
  BY ReachClosed
<1> QED
  BY <1>1, ReachClosed

\* Every other node that p leads to is reached by way of a predecessor.
LEMMA ReachPredecessor ==
  ASSUME NEW G, \A n \in DOMAIN G : G[n] \subseteq DOMAIN G, NEW p \in DOMAIN G,
         NEW q \in Reach(G, p), q # p
  PROVE  \E k \in Reach(G, p) : q \in G[k]
<1> DEFINE S == Reach(G, p) \ {q}
<1>1. /\ p \in Reach(G, p) /\ Reach(G, p) \subseteq DOMAIN G /\ ClosedUnder(G, Reach(G, p))
      /\ \A T \in SUBSET DOMAIN G : p \in T /\ ClosedUnder(G, T) => Reach(G, p) \subseteq T
  BY ReachClosed
<1>2. SUFFICES ASSUME \A k \in Reach(G, p) : q \notin G[k] PROVE FALSE
  OBVIOUS
<1>3. S \in SUBSET DOMAIN G /\ p \in S /\ ClosedUnder(G, S)
  BY <1>1, <1>2 DEF ClosedUnder
<1> HIDE DEF S
<1>4. Reach(G, p) \subseteq S
  BY <1>1, <1>3
<1> QED
  BY <1>4 DEF S

\* Where an entry leads, nothing else leads.
LEMMA EntryApart ==
  ASSUME NEW G, NEW E, Forest(G, E), NEW e \in E
  PROVE  /\ ClosedUnder(G, DOMAIN G \ Reach(G, e))
         /\ \A p \in DOMAIN G : e \in Reach(G, p) => p = e
         /\ \A p \in DOMAIN G \ Reach(G, e) : Reach(G, p) \cap Reach(G, e) = {}
<1>1. /\ \A n \in DOMAIN G : G[n] \subseteq DOMAIN G
      /\ e \in DOMAIN G /\ \A n \in DOMAIN G : e \notin G[n]
      /\ \A m, n \in DOMAIN G : G[m] \cap G[n] # {} => m = n
  BY DEF Forest
<1>2. Reach(G, e) \subseteq DOMAIN G
  BY <1>1, ReachClosed
<1>3. ASSUME NEW n \in DOMAIN G \ Reach(G, e), NEW m \in G[n], m \in Reach(G, e)
      PROVE  FALSE
  <2>1. m # e
    BY <1>1, <1>3
  <2>2. PICK k \in Reach(G, e) : m \in G[k]
    BY <1>1, <1>3, <2>1, ReachPredecessor
  <2>3. k = n
    BY <1>1, <1>2, <1>3, <2>2
  <2> QED
    BY <1>3, <2>3
<1>4. ClosedUnder(G, DOMAIN G \ Reach(G, e))
  BY <1>1, <1>3 DEF ClosedUnder
<1>5. ASSUME NEW p \in DOMAIN G, e \in Reach(G, p), p # e PROVE FALSE
  <2>1. PICK k \in Reach(G, p) : e \in G[k]
    BY <1>1, <1>5, ReachPredecessor
  <2> QED
    BY <1>1, <2>1, ReachClosed
<1>6. ASSUME NEW p \in DOMAIN G \ Reach(G, e)
      PROVE  Reach(G, p) \cap Reach(G, e) = {}
  <2>1. Reach(G, p) \subseteq DOMAIN G \ Reach(G, e)
    BY <1>1, <1>4, <1>6, ReachClosed
  <2> QED
    BY <2>1
<1> QED
  BY <1>4, <1>5, <1>6

\* H is G with the new node x; with an edge from x to y; without the nodes R.
Planted(G, x, H) ==
  /\ x \notin DOMAIN G /\ DOMAIN H = DOMAIN G \cup {x}
  /\ H[x] = {} /\ \A n \in DOMAIN G : H[n] = G[n]
Joined(G, x, y, H) ==
  /\ DOMAIN H = DOMAIN G /\ H[x] = G[x] \cup {y}
  /\ \A n \in DOMAIN G \ {x} : H[n] = G[n]
Felled(G, R, H) ==
  /\ DOMAIN H = DOMAIN G \ R
  /\ \A n \in DOMAIN H : H[n] = G[n]

\* A node that nothing leads to is planted.
LEMMA PlantForest ==
  ASSUME NEW G, NEW E, Forest(G, E), NEW x, NEW H, Planted(G, x, H)
  PROVE  /\ Forest(H, E \cup {x})
         /\ \A p \in DOMAIN G : Reach(G, p) \subseteq Reach(H, p)
         /\ Reach(H, x) = {x}
<1> USE DEF Planted
<1>1. /\ \A n \in DOMAIN G : G[n] \subseteq DOMAIN G
      /\ E \subseteq DOMAIN G
      /\ \A m, n \in DOMAIN G : G[m] \cap G[n] # {} => m = n
      /\ \A n \in DOMAIN G : G[n] \cap E = {}
      /\ \A T \in SUBSET DOMAIN G : T # {} => \E m \in T : G[m] \cap T = {}
      /\ \A S \in SUBSET DOMAIN G : E \subseteq S /\ ClosedUnder(G, S) => S = DOMAIN G
  BY DEF Forest
<1>2. \A n \in DOMAIN H : H[n] \subseteq DOMAIN G
  BY <1>1
<1>3. \A S \in SUBSET DOMAIN H : ClosedUnder(H, S) => ClosedUnder(G, S \cap DOMAIN G)
  BY <1>1 DEF ClosedUnder
<1>4. ASSUME NEW T \in SUBSET DOMAIN H, T # {} PROVE \E m \in T : H[m] \cap T = {}
  <2>1. CASE T \cap DOMAIN G = {}
    <3>1. x \in T /\ H[x] \cap T = {}
      BY <1>4, <2>1
    <3> QED
      BY <3>1
  <2>2. CASE T \cap DOMAIN G # {}
    <3>1. PICK m \in T \cap DOMAIN G : G[m] \cap (T \cap DOMAIN G) = {}
      BY <1>1, <2>2
    <3>2. H[m] \cap T = {}
      BY <1>1, <3>1
    <3> QED
      BY <3>1, <3>2
  <2> QED
    BY <2>1, <2>2
<1>5. ASSUME NEW S \in SUBSET DOMAIN H, E \cup {x} \subseteq S, ClosedUnder(H, S)
      PROVE  S = DOMAIN H
  <2>1. S \cap DOMAIN G = DOMAIN G
    BY <1>1, <1>3, <1>5
  <2> QED
    BY <1>5, <2>1
<1>6. Forest(H, E \cup {x})
  <2>1. \A m, n \in DOMAIN H : H[m] \cap H[n] # {} => m = n
    BY <1>1
  <2>2. \A n \in DOMAIN H : H[n] \cap (E \cup {x}) = {}
    BY <1>1
  <2> QED
    BY <1>1, <1>2, <1>4, <1>5, <2>1, <2>2 DEF Forest
<1>7. ASSUME NEW p \in DOMAIN G PROVE Reach(G, p) \subseteq Reach(H, p)
  BY <1>3 DEF Reach
<1>8. Reach(H, x) = {x}
  <2>1. {x} \in SUBSET DOMAIN H /\ x \in {x} /\ ClosedUnder(H, {x})
    BY DEF ClosedUnder
  <2>2. x \in Reach(H, x) /\ Reach(H, x) \subseteq {x}
    BY <2>1 DEF Reach
  <2> QED
    BY <2>2
<1> QED
  BY <1>6, <1>7, <1>8

\* An entry becomes a successor of a node that it does not lead to.
LEMMA JoinForest ==
  ASSUME NEW G, NEW E, Forest(G, E), NEW x \in DOMAIN G, NEW y \in E,
         x \notin Reach(G, y), NEW H, Joined(G, x, y, H)
  PROVE  /\ Forest(H, E \ {y})
         /\ \A p \in DOMAIN G : Reach(G, p) \subseteq Reach(H, p)
         /\ \A p \in DOMAIN G : x \in Reach(G, p) => y \in Reach(H, p)
<1> USE DEF Joined
<1>1. /\ \A n \in DOMAIN G : G[n] \subseteq DOMAIN G
      /\ E \subseteq DOMAIN G /\ y \in DOMAIN G
      /\ \A m, n \in DOMAIN G : G[m] \cap G[n] # {} => m = n
      /\ \A n \in DOMAIN G : G[n] \cap E = {}
      /\ \A T \in SUBSET DOMAIN G : T # {} => \E m \in T : G[m] \cap T = {}
      /\ \A S \in SUBSET DOMAIN G : E \subseteq S /\ ClosedUnder(G, S) => S = DOMAIN G
  BY DEF Forest
<1>2. /\ \A n \in DOMAIN H : H[n] \subseteq DOMAIN H
      /\ \A n \in DOMAIN H : G[n] \subseteq H[n]
  BY <1>1
<1>3. \A S \in SUBSET DOMAIN H : ClosedUnder(H, S) => ClosedUnder(G, S)
  BY <1>2 DEF ClosedUnder
<1>4. y \in Reach(G, y) /\ Reach(G, y) \subseteq DOMAIN G /\ ClosedUnder(G, Reach(G, y))
  BY <1>1, ReachClosed
<1>5. \A m, n \in DOMAIN H : H[m] \cap H[n] # {} => m = n
  BY <1>1
<1>6. \A n \in DOMAIN H : H[n] \cap (E \ {y}) = {}
  BY <1>1
<1>7. ASSUME NEW T \in SUBSET DOMAIN H, T # {} PROVE \E m \in T : H[m] \cap T = {}
  <2>1. CASE T \cap Reach(G, y) = {}
    <3>1. PICK m \in T : G[m] \cap T = {}
      BY <1>1, <1>7
    <3>2. y \notin T /\ H[m] \subseteq G[m] \cup {y}
      BY <1>4, <2>1
    <3> QED
      BY <3>1, <3>2
  <2>2. CASE T \cap Reach(G, y) # {}
    <3>1. PICK m \in T \cap Reach(G, y) : G[m] \cap (T \cap Reach(G, y)) = {}
      BY <1>1, <1>4, <2>2
    <3>2. G[m] \subseteq Reach(G, y)
      BY <1>4, <3>1 DEF ClosedUnder
    <3>3. m # x /\ m \in DOMAIN G
      BY <1>4, <3>1
    <3>4. H[m] = G[m]
      BY <3>3
    <3>5. H[m] \cap T = {}
      BY <3>1, <3>2, <3>4
    <3> QED
      BY <3>1, <3>5
  <2> QED
    BY <2>1, <2>2
<1>8. ASSUME NEW S \in SUBSET DOMAIN H, E \ {y} \subseteq S, ClosedUnder(H, S)
      PROVE  S = DOMAIN H
  <2>1. ClosedUnder(G, S)
    BY <1>3, <1>8
  <2>2. ClosedUnder(G, S \cup Reach(G, y)) /\ E \subseteq S \cup Reach(G, y)
    BY <1>4, <1>8, <2>1 DEF ClosedUnder
  <2>3. S \cup Reach(G, y) = DOMAIN G
    BY <1>1, <1>4, <1>8, <2>2
  <2>4. x \in S
    BY <2>3
  <2>5. y \in S
    BY <1>8, <2>4 DEF ClosedUnder
  <2> QED
    BY <1>1, <1>8, <2>1, <2>5
<1>9. Forest(H, E \ {y})
  BY <1>1, <1>2, <1>5, <1>6, <1>7, <1>8 DEF Forest
<1>10. ASSUME NEW p \in DOMAIN G PROVE Reach(G, p) \subseteq Reach(H, p)
  BY <1>3 DEF Reach
<1>11. ASSUME NEW p \in DOMAIN G, x \in Reach(G, p) PROVE y \in Reach(H, p)
  <2>1. x \in Reach(H, p) /\ ClosedUnder(H, Reach(H, p))
    BY <1>2, <1>10, <1>11, ReachClosed
  <2> QED
    BY <2>1 DEF ClosedUnder
<1> QED
  BY <1>9, <1>10, <1>11

\* All that an entry leads to is felled.
LEMMA FellForest ==
  ASSUME NEW G, NEW E, Forest(G, E), NEW e \in E,
         NEW H, Felled(G, Reach(G, e), H)
  PROVE  /\ Forest(H, E \ {e})
         /\ \A p \in DOMAIN H : Reach(G, p) \subseteq Reach(H, p)
<1> USE DEF Felled
<1>1. /\ \A n \in DOMAIN G : G[n] \subseteq DOMAIN G
      /\ E \subseteq DOMAIN G /\ e \in DOMAIN G
      /\ \A m, n \in DOMAIN G : G[m] \cap G[n] # {} => m = n
      /\ \A n \in DOMAIN G : G[n] \cap E = {}
      /\ \A T \in SUBSET DOMAIN G : T # {} => \E m \in T : G[m] \cap T = {}
      /\ \A S \in SUBSET DOMAIN G : E \subseteq S /\ ClosedUnder(G, S) => S = DOMAIN G
  BY DEF Forest
<1>2. ClosedUnder(G, DOMAIN H)
  BY EntryApart
<1>3. e \in Reach(G, e) /\ Reach(G, e) \subseteq DOMAIN G /\ ClosedUnder(G, Reach(G, e))
  BY <1>1, ReachClosed
<1>4. \A n \in DOMAIN H : H[n] \subseteq DOMAIN H
  BY <1>2 DEF ClosedUnder
<1>5. E \ {e} \subseteq DOMAIN H
  <2>1. ASSUME NEW f \in E, f # e, f \in Reach(G, e) PROVE FALSE
    <3>1. f \in DOMAIN G
      BY <1>1
    <3> QED
      BY <1>1, <2>1, EntryApart
  <2> QED
    BY <1>1, <2>1
<1>6. ASSUME NEW S \in SUBSET DOMAIN H, E \ {e} \subseteq S, ClosedUnder(H, S)
      PROVE  S = DOMAIN H
  <2>1. ClosedUnder(G, S \cup Reach(G, e)) /\ E \subseteq S \cup Reach(G, e)
    BY <1>3, <1>6 DEF ClosedUnder
  <2>2. S \cup Reach(G, e) = DOMAIN G
    BY <1>1, <1>3, <1>6, <2>1
  <2> QED
    BY <1>6, <2>2
<1>7. ASSUME NEW T \in SUBSET DOMAIN H, T # {} PROVE \E m \in T : H[m] \cap T = {}
  BY <1>1, <1>7
<1>8. Forest(H, E \ {e})
  <2>1. \A m, n \in DOMAIN H : H[m] \cap H[n] # {} => m = n
    BY <1>1
  <2>2. \A n \in DOMAIN H : H[n] \cap (E \ {e}) = {}
    BY <1>1
  <2> QED
    BY <1>4, <1>5, <1>6, <1>7, <2>1, <2>2 DEF Forest
<1>9. ASSUME NEW p \in DOMAIN H PROVE Reach(G, p) \subseteq Reach(H, p)
  <2>1. ASSUME NEW n \in Reach(G, p), NEW S \in SUBSET DOMAIN H, p \in S, ClosedUnder(H, S)
        PROVE  n \in S
    <3>1. ClosedUnder(G, S) /\ S \in SUBSET DOMAIN G
      BY <2>1 DEF ClosedUnder
    <3> QED
      BY <2>1, <3>1 DEF Reach
  <2>2. Reach(G, p) \subseteq DOMAIN H
    BY <1>1, <1>2, <1>9, ReachClosed
  <2> QED
    BY <2>1, <2>2 DEF Reach
<1> QED
  BY <1>8, <1>9

-----------------------------------------------------------------------------
(* Heaps.  An item's successors are its next sibling and its first child.  *)

Edges(h) == [n \in DOMAIN h |-> {h[n].next, h[n].child} \ {Null}]
Leads(h, p) == Reach(Edges(h), p)

\* The item that an append to some finished list would go behind.
IsTail(h, t) == \E q \in DOMAIN h : h[q].child # Null /\ h[h[q].child].prev = t

\* Of every list that has a parent the head knows the tail, no two lists share
\* it, and what an item's prev points to is in front of it or further on.
Linked(h) ==
  /\ \A n \in DOMAIN h : h[n].next # Null => h[h[n].next].prev = n
  /\ \A n \in DOMAIN h : h[n].child # Null =>
       LET tail == h[h[n].child].prev
       IN  tail \in Leads(h, h[n].child) /\ h[tail].next = Null
  /\ \A n \in DOMAIN h : h[n].prev # Null =>
       h[h[n].prev].next = n \/ h[n].prev \in Leads(h, n)
  /\ \A m, n \in DOMAIN h :
       h[m].child # Null /\ h[n].child # Null /\ h[h[m].child].prev = h[h[n].child].prev
         => m = n

Pointers(h) ==
  \A n \in DOMAIN h :
    /\ h[n].child \in DOMAIN h \cup {Null} /\ h[n].prev \in DOMAIN h \cup {Null}
    /\ h[n].next \in DOMAIN h \cup {Null}

\* A heap whose trees have the roots E.
Heap(h, E) ==
  /\ IsFiniteSet(DOMAIN h) /\ DOMAIN h \subseteq Nat \ {Null}
  /\ Pointers(h) /\ Forest(Edges(h), E) /\ Linked(h)

LEMMA EdgesOf ==
  ASSUME NEW h, Pointers(h)
  PROVE  /\ DOMAIN Edges(h) = DOMAIN h
         /\ \A n \in DOMAIN h : Edges(h)[n] = {h[n].next, h[n].child} \ {Null}
         /\ \A n \in DOMAIN h : Edges(h)[n] \subseteq DOMAIN h
BY DEF Edges, Pointers

\* What every item leads to.
LEMMA LeadsOf ==
  ASSUME NEW h, Pointers(h), NEW p \in DOMAIN h
  PROVE  /\ p \in Leads(h, p) /\ Leads(h, p) \subseteq DOMAIN h
         /\ \A n \in Leads(h, p) :
              /\ h[n].next # Null => h[n].next \in Leads(h, p)
              /\ h[n].child # Null => h[n].child \in Leads(h, p)
<1>1. /\ p \in Leads(h, p) /\ Leads(h, p) \subseteq DOMAIN h
      /\ ClosedUnder(Edges(h), Leads(h, p))
  BY EdgesOf, ReachClosed DEF Leads
<1>2. ASSUME NEW n \in Leads(h, p)
      PROVE  Edges(h)[n] = {h[n].next, h[n].child} \ {Null}
  BY <1>1, EdgesOf
<1> QED
  BY <1>1, <1>2 DEF ClosedUnder

\* Nothing points to the root of a tree, and no other item leads into its tree.
LEMMA RootApart ==
  ASSUME NEW h, NEW E, Heap(h, E), NEW e \in E
  PROVE  /\ e \in DOMAIN h
         /\ \A n \in DOMAIN h : h[n].next # e /\ h[n].child # e
         /\ \A p \in DOMAIN h : e \in Leads(h, p) => p = e
         /\ \A p \in DOMAIN h \ Leads(h, e) :
              /\ Leads(h, p) \cap Leads(h, e) = {}
              /\ h[p].next \notin Leads(h, e) /\ h[p].child \notin Leads(h, e)
<1>1. Pointers(h) /\ Forest(Edges(h), E) /\ DOMAIN Edges(h) = DOMAIN h /\ Null \notin DOMAIN h
  BY EdgesOf DEF Heap
<1>2. e \in DOMAIN h /\ \A n \in DOMAIN h : e \notin Edges(h)[n]
  BY <1>1 DEF Forest
<1>3. \A n \in DOMAIN h : h[n].next # e /\ h[n].child # e
  BY <1>1, <1>2, EdgesOf
<1>4. \A p \in DOMAIN h : e \in Leads(h, p) => p = e
  BY <1>1, <1>2, EntryApart DEF Leads
<1>5. ASSUME NEW p \in DOMAIN h \ Leads(h, e) PROVE Leads(h, p) \cap Leads(h, e) = {}
  BY <1>1, <1>2, EntryApart DEF Leads
<1>6. ASSUME NEW p \in DOMAIN h \ Leads(h, e)
      PROVE  h[p].next \notin Leads(h, e) /\ h[p].child \notin Leads(h, e)
  <2>1. Null \notin Leads(h, e) /\ p \in Leads(h, p)
    BY <1>1, <1>2, LeadsOf
  <2> QED
    BY <1>1, <1>5, <2>1, LeadsOf
<1> QED
  BY <1>2, <1>3, <1>4, <1>5, <1>6

\* Two trees have nothing in common.
LEMMA TreesApart ==
  ASSUME NEW h, NEW E, Heap(h, E), NEW e \in E, NEW f \in E, e # f
  PROVE  Leads(h, e) \cap Leads(h, f) = {}
<1>1. e \in DOMAIN h /\ f \in DOMAIN h /\ e \notin Leads(h, f)
  BY RootApart
<1> QED
  BY <1>1, RootApart

\* What only the texts and types differ in is linked alike.
LEMMA SameLinks ==
  ASSUME NEW h, NEW E, Heap(h, E), NEW k, DOMAIN k = DOMAIN h,
         \A n \in DOMAIN h : /\ k[n].next = h[n].next /\ k[n].child = h[n].child
                             /\ k[n].prev = h[n].prev
  PROVE  /\ Heap(k, E) /\ \A p : Leads(k, p) = Leads(h, p)
         /\ \A t : IsTail(k, t) <=> IsTail(h, t)
<1>1. Pointers(h) /\ Linked(h)
  BY DEF Heap
<1>2. Edges(k) = Edges(h)
  BY DEF Edges
<1>3. \A p : Leads(k, p) = Leads(h, p)
  BY <1>2 DEF Leads
<1>4. Pointers(k)
  BY <1>1 DEF Pointers
<1>5. Linked(k)
  <2>1. \A n \in DOMAIN k : k[n].next # Null => k[k[n].next].prev = n
    BY <1>1 DEF Linked, Pointers
  <2>2. ASSUME NEW n \in DOMAIN k, k[n].child # Null
        PROVE  /\ k[k[n].child].prev \in Leads(k, k[n].child)
               /\ k[k[k[n].child].prev].next = Null
    <3>1. n \in DOMAIN h /\ h[n].child \in DOMAIN h /\ k[n].child = h[n].child
      BY <1>1, <2>2 DEF Pointers
    <3>2. /\ h[h[n].child].prev \in Leads(h, h[n].child)
          /\ h[h[h[n].child].prev].next = Null
      BY <1>1, <2>2, <3>1 DEF Linked
    <3>3. h[h[n].child].prev \in DOMAIN h
      BY <1>1, <3>1, <3>2, LeadsOf
    <3> QED
      BY <1>3, <3>1, <3>2, <3>3
  <2>3. \A n \in DOMAIN k : k[n].prev # Null =>
          k[k[n].prev].next = n \/ k[n].prev \in Leads(k, n)
    BY <1>1, <1>3 DEF Linked, Pointers
  <2>4. \A m, n \in DOMAIN k :
          k[m].child # Null /\ k[n].child # Null /\ k[k[m].child].prev = k[k[n].child].prev
            => m = n
    BY <1>1 DEF Linked, Pointers
  <2> QED
    BY <2>1, <2>2, <2>3, <2>4 DEF Linked
<1>6. \A t : IsTail(k, t) <=> IsTail(h, t)
  BY <1>1 DEF IsTail, Pointers
<1> QED
  BY <1>2, <1>3, <1>4, <1>5, <1>6 DEF Heap

\* A new item is the root of a tree of its own.
LEMMA NewItem ==
  ASSUME NEW h, NEW E, Heap(h, E), NEW x \in Nat \ {Null}, x \notin DOMAIN h,
         NEW k, DOMAIN k = DOMAIN h \cup {x}, \A n \in DOMAIN h : k[n] = h[n],
         k[x].next = Null, k[x].child = Null, k[x].prev = Null
  PROVE  /\ Heap(k, E \cup {x}) /\ Leads(k, x) = {x}
         /\ \A p \in DOMAIN h : Leads(h, p) \subseteq Leads(k, p)
         /\ \A t : IsTail(k, t) => IsTail(h, t)
<1>1. /\ IsFiniteSet(DOMAIN h) /\ DOMAIN h \subseteq Nat \ {Null}
      /\ Pointers(h) /\ Forest(Edges(h), E) /\ Linked(h)
  BY DEF Heap
<1>2. Pointers(k)
  BY <1>1 DEF Pointers
<1>3. Planted(Edges(h), x, Edges(k))
  BY DEF Edges, Planted
<1>4. /\ Forest(Edges(k), E \cup {x}) /\ Leads(k, x) = {x}
      /\ \A p \in DOMAIN h : Leads(h, p) \subseteq Leads(k, p)
  BY <1>1, <1>3, PlantForest, EdgesOf DEF Leads
<1>5. \A t : IsTail(k, t) => IsTail(h, t)
  BY <1>1 DEF IsTail, Pointers
<1>6. Linked(k)
  <2>1. \A n \in DOMAIN k : k[n].next # Null => k[k[n].next].prev = n
    BY <1>1 DEF Linked, Pointers
  <2>2. ASSUME NEW n \in DOMAIN k, k[n].child # Null
        PROVE  /\ k[k[n].child].prev \in Leads(k, k[n].child)
               /\ k[k[k[n].child].prev].next = Null
    <3>1. n \in DOMAIN h /\ h[n].child \in DOMAIN h /\ k[n].child = h[n].child
      BY <1>1, <2>2 DEF Pointers
    <3>2. /\ h[h[n].child].prev \in Leads(h, h[n].child)
          /\ h[h[h[n].child].prev].next = Null
      BY <1>1, <2>2, <3>1 DEF Linked
    <3>3. h[h[n].child].prev \in DOMAIN h
      BY <1>1, <3>1, <3>2, LeadsOf
    <3> QED
      BY <1>4, <3>1, <3>2, <3>3
  <2>3. \A n \in DOMAIN k : k[n].prev # Null =>
          k[k[n].prev].next = n \/ k[n].prev \in Leads(k, n)
    BY <1>1, <1>4 DEF Linked, Pointers
  <2>4. \A m, n \in DOMAIN k :
          k[m].child # Null /\ k[n].child # Null /\ k[k[m].child].prev = k[k[n].child].prev
            => m = n
    BY <1>1 DEF Linked, Pointers
  <2> QED
    BY <2>1, <2>2, <2>3, <2>4 DEF Linked
<1>7. IsFiniteSet(DOMAIN k)
  BY <1>1, FS_AddElement
<1> QED
  BY <1>1, <1>2, <1>4, <1>5, <1>6, <1>7 DEF Heap

\* k is h with y behind x: of a list whose tail was x, the head points to y.
Behind(h, x, y, k) ==
  /\ DOMAIN k = DOMAIN h
  /\ \A n \in DOMAIN h :
       /\ k[n].next = IF n = x THEN y ELSE h[n].next
       /\ k[n].child = h[n].child
       /\ k[n].prev = IF n = y THEN x
                      ELSE IF h[n].prev = x /\ \E q \in DOMAIN h : h[q].child = n THEN y
                      ELSE h[n].prev

LEMMA AppendItem ==
  ASSUME NEW h, NEW E, Heap(h, E), NEW x \in DOMAIN h, NEW y \in E, x \notin Leads(h, y),
         h[x].next = Null, h[y].next = Null, NEW k, Behind(h, x, y, k)
  PROVE  /\ Heap(k, E \ {y})
         /\ \A p \in DOMAIN h : Leads(h, p) \subseteq Leads(k, p)
         /\ \A p \in DOMAIN h : x \in Leads(h, p) => y \in Leads(k, p)
         /\ \A t : IsTail(k, t) => IsTail(h, t) \/ (t = y /\ IsTail(h, x))
<1>1. /\ IsFiniteSet(DOMAIN h) /\ DOMAIN h \subseteq Nat \ {Null}
      /\ Pointers(h) /\ Forest(Edges(h), E) /\ Linked(h)
  BY DEF Heap
<1>2. /\ y \in DOMAIN h /\ x # y
      /\ \A n \in DOMAIN h : h[n].next # y /\ h[n].child # y
      /\ \A p \in DOMAIN h : y \in Leads(h, p) => p = y
  BY <1>1, RootApart, LeadsOf
<1>. USE DEF Behind
<1>3. Pointers(k)
  BY <1>1, <1>2 DEF Pointers
<1>4. Joined(Edges(h), x, y, Edges(k))
  BY <1>1, <1>2 DEF Joined, Edges
<1>5. /\ Forest(Edges(k), E \ {y})
      /\ \A p \in DOMAIN h : Leads(h, p) \subseteq Leads(k, p)
      /\ \A p \in DOMAIN h : x \in Leads(h, p) => y \in Leads(k, p)
  <2> DEFINE G == Edges(h)
             F == Edges(k)
  <2>1. DOMAIN G = DOMAIN h /\ x \in DOMAIN G /\ x \notin Reach(G, y)
    BY <1>1, EdgesOf DEF Leads
  <2>2. Forest(G, E) /\ Joined(G, x, y, F)
    BY <1>1, <1>4
  <2> HIDE DEF G, F
  <2>3. /\ Forest(F, E \ {y})
        /\ \A p \in DOMAIN G : Reach(G, p) \subseteq Reach(F, p)
        /\ \A p \in DOMAIN G : x \in Reach(G, p) => y \in Reach(F, p)
    BY <2>1, <2>2, JoinForest
  <2> QED
    BY <2>1, <2>3 DEF Leads, G, F
\* The tail of a finished list: y, if it was x.
<1>6. ASSUME NEW q \in DOMAIN h, h[q].child # Null
      PROVE  /\ h[q].child \in DOMAIN h /\ h[q].child # y
             /\ h[h[q].child].prev \in Leads(h, h[q].child)
             /\ h[h[q].child].prev \in DOMAIN h /\ h[h[q].child].prev # y
             /\ h[h[h[q].child].prev].next = Null
             /\ k[h[q].child].prev = IF h[h[q].child].prev = x THEN y ELSE h[h[q].child].prev
  <2>1. h[q].child \in DOMAIN h /\ h[q].child # y
    BY <1>1, <1>2, <1>6 DEF Pointers
  <2>2. /\ h[h[q].child].prev \in Leads(h, h[q].child)
        /\ h[h[h[q].child].prev].next = Null
    BY <1>1, <1>6 DEF Linked
  <2>3. h[h[q].child].prev \in DOMAIN h
    BY <1>1, <2>1, <2>2, LeadsOf
  <2>4. h[h[q].child].prev # y
    BY <1>2, <2>1, <2>2
  <2>5. k[h[q].child].prev = IF h[h[q].child].prev = x THEN y ELSE h[h[q].child].prev
    BY <2>1, <2>3
  <2> QED
    BY <2>1, <2>2, <2>3, <2>4, <2>5
<1>7. ASSUME NEW t, IsTail(k, t)
      PROVE  IsTail(h, t) \/ (t = y /\ IsTail(h, x))
  BY <1>6, <1>7 DEF IsTail
<1>8. Linked(k)
  <2>1. ASSUME NEW n \in DOMAIN k, k[n].next # Null PROVE k[k[n].next].prev = n
    <3>1. CASE n = x
      BY <1>2, <3>1
    <3>2. CASE n # x
      <4>1. k[n].next = h[n].next /\ h[n].next \in DOMAIN h /\ h[n].next # y
        BY <1>1, <1>2, <2>1, <3>2 DEF Pointers
      <4>2. h[h[n].next].prev = n
        BY <1>1, <2>1, <4>1 DEF Linked
      <4> QED
        BY <3>2, <4>1, <4>2
    <3> QED
      BY <3>1, <3>2
  <2>2. ASSUME NEW n \in DOMAIN k, k[n].child # Null
        PROVE  /\ k[k[n].child].prev \in Leads(k, k[n].child)
               /\ k[k[k[n].child].prev].next = Null
    <3>1. n \in DOMAIN h /\ k[n].child = h[n].child /\ h[n].child # Null
      BY <2>2
    <3> QED
      BY <1>2, <1>5, <1>6, <3>1
  <2>3. ASSUME NEW n \in DOMAIN k, k[n].prev # Null
        PROVE  k[k[n].prev].next = n \/ k[n].prev \in Leads(k, n)
    <3>1. CASE n = y
      BY <3>1
    <3>2. CASE n # y /\ h[n].prev = x /\ \E q \in DOMAIN h : h[q].child = n
      <4>1. x \in Leads(h, n)
        BY <1>1, <1>6, <2>3, <3>2
      <4> QED
        BY <1>5, <2>3, <3>2, <4>1
    <3>3. CASE n # y /\ k[n].prev = h[n].prev
      <4>1. h[n].prev \in DOMAIN h /\ (h[h[n].prev].next = n \/ h[n].prev \in Leads(h, n))
        BY <1>1, <2>3, <3>3 DEF Linked, Pointers
      <4>2. n # Null
        BY <1>1, <2>3
      <4> QED
        BY <1>5, <2>3, <3>3, <4>1, <4>2
    <3> QED
      BY <2>3, <3>1, <3>2, <3>3
  <2>4. ASSUME NEW m \in DOMAIN k, NEW n \in DOMAIN k, k[m].child # Null, k[n].child # Null,
               k[k[m].child].prev = k[k[n].child].prev
        PROVE  m = n
    <3>1. h[h[m].child].prev = h[h[n].child].prev
      BY <1>6, <2>4
    <3> QED
      BY <1>1, <2>4, <3>1 DEF Linked
  <2> QED
    BY <2>1, <2>2, <2>3, <2>4 DEF Linked
<1> QED
  BY <1>1, <1>3, <1>5, <1>7, <1>8 DEF Heap

\* The list from y to t can be the children of x; k is h where it is, and of
\* the tails that it has only t is new.
NoOtherTail(h, k, t) == \A s : IsTail(k, s) => IsTail(h, s) \/ s = t
Finishes(h, E, x, y, t) ==
  /\ x \in DOMAIN h /\ y \in E /\ x \notin Leads(h, y) /\ h[x].child = Null
  /\ t \in Leads(h, y) /\ h[t].next = Null /\ ~IsTail(h, t)
Below(h, x, y, t, k) ==
  /\ DOMAIN k = DOMAIN h
  /\ \A n \in DOMAIN h :
       /\ k[n].next = h[n].next
       /\ k[n].child = IF n = x THEN y ELSE h[n].child
       /\ k[n].prev = IF n = y THEN t ELSE h[n].prev

LEMMA AdoptItems ==
  ASSUME NEW h, NEW E, Heap(h, E), NEW x, NEW y, NEW t, Finishes(h, E, x, y, t),
         NEW k, Below(h, x, y, t, k)
  PROVE  /\ Heap(k, E \ {y})
         /\ \A p \in DOMAIN h : Leads(h, p) \subseteq Leads(k, p)
         /\ \A p \in DOMAIN h : x \in Leads(h, p) => y \in Leads(k, p)
         /\ NoOtherTail(h, k, t)
<1>0. /\ x \in DOMAIN h /\ y \in E /\ x \notin Leads(h, y) /\ h[x].child = Null
      /\ t \in Leads(h, y) /\ h[t].next = Null /\ ~IsTail(h, t)
  BY DEF Finishes
<1>. USE <1>0
<1>1. /\ IsFiniteSet(DOMAIN h) /\ DOMAIN h \subseteq Nat \ {Null}
      /\ Pointers(h) /\ Forest(Edges(h), E) /\ Linked(h)
  BY DEF Heap
<1>2. /\ y \in DOMAIN h /\ x # y /\ t \in DOMAIN h
      /\ \A n \in DOMAIN h : h[n].next # y /\ h[n].child # y
  BY <1>1, RootApart, LeadsOf
<1>. USE DEF Below
<1>3. Pointers(k)
  BY <1>1, <1>2 DEF Pointers
<1>4. Joined(Edges(h), x, y, Edges(k))
  BY <1>1, <1>2 DEF Joined, Edges
<1>5. /\ Forest(Edges(k), E \ {y})
      /\ \A p \in DOMAIN h : Leads(h, p) \subseteq Leads(k, p)
      /\ \A p \in DOMAIN h : x \in Leads(h, p) => y \in Leads(k, p)
  BY <1>1, <1>4, JoinForest, EdgesOf DEF Leads
<1>6. ASSUME NEW q \in DOMAIN h, h[q].child # Null
      PROVE  /\ q # x /\ h[q].child \in DOMAIN h /\ h[q].child # y
             /\ h[h[q].child].prev \in Leads(h, h[q].child)
             /\ h[h[q].child].prev \in DOMAIN h /\ h[h[q].child].prev # t
             /\ h[h[h[q].child].prev].next = Null
             /\ k[h[q].child].prev = h[h[q].child].prev
  <2>1. q # x /\ h[q].child \in DOMAIN h /\ h[q].child # y
    BY <1>1, <1>2, <1>6 DEF Pointers
  <2>2. /\ h[h[q].child].prev \in Leads(h, h[q].child)
        /\ h[h[h[q].child].prev].next = Null
    BY <1>1, <1>6 DEF Linked
  <2>3. h[h[q].child].prev \in DOMAIN h
    BY <1>1, <2>1, <2>2, LeadsOf
  <2>4. h[h[q].child].prev # t
    BY <1>6 DEF IsTail
  <2> QED
    BY <2>1, <2>2, <2>3, <2>4
<1>7. ASSUME NEW s, IsTail(k, s) PROVE IsTail(h, s) \/ s = t
  BY <1>2, <1>6, <1>7 DEF IsTail
<1>8. Linked(k)
  <2>1. ASSUME NEW n \in DOMAIN k, k[n].next # Null PROVE k[k[n].next].prev = n
    <3>1. h[n].next \in DOMAIN h /\ h[n].next # y /\ h[h[n].next].prev = n
      BY <1>1, <1>2, <2>1 DEF Linked, Pointers
    <3> QED
      BY <2>1, <3>1
  <2>2. ASSUME NEW n \in DOMAIN k, k[n].child # Null
        PROVE  /\ k[k[n].child].prev \in Leads(k, k[n].child)
               /\ k[k[k[n].child].prev].next = Null
    <3>1. CASE n = x
      BY <1>2, <1>5, <3>1
    <3>2. CASE n # x
      BY <1>2, <1>5, <1>6, <2>2, <3>2
    <3> QED
      BY <3>1, <3>2
  <2>3. ASSUME NEW n \in DOMAIN k, k[n].prev # Null
        PROVE  k[k[n].prev].next = n \/ k[n].prev \in Leads(k, n)
    <3>1. CASE n = y
      BY <1>2, <1>5, <3>1
    <3>2. CASE n # y
      BY <1>1, <1>5, <2>3, <3>2 DEF Linked, Pointers
    <3> QED
      BY <3>1, <3>2
  <2>4. ASSUME NEW m \in DOMAIN k, NEW n \in DOMAIN k, k[m].child # Null, k[n].child # Null,
               k[k[m].child].prev = k[k[n].child].prev
        PROVE  m = n
    <3>1. CASE m = x \/ n = x
      BY <1>2, <1>6, <2>4, <3>1
    <3>2. CASE m # x /\ n # x
      BY <1>1, <1>6, <2>4, <3>2 DEF Linked
    <3> QED
      BY <3>1, <3>2
  <2> QED
    BY <2>1, <2>2, <2>3, <2>4 DEF Linked
<1> QED
  BY <1>1, <1>3, <1>5, <1>7, <1>8 DEF Heap, NoOtherTail

\* A tree is deleted; the others are left as they are.
LEMMA DeleteTree ==
  ASSUME NEW h, NEW E, Heap(h, E), NEW e \in E,
         NEW k, DOMAIN k = DOMAIN h \ Leads(h, e), \A n \in DOMAIN k : k[n] = h[n]
  PROVE  /\ Heap(k, E \ {e})
         /\ \A p \in DOMAIN k : Leads(h, p) \subseteq Leads(k, p)
         /\ \A t : IsTail(k, t) => IsTail(h, t)
<1>1. /\ IsFiniteSet(DOMAIN h) /\ DOMAIN h \subseteq Nat \ {Null}
      /\ Pointers(h) /\ Forest(Edges(h), E) /\ Linked(h)
  BY DEF Heap
<1>2. /\ e \in DOMAIN h
      /\ \A p \in DOMAIN k : /\ Leads(h, p) \cap Leads(h, e) = {}
                            /\ h[p].next \notin Leads(h, e) /\ h[p].child \notin Leads(h, e)
  BY RootApart
<1>3. /\ e \in Leads(h, e) /\ Leads(h, e) \subseteq DOMAIN h
      /\ \A n \in Leads(h, e) : h[n].next # Null => h[n].next \in Leads(h, e)
  BY <1>1, <1>2, LeadsOf
\* What a remaining item points to remains.
<1>4. ASSUME NEW p \in DOMAIN k
      PROVE  /\ h[p].next \in DOMAIN k \cup {Null} /\ h[p].child \in DOMAIN k \cup {Null}
             /\ h[p].prev \in DOMAIN k \cup {Null}
  <2>1. h[p].next \in DOMAIN k \cup {Null} /\ h[p].child \in DOMAIN k \cup {Null}
    BY <1>1, <1>2 DEF Pointers
  <2>2. ASSUME h[p].prev # Null PROVE h[p].prev \in DOMAIN k
    <3>1. h[p].prev \in DOMAIN h /\ p # Null
      BY <1>1, <2>2 DEF Pointers
    <3>2. CASE h[h[p].prev].next = p
      BY <1>3, <3>1, <3>2
    <3>3. CASE h[p].prev \in Leads(h, p)
      BY <1>2, <3>1, <3>3
    <3> QED
      BY <1>1, <2>2, <3>2, <3>3 DEF Linked
  <2> QED
    BY <2>1, <2>2
<1>5. Pointers(k)
  BY <1>4 DEF Pointers
<1>6. Felled(Edges(h), Reach(Edges(h), e), Edges(k))
  BY DEF Felled, Edges, Leads
<1>7. /\ Forest(Edges(k), E \ {e})
      /\ \A p \in DOMAIN k : Leads(h, p) \subseteq Leads(k, p)
  BY <1>1, <1>5, <1>6, FellForest, EdgesOf DEF Leads
<1>8. ASSUME NEW n \in DOMAIN k, k[n].child # Null
      PROVE  /\ k[n].child \in DOMAIN k /\ k[n].child = h[n].child
             /\ h[h[n].child].prev \in Leads(k, h[n].child)
             /\ h[h[n].child].prev \in DOMAIN k
             /\ h[h[h[n].child].prev].next = Null
  <2>1. k[n].child \in DOMAIN k /\ k[n].child = h[n].child
    BY <1>4, <1>8
  <2>2. /\ h[h[n].child].prev \in Leads(h, h[n].child)
        /\ h[h[h[n].child].prev].next = Null
    BY <1>1, <1>8, <2>1 DEF Linked
  <2>3. h[h[n].child].prev \in Leads(k, h[n].child)
    BY <1>7, <2>1, <2>2
  <2>4. Leads(k, h[n].child) \subseteq DOMAIN k
    BY <1>5, <2>1, LeadsOf
  <2> QED
    BY <2>1, <2>2, <2>3, <2>4
<1>9. Linked(k)
  <2>1. ASSUME NEW n \in DOMAIN k, k[n].next # Null PROVE k[k[n].next].prev = n
    BY <1>1, <1>4, <2>1 DEF Linked
  <2>2. ASSUME NEW n \in DOMAIN k, k[n].child # Null
        PROVE  /\ k[k[n].child].prev \in Leads(k, k[n].child)
               /\ k[k[k[n].child].prev].next = Null
    BY <1>8, <2>2
  <2>3. ASSUME NEW n \in DOMAIN k, k[n].prev # Null
        PROVE  k[k[n].prev].next = n \/ k[n].prev \in Leads(k, n)
    BY <1>1, <1>4, <1>7, <2>3 DEF Linked
  <2>4. ASSUME NEW m \in DOMAIN k, NEW n \in DOMAIN k, k[m].child # Null, k[n].child # Null,
               k[k[m].child].prev = k[k[n].child].prev
        PROVE  m = n
    BY <1>1, <1>8, <2>4 DEF Linked
  <2> QED
    BY <2>1, <2>2, <2>3, <2>4 DEF Linked
<1>10. ASSUME NEW t, IsTail(k, t) PROVE IsTail(h, t)
  BY <1>8, <1>10 DEF IsTail
<1>11. IsFiniteSet(DOMAIN k)
  BY <1>1, FS_Subset
<1> QED
  BY <1>1, <1>5, <1>7, <1>9, <1>10, <1>11 DEF Heap

\* A heap without a tree is empty.
LEMMA NoTree ==
  ASSUME NEW h, Heap(h, {})
  PROVE  DOMAIN h = {}
<1>1. Forest(Edges(h), {}) /\ DOMAIN Edges(h) = DOMAIN h
  BY EdgesOf DEF Heap
<1>2. {} \in SUBSET DOMAIN h /\ {} \subseteq {} /\ ClosedUnder(Edges(h), {})
  BY DEF ClosedUnder
<1> QED
  BY <1>1, <1>2 DEF Forest

LEMMA EmptyHeap ==
  ASSUME NEW h, DOMAIN h = {}
  PROVE  Heap(h, {})
<1>1. DOMAIN Edges(h) = {}
  BY DEF Edges
<1>2. Forest(Edges(h), {})
  BY <1>1 DEF Forest
<1>3. IsFiniteSet(DOMAIN h)
  BY FS_EmptySet
<1> QED
  BY <1>2, <1>3 DEF Heap, Pointers, Linked

-----------------------------------------------------------------------------
(* The operators of CJsonItems *)

\* cJSON_Delete's recursion is well-founded: it walks over p and all that p
\* leads to, and nothing else.
LEMMA OwnedLeads ==
  ASSUME NEW E, Heap(item, E)
  PROVE  /\ Owned(Null) = {}
         /\ \A p \in DOMAIN item : Owned(p) = Leads(item, p)
<1> DEFINE N == DOMAIN item \cup {Null}
           W(f) == [n \in N |->
                      IF n = Null THEN {} ELSE {n} \cup f[item[n].next] \cup f[item[n].child]]
           g == [n \in N |-> IF n = Null THEN {} ELSE Leads(item, n)]
           own == CHOOSE f : f = W(f)
<1>1. /\ Pointers(item) /\ Null \notin DOMAIN item /\ Forest(Edges(item), E)
      /\ DOMAIN Edges(item) = DOMAIN item
  BY EdgesOf DEF Heap
<1>2. ASSUME NEW n \in DOMAIN item
      PROVE  /\ item[n].next \in N /\ item[n].child \in N
             /\ g[n] = {n} \cup g[item[n].next] \cup g[item[n].child]
  <2>1. item[n].next \in N /\ item[n].child \in N
    BY <1>1 DEF Pointers
  <2>2. g[n] = Leads(item, n)
    BY <1>1
  <2>3. {n} \cup g[item[n].next] \cup g[item[n].child] \subseteq Leads(item, n)
    <3>1. n \in Leads(item, n)
      BY <1>1, LeadsOf
    <3>2. ASSUME NEW m \in {item[n].next, item[n].child}, m # Null
          PROVE  Leads(item, m) \subseteq Leads(item, n)
      <4>1. m \in Leads(item, n)
        BY <1>1, <3>1, <3>2, LeadsOf
      <4> QED
        BY <1>1, <4>1, ReachInside, EdgesOf DEF Leads
    <3> QED
      BY <2>1, <3>1, <3>2
  <2>4. Leads(item, n) \subseteq {n} \cup g[item[n].next] \cup g[item[n].child]
    <3> DEFINE S == {n} \cup g[item[n].next] \cup g[item[n].child]
    <3>1. \A m \in DOMAIN item : /\ m \in Leads(item, m) /\ Leads(item, m) \subseteq DOMAIN item
                                 /\ ClosedUnder(Edges(item), Leads(item, m))
      BY <1>1, ReachClosed, EdgesOf DEF Leads
    <3>2. S \in SUBSET DOMAIN item
      BY <2>1, <3>1
    <3>3. ASSUME NEW m \in S PROVE Edges(item)[m] \subseteq S
      <4>1. CASE m = n
        BY <1>1, <2>1, <3>1, <4>1, EdgesOf
      <4>2. CASE m \in g[item[n].next]
        BY <2>1, <3>1, <4>2 DEF ClosedUnder
      <4>3. CASE m \in g[item[n].child]
        BY <2>1, <3>1, <4>3 DEF ClosedUnder
      <4> QED
        BY <3>3, <4>1, <4>2, <4>3
    <3>4. n \in S /\ ClosedUnder(Edges(item), S)
      BY <3>3 DEF ClosedUnder
    <3> HIDE DEF S
    <3>5. Leads(item, n) \subseteq S
      BY <1>1, <3>2, <3>4, ReachClosed, EdgesOf DEF Leads
    <3> QED
      BY <3>5 DEF S
  <2> QED
    BY <2>1, <2>2, <2>3, <2>4
<1>3. g = W(g)
  <2>1. \A n \in N : g[n] = W(g)[n]
    BY <1>1, <1>2
  <2>2. g = [n \in N |-> g[n]] /\ W(g) = [n \in N |-> W(g)[n]]
    OBVIOUS
  <2> QED
    BY <2>1, <2>2
<1>4. own = W(own)
  BY <1>3
<1>5. \A p : Owned(p) = own[p]
  BY DEF Owned
<1>6. own[Null] = {}
  BY <1>4
<1>7. ASSUME NEW n \in DOMAIN item
      PROVE  own[n] = {n} \cup own[item[n].next] \cup own[item[n].child]
  BY <1>1, <1>4
<1>. HIDE DEF own, g
<1>8. ASSUME NEW p \in DOMAIN item, own[p] # g[p] PROVE FALSE
  <2> DEFINE T == {n \in DOMAIN item : own[n] # g[n]}
  <2>1. PICK m \in T : Edges(item)[m] \cap T = {}
    BY <1>1, <1>8 DEF Forest
  <2>2. \A q \in {item[m].next, item[m].child} : own[q] = g[q]
    <3>1. g[Null] = {}
      BY DEF g
    <3> QED
      BY <1>1, <1>6, <2>1, <3>1, EdgesOf
  <2>3. own[m] = g[m]
    <3>1. m \in DOMAIN item
      BY <2>1
    <3>2. own[m] = {m} \cup own[item[m].next] \cup own[item[m].child]
      BY <1>7, <3>1
    <3>3. g[m] = {m} \cup g[item[m].next] \cup g[item[m].child]
      BY <1>2, <3>1
    <3> QED
      BY <2>2, <3>2, <3>3, Zenon
  <2> QED
    BY <2>1, <2>3
<1> QED
  BY <1>1, <1>5, <1>6, <1>8 DEF g

\* There is always an address that is not in use.
LEMMA FreshAddress ==
  ASSUME NEW E, Heap(item, E)
  PROVE  Fresh \in Nat \ {Null} /\ Fresh \notin DOMAIN item
<1> DEFINE c == Cardinality(DOMAIN item)
<1>1. IsFiniteSet(DOMAIN item) /\ c \in Nat
  BY FS_CardinalityType DEF Heap
<1>2. \E n \in 1 .. c + 1 : n \notin DOMAIN item
  <2>1. SUFFICES ASSUME 1 .. c + 1 \subseteq DOMAIN item PROVE FALSE
    OBVIOUS
  <2>2. Cardinality(1 .. c + 1) = c + 1
    <3>1. 1 \in Int /\ c + 1 \in Int /\ ~(1 > c + 1) /\ (c + 1) - 1 + 1 = c + 1
      BY <1>1
    <3> HIDE DEF c
    <3> QED
      BY <3>1, FS_Interval
  <2>3. Cardinality(1 .. c + 1) <= c
    BY <1>1, <2>1, FS_Subset
  <2> QED
    BY <1>1, <2>2, <2>3
<1>3. Fresh \in 1 .. c + 1 /\ Fresh \notin DOMAIN item
  BY <1>2 DEF Fresh
<1> QED
  BY <1>1, <1>3 DEF Null

\* cJSON_GetObjectItem returns an item that exists, or none.
LEMMA LookupType ==
  ASSUME NEW E, Heap(item, E), NEW object \in DOMAIN item \cup {Null}, NEW name
  PROVE  GetObjectItem(object, name) \in DOMAIN item \cup {Null}
<1> DEFINE N == DOMAIN item \cup {Null}
           Here(n) == n = Null \/ SameName(name, item[n].string)
           W(f) == [n \in N |->
                      IF n = Null \/ SameName(name, item[n].string) THEN n
                      ELSE f[item[n].next]]
           find == CHOOSE f : f = W(f)
\* Where a search that begins at n may end.
           Along(S) == \A n \in S : ~Here(n) => item[n].next \in S
           Found(n) == {m \in N : Here(m) /\ \A S \in SUBSET N : n \in S /\ Along(S) => m \in S}
           g == [n \in N |-> CHOOSE m : m \in Found(n)]
<1>1. /\ Pointers(item) /\ Null \notin DOMAIN item /\ Forest(Edges(item), E)
      /\ DOMAIN Edges(item) = DOMAIN item
  BY EdgesOf DEF Heap
<1>2. \A n \in DOMAIN item : item[n].next \in N
  BY <1>1 DEF Pointers
<1>3. ASSUME NEW n \in N, Here(n) PROVE g[n] = n
  <2>1. {n} \in SUBSET N /\ Along({n})
    BY <1>3
  <2>2. Found(n) = {n}
    <3>1. n \in Found(n)
      BY <1>3
    <3>2. \A m \in Found(n) : m \in {n}
      BY <2>1
    <3> QED
      BY <3>1, <3>2
  <2> QED
    BY <2>2
<1>4. ASSUME NEW n \in N, ~Here(n) PROVE g[n] = g[item[n].next]
  <2>1. n \in DOMAIN item /\ item[n].next \in N
    BY <1>2, <1>4
  <2>2. ASSUME NEW S \in SUBSET N, n \in S, Along(S) PROVE item[n].next \in S
    BY <1>4, <2>2
  <2>3. ASSUME NEW S \in SUBSET N, item[n].next \in S, Along(S)
        PROVE  S \cup {n} \in SUBSET N /\ Along(S \cup {n})
    BY <2>1, <2>3
  <2>4. Found(n) \subseteq Found(item[n].next)
    <3>1. SUFFICES ASSUME NEW m \in Found(n), NEW S \in SUBSET N,
                          item[n].next \in S, Along(S)
                   PROVE  m \in S
      OBVIOUS
    <3>2. m \in S \cup {n}
      BY <2>3, <3>1
    <3>3. m # n
      BY <1>4, <3>1
    <3> QED
      BY <3>2, <3>3
  <2>5. Found(item[n].next) \subseteq Found(n)
    BY <2>2
  <2>6. Found(n) = Found(item[n].next)
    BY <2>4, <2>5
  <2> HIDE DEF Found
  <2> QED
    BY <2>1, <2>6
<1>. HIDE DEF Found, Along
<1>5. g = W(g)
  <2>1. g = [n \in N |-> g[n]] /\ W(g) = [n \in N |-> W(g)[n]]
    OBVIOUS
  <2>. HIDE DEF g
  <2>2. ASSUME NEW n \in N PROVE g[n] = W(g)[n]
    <3>1. W(g)[n] = IF Here(n) THEN n ELSE g[item[n].next]
      OBVIOUS
    <3>. HIDE DEF Here, W
    <3> QED
      BY <1>3, <1>4, <3>1
  <2> QED
    BY <2>1, <2>2
<1>6. find = W(find)
  BY <1>5
<1>7. \A n \in N : find[n] = IF Here(n) THEN n ELSE find[item[n].next]
  BY <1>6
<1>. HIDE DEF find, g
<1>8. ASSUME NEW p \in DOMAIN item, find[p] \notin N PROVE FALSE
  <2> DEFINE T == {n \in DOMAIN item : find[n] \notin N}
  <2>1. PICK m \in T : Edges(item)[m] \cap T = {}
    BY <1>1, <1>8 DEF Forest
  <2>2. ~Here(m) /\ find[m] = find[item[m].next] /\ m \in DOMAIN item
    BY <1>7, <2>1
  <2>3. item[m].next \in N /\ item[m].next \notin T
    BY <1>1, <1>2, <1>7, <2>1, <2>2, EdgesOf
  <2> QED
    BY <1>7, <2>1, <2>2, <2>3
<1>9. \A n \in N : find[n] \in N
  BY <1>7, <1>8
<1>10. GetObjectItem(object, name) = IF object = Null THEN Null ELSE find[item[object].child]
  BY DEF GetObjectItem, find
<1>11. object # Null => item[object].child \in N
  BY <1>1 DEF Pointers
<1> QED
  BY <1>9, <1>10, <1>11

-----------------------------------------------------------------------------
(* Strings *)

StringsIn(h, S) ==
  Cardinality({n \in S : h[n].valuestring # NoString})
    + Cardinality({n \in S : h[n].string # NoString})

LEMMA StringsType ==
  ASSUME NEW h, NEW S, IsFiniteSet(S)
  PROVE  StringsIn(h, S) \in Nat
<1> DEFINE A == {n \in S : h[n].valuestring # NoString}
           B == {n \in S : h[n].string # NoString}
<1>1. A \subseteq S /\ B \subseteq S
  OBVIOUS
<1>2. Cardinality(A) \in Nat /\ Cardinality(B) \in Nat
  BY <1>1, FS_Subset, FS_CardinalityType
<1> QED
  BY <1>2 DEF StringsIn

\* Items that own the same strings.
LEMMA SameStrings ==
  ASSUME NEW h, NEW k, NEW S,
         \A n \in S : k[n].valuestring = h[n].valuestring /\ k[n].string = h[n].string
  PROVE  StringsIn(k, S) = StringsIn(h, S)
<1>1. /\ {n \in S : k[n].valuestring # NoString} = {n \in S : h[n].valuestring # NoString}
      /\ {n \in S : k[n].string # NoString} = {n \in S : h[n].string # NoString}
  OBVIOUS
<1> QED
  BY <1>1 DEF StringsIn

LEMMA TogetherCounted ==
  ASSUME NEW A, NEW B, IsFiniteSet(A), IsFiniteSet(B), A \cap B = {}
  PROVE  Cardinality(A \cup B) = Cardinality(A) + Cardinality(B)
<1>1. Cardinality(A) \in Nat /\ Cardinality(B) \in Nat /\ Cardinality(A \cap B) = 0
  BY FS_CardinalityType, FS_EmptySet
<1>2. Cardinality(A \cup B) = Cardinality(A) + Cardinality(B) - Cardinality(A \cap B)
  BY FS_Union, Zenon
<1> QED
  BY <1>1, <1>2

\* The items of two sets together.
LEMMA StringsUnion ==
  ASSUME NEW h, NEW S, IsFiniteSet(S), NEW R \in SUBSET S
  PROVE  StringsIn(h, S) = StringsIn(h, S \ R) + StringsIn(h, R)
<1> DEFINE V(X) == {n \in X : h[n].valuestring # NoString}
           K(X) == {n \in X : h[n].string # NoString}
<1>1. /\ V(S) = V(S \ R) \cup V(R) /\ V(S \ R) \cap V(R) = {}
      /\ K(S) = K(S \ R) \cup K(R) /\ K(S \ R) \cap K(R) = {}
  OBVIOUS
<1>2. /\ IsFiniteSet(V(S \ R)) /\ IsFiniteSet(V(R)) /\ IsFiniteSet(K(S \ R))
      /\ IsFiniteSet(K(R))
  BY FS_Subset
<1>3. /\ Cardinality(V(S)) = Cardinality(V(S \ R)) + Cardinality(V(R))
      /\ Cardinality(K(S)) = Cardinality(K(S \ R)) + Cardinality(K(R))
  BY <1>1, <1>2, TogetherCounted
<1>4. /\ Cardinality(V(S \ R)) \in Nat /\ Cardinality(V(R)) \in Nat
      /\ Cardinality(K(S \ R)) \in Nat /\ Cardinality(K(R)) \in Nat
  BY <1>2, FS_CardinalityType
<1>5. \A X : StringsIn(h, X) = Cardinality(V(X)) + Cardinality(K(X))
  BY DEF StringsIn
<1> HIDE DEF V, K
<1> QED
  BY <1>3, <1>4, <1>5

\* One item more owns a value, or a key.
LEMMA ValueAdded ==
  ASSUME NEW h, NEW k, NEW S, IsFiniteSet(S), NEW x \in S,
         h[x].valuestring = NoString, k[x].valuestring # NoString,
         \A n \in S \ {x} : k[n].valuestring = h[n].valuestring,
         \A n \in S : k[n].string = h[n].string
  PROVE  StringsIn(k, S) = StringsIn(h, S) + 1
<1> DEFINE A == {n \in S : h[n].valuestring # NoString}
           B == {n \in S : h[n].string # NoString}
<1>1. /\ {n \in S : k[n].valuestring # NoString} = A \cup {x} /\ x \notin A
      /\ {n \in S : k[n].string # NoString} = B
  OBVIOUS
<1>2. IsFiniteSet(A) /\ IsFiniteSet(B)
  BY FS_Subset
<1>3. Cardinality(A \cup {x}) = Cardinality(A) + 1
  BY <1>1, <1>2, FS_AddElement
<1>4. Cardinality(A) \in Nat /\ Cardinality(B) \in Nat
  BY <1>2, FS_CardinalityType
<1>5. StringsIn(k, S) = Cardinality(A \cup {x}) + Cardinality(B)
  BY <1>1 DEF StringsIn
<1>6. StringsIn(h, S) = Cardinality(A) + Cardinality(B)
  BY DEF StringsIn
<1> HIDE DEF A, B
<1> QED
  BY <1>3, <1>4, <1>5, <1>6

LEMMA KeyAdded ==
  ASSUME NEW h, NEW k, NEW S, IsFiniteSet(S), NEW x \in S,
         h[x].string = NoString, k[x].string # NoString,
         \A n \in S \ {x} : k[n].string = h[n].string,
         \A n \in S : k[n].valuestring = h[n].valuestring
  PROVE  StringsIn(k, S) = StringsIn(h, S) + 1
<1> DEFINE A == {n \in S : h[n].valuestring # NoString}
           B == {n \in S : h[n].string # NoString}
<1>1. /\ {n \in S : k[n].string # NoString} = B \cup {x} /\ x \notin B
      /\ {n \in S : k[n].valuestring # NoString} = A
  OBVIOUS
<1>2. IsFiniteSet(A) /\ IsFiniteSet(B)
  BY FS_Subset
<1>3. Cardinality(B \cup {x}) = Cardinality(B) + 1
  BY <1>1, <1>2, FS_AddElement
<1>4. Cardinality(A) \in Nat /\ Cardinality(B) \in Nat
  BY <1>2, FS_CardinalityType
<1>5. StringsIn(k, S) = Cardinality(A) + Cardinality(B \cup {x})
  BY <1>1 DEF StringsIn
<1>6. StringsIn(h, S) = Cardinality(A) + Cardinality(B)
  BY DEF StringsIn
<1> HIDE DEF A, B
<1> QED
  BY <1>3, <1>4, <1>5, <1>6

-----------------------------------------------------------------------------
(* Types *)

\* The symbols written in the modules.
Literals ==
  {"bad", NUL, Quote, Backslash, "bs", "ff", "lf", "cr", "tab", "A", "high", "pair", "b",
   "f", "n", "r", "t", "u", "/", "0", "1", "{", ":", ",", "}", "true", "false", "-", ".", "gateway_id", "device_id", "reg_code",
   "device_type", "status", "temp_x10", "temp_c", "ph_x100", "ph", "water_ok", "light",
   "heater", "pump", "ctrl_mode", "alarm_enable", "seq", "ts_ms", "cmd_id", "result",
   "message", "GW-1", "smart_reef_tank", "AUTO", "MANUAL", "success", "failed"}

\* What a text may consist of; the provers know of no literal that it is in
\* STRING, and of no numeral.  A word holds what is no text nowhere.
Symbols == STRING \cup Literals \cup {ToString(n) : n \in Int}
Words == Seq(Symbols \ {"bad"})

\* An item whose pointers stay in D.
ItemsOf(D) ==
  [type : Types, valuestring : Words \cup {NoString}, number : Seq(Symbols),
   string : Words \cup {NoString}, child : D \cup {Null}, prev : D \cup {Null},
   next : D \cup {Null}]
Typed(h) == h \in [DOMAIN h -> ItemsOf(DOMAIN h)]

LEMMA SubsetSeq ==
  ASSUME NEW S, NEW T, S \subseteq T
  PROVE  Seq(S) \subseteq Seq(T)
OBVIOUS

LEMMA SingleText ==
  ASSUME NEW S, NEW c
  PROVE  <<c>> \in Seq(S) <=> c \in S
<1>1. c \in S => <<c>> \in Seq(S)
  OBVIOUS
<1>2. ASSUME <<c>> \in Seq(S) PROVE c \in S
  <2>1. Len(<<c>>) = 1 /\ <<c>>[1] = c
    OBVIOUS
  <2> QED
    BY <1>2, <2>1
<1> QED
  BY <1>1, <1>2

LEMMA SymbolsOf ==
  /\ STRING \subseteq Symbols /\ Literals \subseteq Symbols
  /\ \A n \in Int : ToString(n) \in Symbols
<1>1. \A n \in Int : ToString(n) \in Symbols
  BY Zenon DEF Symbols
<1>2. STRING \subseteq Symbols /\ Literals \subseteq Symbols
  BY Zenon DEF Symbols
<1> QED
  BY <1>1, <1>2

LEMMA WordsTyped ==
  /\ Words \subseteq Seq(Symbols) /\ NoString \in Seq(Symbols) /\ NoString \notin Words
  /\ Texts \subseteq Words /\ Seq(STRING) \subseteq Seq(Symbols)
<1> DEFINE Ordinary == STRING \ {"bad"}
           Other == Symbols \ {"bad"}
<1>1. STRING \subseteq Symbols /\ "bad" \in Symbols
  BY SymbolsOf DEF Literals
<1> HIDE DEF Symbols
<1>2. Ordinary \subseteq Other /\ Other \subseteq Symbols /\ "bad" \notin Other
  BY <1>1
<1>3. Texts = Seq(Ordinary) /\ Words = Seq(Other) /\ NoString = <<"bad">>
  BY DEF Texts, Words, NoString
<1> HIDE DEF Ordinary, Other
<1>4. /\ Seq(Other) \subseteq Seq(Symbols) /\ Seq(Ordinary) \subseteq Seq(Other)
      /\ Seq(STRING) \subseteq Seq(Symbols)
  BY <1>1, <1>2, SubsetSeq
<1>5. <<"bad">> \in Seq(Symbols) /\ <<"bad">> \notin Seq(Other)
  BY <1>1, <1>2, SingleText
<1> QED
  BY <1>3, <1>4, <1>5

LEMMA FieldsTyped ==
  ASSUME NEW h, Typed(h), NEW n \in DOMAIN h
  PROVE  /\ h[n] \in ItemsOf(DOMAIN h)
         /\ h[n].type \in Types /\ h[n].number \in Seq(Symbols)
         /\ h[n].valuestring \in Words \cup {NoString} /\ h[n].string \in Words \cup {NoString}
         /\ h[n].child \in DOMAIN h \cup {Null} /\ h[n].prev \in DOMAIN h \cup {Null}
         /\ h[n].next \in DOMAIN h \cup {Null}
BY DEF Typed, ItemsOf

-----------------------------------------------------------------------------
(* Counting *)

\* Every nonempty set of natural numbers has a least element.
LEMMA Least ==
  ASSUME NEW T \in SUBSET Nat, T # {}
  PROVE  \E m \in T : \A n \in T : m <= n
<1>1. PICK m \in T : \A n \in T : ~(<<n, m>> \in OpToRel(<, Nat))
  BY NatLessThanWellFounded, WFMin
<1>2. \A n \in T : ~(n < m)
  BY <1>1 DEF OpToRel
<1>3. m \in T /\ m \in Nat /\ \A n \in T : n \in Nat /\ ~(n < m)
  BY <1>1, <1>2
<1>4. \A n \in T : m <= n
  BY <1>3
<1> QED
  BY <1>3, <1>4

LEMMA SubsetOfInterval ==
  ASSUME NEW a \in Int, NEW b \in Int, NEW T \in SUBSET (a .. b)
  PROVE  IsFiniteSet(T) /\ Cardinality(T) \in Nat
         /\ (a <= b + 1 => Cardinality(T) <= b - a + 1)
<1>1. IsFiniteSet(a .. b) /\ Cardinality(a .. b) = IF a > b THEN 0 ELSE b - a + 1
  BY FS_Interval, Zenon
<1>2. IsFiniteSet(T) /\ Cardinality(T) <= Cardinality(a .. b)
  BY <1>1, FS_Subset
<1>3. Cardinality(T) \in Nat
  BY <1>2, FS_CardinalityType
<1> QED
  BY <1>1, <1>2, <1>3

\* A C string is the beginning of its array, and a shorter one if that ends
\* with a NUL.
LEMMA CStringPart ==
  ASSUME NEW S, NEW w \in Seq(S)
  PROVE  /\ CString(w) \in Seq(S)
         /\ Len(CString(w)) \in Nat /\ Len(CString(w)) <= Len(w)
         /\ Len(w) > 0 /\ w[Len(w)] = NUL => Len(CString(w)) < Len(w)
<1> DEFINE plain == {i \in 1 .. Len(w) : \A j \in 1 .. i : w[j] # NUL}
<1>1. Len(w) \in Nat
  OBVIOUS
<1>2. Cardinality(plain) \in Nat /\ Cardinality(plain) <= Len(w)
  <2>1. plain \in SUBSET (1 .. Len(w)) /\ 1 \in Int /\ Len(w) \in Int /\ 1 <= Len(w) + 1
    BY <1>1
  <2>2. Cardinality(plain) \in Nat /\ Cardinality(plain) <= Len(w) - 1 + 1
    BY <2>1, SubsetOfInterval
  <2> QED
    BY <1>1, <2>2
<1>3. ASSUME Len(w) > 0, w[Len(w)] = NUL PROVE Cardinality(plain) < Len(w)
  <2>1. /\ plain \in SUBSET (1 .. Len(w) - 1) /\ 1 \in Int /\ Len(w) - 1 \in Int
        /\ 1 <= (Len(w) - 1) + 1
    BY <1>1, <1>3
  <2>2. Cardinality(plain) <= (Len(w) - 1) - 1 + 1
    BY <2>1, SubsetOfInterval
  <2> QED
    BY <1>1, <1>2, <2>2
<1>4. CString(w) = SubSeq(w, 1, Cardinality(plain))
  BY DEF CString
<1> HIDE DEF plain
<1>5. /\ Len(SubSeq(w, 1, Cardinality(plain))) = Cardinality(plain)
      /\ SubSeq(w, 1, Cardinality(plain)) \in Seq(S)
  BY <1>1, <1>2
<1> QED
  BY <1>2, <1>3, <1>4, <1>5

-----------------------------------------------------------------------------
(* What a call does to the items *)

\* The heap h with the trees E, of which c strings are allocated.
Sound(h, c, E) == Typed(h) /\ Heap(h, E) /\ c = StringsIn(h, DOMAIN h)

\* k is a heap; item with other texts in x; with n as the parent's last member; with one more element
\* behind x; with the list from y to t as the elements of x.
IsHeap(k) == k = [n \in DOMAIN k |-> k[n]]
Joins(parent, n, key, k) == k = [Appended(parent, n) EXCEPT ![n].string = key]
Continued(x, k) == k = [WithNew([Blank EXCEPT !.prev = x]) EXCEPT ![x].next = Fresh]
Filled(x, k) ==
  /\ DOMAIN k = DOMAIN item /\ IsHeap(k)
  /\ \A n \in DOMAIN item \ {x} : k[n] = item[n]
  /\ k[x] \in ItemsOf(DOMAIN item)
  /\ k[x].next = item[x].next /\ k[x].child = item[x].child /\ k[x].prev = item[x].prev
Finished(x, y, t, type, k) ==
  k = [item EXCEPT ![y].prev = t, ![x].type = type, ![x].child = y]

\* Items whose pointers stay in the heap have their types.
LEMMA Retyped ==
  ASSUME NEW h, NEW D, IsHeap(h), \A n \in DOMAIN h : h[n] \in ItemsOf(D),
         Pointers(h)
  PROVE  Typed(h)
<1>1. ASSUME NEW n \in DOMAIN h PROVE h[n] \in ItemsOf(DOMAIN h)
  BY <1>1 DEF Pointers, ItemsOf
<1> QED
  BY <1>1 DEF Typed, IsHeap

LEMMA LoneItem ==
  ASSUME NEW h, Pointers(h), NEW n \in DOMAIN h, h[n].next = Null, h[n].child = Null
  PROVE  Leads(h, n) = {n}
<1>1. {n} \in SUBSET DOMAIN Edges(h) /\ n \in {n} /\ ClosedUnder(Edges(h), {n})
  BY EdgesOf DEF ClosedUnder
<1>2. /\ n \in Reach(Edges(h), n)
      /\ \A S \in SUBSET DOMAIN Edges(h) :
           n \in S /\ ClosedUnder(Edges(h), S) => Reach(Edges(h), n) \subseteq S
  BY EdgesOf, ReachClosed
<1> QED
  BY <1>1, <1>2 DEF Leads

\* The root of a tree is nobody's tail.
LEMMA RootNoTail ==
  ASSUME NEW h, NEW E, Heap(h, E), NEW e \in E
  PROVE  ~IsTail(h, e)
<1>1. SUFFICES ASSUME NEW q \in DOMAIN h, h[q].child # Null, h[h[q].child].prev = e
               PROVE  FALSE
  BY DEF IsTail
<1>2. h[q].child \in DOMAIN h /\ e \in Leads(h, h[q].child)
  BY <1>1 DEF Heap, Pointers, Linked
<1> QED
  BY <1>1, <1>2, RootApart

\* cJSON_New_Item
LEMMA CreateItem ==
  ASSUME NEW c, NEW E, Sound(item, c, E), NEW new \in ItemsOf(DOMAIN item),
         new.next = Null, new.child = Null, new.prev = Null,
         new.valuestring = NoString, new.string = NoString, NEW k, k = WithNew(new)
  PROVE  /\ Sound(k, c, E \cup {Fresh})
         /\ Fresh \in Nat \ {Null} /\ Fresh \notin DOMAIN item
         /\ DOMAIN k = DOMAIN item \cup {Fresh} /\ k[Fresh] = new
         /\ \A n \in DOMAIN item : k[n] = item[n]
         /\ Leads(k, Fresh) = {Fresh} /\ \A p \in DOMAIN item : Leads(item, p) \subseteq Leads(k, p)
         /\ \A t : IsTail(k, t) => IsTail(item, t)
<1>1. Typed(item) /\ Heap(item, E) /\ c = StringsIn(item, DOMAIN item)
  BY DEF Sound
<1>2. Fresh \in Nat \ {Null} /\ Fresh \notin DOMAIN item
  BY <1>1, FreshAddress
<1>3. /\ DOMAIN k = DOMAIN item \cup {Fresh} /\ k[Fresh] = new
      /\ \A n \in DOMAIN item : k[n] = item[n]
      /\ IsHeap(k)
  BY <1>2 DEF WithNew, IsHeap
<1> HIDE DEF Fresh
<1>4. /\ Heap(k, E \cup {Fresh}) /\ Leads(k, Fresh) = {Fresh}
      /\ \A p \in DOMAIN item : Leads(item, p) \subseteq Leads(k, p)
      /\ \A t : IsTail(k, t) => IsTail(item, t)
  <2>1. k[Fresh].next = Null /\ k[Fresh].child = Null /\ k[Fresh].prev = Null
    BY <1>3
  <2> QED
    BY <1>1, <1>2, <1>3, <2>1, NewItem
<1>5. Typed(k)
  <2>1. \A n \in DOMAIN k : k[n] \in ItemsOf(DOMAIN item)
    BY <1>1, <1>3, FieldsTyped
  <2> QED
    BY <1>3, <1>4, <2>1, Retyped DEF Heap
<1>6. StringsIn(k, DOMAIN k) = c
  <2>1. /\ {n \in DOMAIN k : k[n].valuestring # NoString}
             = {n \in DOMAIN item : item[n].valuestring # NoString}
        /\ {n \in DOMAIN k : k[n].string # NoString}
             = {n \in DOMAIN item : item[n].string # NoString}
    BY <1>3
  <2> QED
    BY <1>1, <2>1 DEF StringsIn
<1> QED
  BY <1>2, <1>3, <1>4, <1>5, <1>6 DEF Sound

\* cJSON_Delete
LEMMA DeleteItems ==
  ASSUME NEW E, Sound(item, strings, E), NEW e \in E \cup {Null}, Delete(e)
  PROVE  /\ Sound(item', strings', E \ {e})
         /\ DOMAIN item' = DOMAIN item \ (IF e = Null THEN {} ELSE Leads(item, e))
         /\ \A n \in DOMAIN item' : item'[n] = item[n]
         /\ \A f \in E \ {e} : f \in DOMAIN item' /\ Leads(item, f) \subseteq DOMAIN item'
         /\ \A p \in DOMAIN item' : Leads(item, p) \subseteq Leads(item', p)
         /\ \A t : IsTail(item', t) => IsTail(item, t)
         /\ E \ {e} = {} => item' = <<>> /\ strings' = 0
<1> DEFINE R == Owned(e)
<1>1. /\ Typed(item) /\ Heap(item, E) /\ strings = StringsIn(item, DOMAIN item)
      /\ Pointers(item) /\ IsFiniteSet(DOMAIN item) /\ Null \notin DOMAIN item
      /\ E \subseteq DOMAIN item
  BY EdgesOf DEF Sound, Heap, Forest
<1>2. R = IF e = Null THEN {} ELSE Leads(item, e)
  BY <1>1, OwnedLeads
<1>3. R \subseteq DOMAIN item
  BY <1>1, <1>2, LeadsOf
<1>4. /\ DOMAIN item' = DOMAIN item \ R /\ \A n \in DOMAIN item' : item'[n] = item[n]
      /\ IsHeap(item') /\ item' = [n \in DOMAIN item \ R |-> item[n]]
      /\ strings' = strings - StringsIn(item, R)
  BY <1>3 DEF Delete, Restrict, StringsOf, StringsIn, IsHeap
<1> HIDE DEF R
<1>5. /\ Heap(item', E \ {e})
      /\ \A p \in DOMAIN item' : Leads(item, p) \subseteq Leads(item', p)
      /\ \A t : IsTail(item', t) => IsTail(item, t)
  <2>1. CASE e = Null
    <3>1. E \ {e} = E /\ DOMAIN item' = DOMAIN item
      BY <1>1, <1>2, <1>4, <2>1
    <3> DEFINE k == item'
    <3>2. /\ DOMAIN k = DOMAIN item
          /\ \A n \in DOMAIN item : /\ k[n].next = item[n].next /\ k[n].child = item[n].child
                                   /\ k[n].prev = item[n].prev
      BY <1>4, <3>1
    <3> HIDE DEF k
    <3>3. /\ Heap(k, E) /\ \A p : Leads(k, p) = Leads(item, p)
          /\ \A t : IsTail(k, t) <=> IsTail(item, t)
      BY <1>1, <3>2, SameLinks
    <3> QED
      BY <3>1, <3>3 DEF k
  <2>2. CASE e # Null
    <3> DEFINE k == item'
    <3>1. e \in E /\ DOMAIN k = DOMAIN item \ Leads(item, e) /\ \A n \in DOMAIN k : k[n] = item[n]
      BY <1>2, <1>4, <2>2
    <3> HIDE DEF k
    <3>2. /\ Heap(k, E \ {e})
          /\ \A p \in DOMAIN k : Leads(item, p) \subseteq Leads(k, p)
          /\ \A t : IsTail(k, t) => IsTail(item, t)
      BY <1>1, <3>1, DeleteTree
    <3> QED
      BY <3>2 DEF k
  <2> QED
    BY <2>1, <2>2
<1>6. ASSUME NEW f \in E \ {e} PROVE f \in DOMAIN item' /\ Leads(item, f) \subseteq DOMAIN item'
  <2>1. f \in DOMAIN item /\ f \in Leads(item, f) /\ Leads(item, f) \subseteq DOMAIN item
    BY <1>1, LeadsOf
  <2>2. Leads(item, f) \cap R = {}
    BY <1>1, <1>2, <1>6, TreesApart
  <2> QED
    BY <1>4, <2>1, <2>2
<1>7. Typed(item')
  <2>1. \A n \in DOMAIN item' : item'[n] \in ItemsOf(DOMAIN item)
    BY <1>1, <1>4, FieldsTyped
  <2> QED
    BY <1>4, <1>5, <2>1, Retyped DEF Heap
<1>8. strings' = StringsIn(item', DOMAIN item')
  <2>1. StringsIn(item, DOMAIN item) = StringsIn(item, DOMAIN item \ R) + StringsIn(item, R)
    BY <1>1, <1>3, StringsUnion
  <2>2. StringsIn(item, R) \in Nat /\ StringsIn(item, DOMAIN item \ R) \in Nat
    BY <1>1, <1>3, StringsType, FS_Subset
  <2>3. StringsIn(item', DOMAIN item') = StringsIn(item, DOMAIN item \ R)
    BY <1>4, SameStrings
  <2> QED
    BY <1>1, <1>4, <2>1, <2>2, <2>3
<1>9. ASSUME E \ {e} = {} PROVE item' = <<>> /\ strings' = 0
  <2>1. DOMAIN item' = {}
    BY <1>5, <1>9, NoTree
  <2>2. item' = <<>>
    BY <1>4, <2>1
  <2>3. StringsIn(item', {}) = 0
    BY FS_EmptySet DEF StringsIn
  <2> QED
    BY <1>8, <2>1, <2>2, <2>3
<1> QED
  BY <1>2, <1>4, <1>5, <1>6, <1>7, <1>8, <1>9 DEF Sound

\* Where there is no tree left there is nothing.
LEMMA EmptySound ==
  ASSUME NEW c, Sound(item, c, {})
  PROVE  item = <<>> /\ c = 0
<1>1. /\ Typed(item) /\ DOMAIN item = {} /\ c = StringsIn(item, {})
  BY NoTree DEF Sound
<1>2. item = <<>>
  BY <1>1 DEF Typed
<1>3. StringsIn(item, {}) = 0
  BY FS_EmptySet DEF StringsIn
<1> QED
  BY <1>1, <1>2, <1>3

\* The text, type or key of one item is filled in.
LEMMA FillItem ==
  ASSUME NEW c, NEW E, Sound(item, c, E), NEW x \in DOMAIN item,
         NEW k, Filled(x, k)
  PROVE  /\ \A p : Leads(k, p) = Leads(item, p)
         /\ \A t : IsTail(k, t) <=> IsTail(item, t)
         /\ (k[x].valuestring = item[x].valuestring /\ k[x].string = item[x].string)
              => Sound(k, c, E)
         /\ (item[x].valuestring = NoString /\ k[x].valuestring # NoString
               /\ k[x].string = item[x].string)
              => Sound(k, c + 1, E)
         /\ (item[x].string = NoString /\ k[x].string # NoString
               /\ k[x].valuestring = item[x].valuestring)
              => Sound(k, c + 1, E)
<1>1. /\ Typed(item) /\ Heap(item, E) /\ c = StringsIn(item, DOMAIN item)
      /\ IsFiniteSet(DOMAIN item)
  BY DEF Sound, Heap
<1>0. /\ DOMAIN k = DOMAIN item /\ IsHeap(k)
      /\ (\A n \in DOMAIN item \ {x} : k[n] = item[n]) /\ k[x] \in ItemsOf(DOMAIN item)
      /\ k[x].next = item[x].next /\ k[x].child = item[x].child /\ k[x].prev = item[x].prev
  BY DEF Filled
<1>. USE <1>0
<1>2. \A n \in DOMAIN item : /\ k[n].next = item[n].next /\ k[n].child = item[n].child
                             /\ k[n].prev = item[n].prev
  OBVIOUS
<1>3. /\ Heap(k, E) /\ \A p : Leads(k, p) = Leads(item, p)
      /\ \A t : IsTail(k, t) <=> IsTail(item, t)
  BY <1>1, <1>2, SameLinks
<1>4. Typed(k)
  <2>1. \A n \in DOMAIN k : k[n] \in ItemsOf(DOMAIN item)
    BY <1>1, FieldsTyped
  <2> QED
    BY <1>3, <2>1, Retyped DEF Heap
<1>5. ASSUME k[x].valuestring = item[x].valuestring, k[x].string = item[x].string
      PROVE  StringsIn(k, DOMAIN k) = c
  <2>1. \A n \in DOMAIN item : /\ k[n].valuestring = item[n].valuestring
                               /\ k[n].string = item[n].string
    BY <1>5
  <2> QED
    BY <1>1, <2>1, SameStrings
<1>6. ASSUME item[x].valuestring = NoString, k[x].valuestring # NoString,
             k[x].string = item[x].string
      PROVE  StringsIn(k, DOMAIN k) = c + 1
  <2>1. /\ \A n \in DOMAIN item \ {x} : k[n].valuestring = item[n].valuestring
        /\ \A n \in DOMAIN item : k[n].string = item[n].string
    BY <1>6
  <2> QED
    BY <1>1, <1>6, <2>1, ValueAdded
<1>7. ASSUME item[x].string = NoString, k[x].string # NoString,
             k[x].valuestring = item[x].valuestring
      PROVE  StringsIn(k, DOMAIN k) = c + 1
  <2>1. /\ \A n \in DOMAIN item \ {x} : k[n].string = item[n].string
        /\ \A n \in DOMAIN item : k[n].valuestring = item[n].valuestring
    BY <1>7
  <2> QED
    BY <1>1, <1>7, <2>1, KeyAdded
<1>8. \A d : StringsIn(k, DOMAIN k) = d => Sound(k, d, E)
  BY <1>3, <1>4 DEF Sound
<1>9. (k[x].valuestring = item[x].valuestring /\ k[x].string = item[x].string)
        => Sound(k, c, E)
  BY <1>5, <1>8
<1>10. ASSUME item[x].valuestring = NoString, k[x].valuestring # NoString,
              k[x].string = item[x].string
       PROVE  Sound(k, c + 1, E)
  <2> DEFINE d == c + 1
  <2>1. StringsIn(k, DOMAIN k) = d
    BY <1>6, <1>10
  <2> HIDE DEF d
  <2>2. Sound(k, d, E)
    BY <1>8, <2>1
  <2> QED
    BY <2>2 DEF d
<1>11. ASSUME item[x].string = NoString, k[x].string # NoString,
              k[x].valuestring = item[x].valuestring
       PROVE  Sound(k, c + 1, E)
  <2> DEFINE d == c + 1
  <2>1. StringsIn(k, DOMAIN k) = d
    BY <1>7, <1>11
  <2> HIDE DEF d
  <2>2. Sound(k, d, E)
    BY <1>8, <2>1
  <2> QED
    BY <2>2 DEF d
<1> QED
  BY <1>3, <1>9, <1>10, <1>11

\* parse_array and parse_object: one more element behind x.
LEMMA NextElement ==
  ASSUME NEW c, NEW E, Sound(item, c, E), NEW x \in DOMAIN item, item[x].next = Null,
         ~IsTail(item, x),
         NEW k, Continued(x, k)
  PROVE  /\ Sound(k, c, E)
         /\ Fresh \in Nat \ {Null} /\ Fresh \notin DOMAIN item
         /\ DOMAIN k = DOMAIN item \cup {Fresh} /\ k[Fresh] = [Blank EXCEPT !.prev = x]
         /\ \A n \in DOMAIN item \ {x} : k[n] = item[n]
         /\ k[x] = [item[x] EXCEPT !.next = Fresh]
         /\ \A p \in DOMAIN item : Leads(item, p) \subseteq Leads(k, p)
         /\ \A p \in DOMAIN item : x \in Leads(item, p) => Fresh \in Leads(k, p)
         /\ \A t : IsTail(k, t) => IsTail(item, t)
<1> DEFINE h == WithNew(Blank)
<1>1. Blank \in ItemsOf(DOMAIN item)
  BY DEF Blank, ItemsOf, Types
<1>2. /\ Sound(h, c, E \cup {Fresh})
      /\ Fresh \in Nat \ {Null} /\ Fresh \notin DOMAIN item
      /\ DOMAIN h = DOMAIN item \cup {Fresh} /\ h[Fresh] = Blank
      /\ \A n \in DOMAIN item : h[n] = item[n]
      /\ Leads(h, Fresh) = {Fresh} /\ \A p \in DOMAIN item : Leads(item, p) \subseteq Leads(h, p)
      /\ \A t : IsTail(h, t) => IsTail(item, t)
  <2>1. /\ Blank.next = Null /\ Blank.child = Null /\ Blank.prev = Null
        /\ Blank.valuestring = NoString /\ Blank.string = NoString
    BY DEF Blank
  <2> HIDE DEF h
  <2> QED
    BY <1>1, <2>1, CreateItem DEF h
<1>3. /\ Typed(item) /\ E \subseteq DOMAIN item /\ Typed(h) /\ Heap(h, E \cup {Fresh})
      /\ StringsIn(h, DOMAIN h) = c
  BY <1>2, EdgesOf DEF Sound, Heap, Forest
<1>4. /\ DOMAIN k = DOMAIN item \cup {Fresh} /\ k[Fresh] = [Blank EXCEPT !.prev = x]
      /\ \A n \in DOMAIN item \ {x} : k[n] = item[n]
      /\ k[x] = [item[x] EXCEPT !.next = Fresh]
      /\ IsHeap(k)
  BY <1>2 DEF WithNew, Continued, IsHeap
<1> HIDE DEF h, Fresh
<1>5. \A n \in DOMAIN h : h[n] \in ItemsOf(DOMAIN h)
  BY <1>3, FieldsTyped
<1>6. /\ k[Fresh].next = Null /\ k[Fresh].child = Null /\ k[Fresh].prev = x
      /\ k[x].next = Fresh /\ k[x].child = item[x].child /\ k[x].prev = item[x].prev
      /\ h[Fresh].next = Null /\ h[Fresh].child = Null /\ h[Fresh].prev = Null
  BY <1>2, <1>4, <1>5 DEF Blank, ItemsOf
<1>7. ~IsTail(h, x) /\ x \notin Leads(h, Fresh) /\ h[x].next = Null /\ x \in DOMAIN h
  BY <1>2
<1>8. Behind(h, x, Fresh, k)
  <2>1. \A n \in DOMAIN h : ~(h[n].prev = x /\ \E q \in DOMAIN h : h[q].child = n)
    BY <1>3, <1>7 DEF IsTail, Heap
  <2> QED
    <3>1. \A n \in DOMAIN item \ {x} : k[n] = h[n] /\ n # Fresh
      BY <1>2, <1>4
    <3>2. DOMAIN k = DOMAIN h /\ h[x] = item[x] /\ DOMAIN h = DOMAIN item \cup {Fresh}
      BY <1>2, <1>4
    <3> QED
      BY <1>2, <1>6, <2>1, <3>1, <3>2 DEF Behind
<1>9. /\ Heap(k, (E \cup {Fresh}) \ {Fresh})
      /\ \A p \in DOMAIN h : Leads(h, p) \subseteq Leads(k, p)
      /\ \A p \in DOMAIN h : x \in Leads(h, p) => Fresh \in Leads(k, p)
      /\ \A t : IsTail(k, t) => IsTail(h, t) \/ (t = Fresh /\ IsTail(h, x))
  <2> DEFINE F == E \cup {Fresh}
  <2>1. Heap(h, F) /\ Fresh \in F /\ h[Fresh].next = Null
    BY <1>3, <1>6
  <2> HIDE DEF F
  <2>2. /\ Heap(k, F \ {Fresh})
        /\ \A p \in DOMAIN h : Leads(h, p) \subseteq Leads(k, p)
        /\ \A p \in DOMAIN h : x \in Leads(h, p) => Fresh \in Leads(k, p)
        /\ \A t : IsTail(k, t) => IsTail(h, t) \/ (t = Fresh /\ IsTail(h, x))
    BY <1>7, <1>8, <2>1, AppendItem
  <2> QED
    BY <2>2 DEF F
<1>10. Heap(k, E)
  <2>1. (E \cup {Fresh}) \ {Fresh} = E
    BY <1>2, <1>3
  <2> QED
    BY <1>9, <2>1
<1>11. Typed(k)
  <2>1. k[Fresh] \in ItemsOf(DOMAIN k)
    BY <1>1, <1>4 DEF ItemsOf
  <2>2. k[x] \in ItemsOf(DOMAIN k)
    <3>1. item[x] \in ItemsOf(DOMAIN item)
      BY <1>3, FieldsTyped
    <3> QED
      BY <1>4, <3>1 DEF ItemsOf
  <2>3. \A n \in DOMAIN item \ {x} : k[n] \in ItemsOf(DOMAIN item)
    BY <1>3, <1>4, FieldsTyped
  <2>4. \A n \in DOMAIN item \ {x} : k[n] \in ItemsOf(DOMAIN k)
    BY <1>4, <2>3 DEF ItemsOf
  <2>5. \A n \in DOMAIN k : k[n] \in ItemsOf(DOMAIN k)
    BY <1>4, <2>1, <2>2, <2>4
  <2> QED
    BY <1>4, <1>10, <2>5, Retyped DEF Heap
<1>12. StringsIn(k, DOMAIN k) = c
  <2>1. k[Fresh].valuestring = h[Fresh].valuestring /\ k[Fresh].string = h[Fresh].string
    BY <1>2, <1>4 DEF Blank
  <2>2. k[x].valuestring = h[x].valuestring /\ k[x].string = h[x].string
    <3>1. item[x] \in ItemsOf(DOMAIN item)
      BY <1>3, FieldsTyped
    <3> QED
      BY <1>2, <1>4, <3>1 DEF ItemsOf
  <2>3. \A n \in DOMAIN h : k[n].valuestring = h[n].valuestring /\ k[n].string = h[n].string
    BY <1>2, <1>4, <2>1, <2>2
  <2>4. StringsIn(k, DOMAIN h) = StringsIn(h, DOMAIN h)
    BY <2>3, SameStrings
  <2> QED
    BY <1>2, <1>3, <1>4, <2>4
<1>13. /\ \A p \in DOMAIN item : Leads(item, p) \subseteq Leads(k, p)
       /\ \A p \in DOMAIN item : x \in Leads(item, p) => Fresh \in Leads(k, p)
       /\ \A t : IsTail(k, t) => IsTail(item, t)
  BY <1>2, <1>7, <1>9
<1> QED
  BY <1>2, <1>4, <1>10, <1>11, <1>12, <1>13 DEF Sound

\* A container is finished: the list from y to t becomes its elements.
LEMMA CloseList ==
  ASSUME NEW c, NEW E, Sound(item, c, E), NEW x, NEW y, NEW t, Finishes(item, E, x, y, t),
         NEW type \in Types, NEW k, Finished(x, y, t, type, k)
  PROVE  /\ Sound(k, c, E \ {y}) /\ DOMAIN k = DOMAIN item
         /\ \A n \in DOMAIN item : k[n].next = item[n].next
         /\ \A n \in DOMAIN item \ {x} :
              /\ k[n].child = item[n].child /\ k[n].type = item[n].type
              /\ k[n].valuestring = item[n].valuestring
         /\ k[x].type = type
         /\ \A p \in DOMAIN item : Leads(item, p) \subseteq Leads(k, p)
         /\ NoOtherTail(item, k, t)
<1>0. /\ x \in DOMAIN item /\ y \in E /\ x \notin Leads(item, y) /\ item[x].child = Null
      /\ t \in Leads(item, y) /\ item[t].next = Null /\ ~IsTail(item, t)
  BY DEF Finishes
<1>. USE <1>0
<1>1. /\ Typed(item) /\ Heap(item, E) /\ c = StringsIn(item, DOMAIN item)
      /\ Pointers(item) /\ y \in DOMAIN item
  BY EdgesOf DEF Sound, Heap, Forest
<1>2. t \in DOMAIN item /\ x # y
  BY <1>1, LeadsOf
<1>3. \A n \in DOMAIN item : item[n] \in ItemsOf(DOMAIN item)
  BY <1>1, FieldsTyped
<1>4. /\ DOMAIN k = DOMAIN item /\ \A n \in DOMAIN item \ {x, y} : k[n] = item[n]
      /\ k[y] = [item[y] EXCEPT !.prev = t]
      /\ k[x] = [item[x] EXCEPT !.type = type, !.child = y]
      /\ IsHeap(k)
  BY <1>1, <1>2 DEF Finished, IsHeap
<1>5. Below(item, x, y, t, k)
  <2>1. item[x] \in ItemsOf(DOMAIN item) /\ item[y] \in ItemsOf(DOMAIN item)
    BY <1>1, <1>3
  <2>2. /\ k[x].next = item[x].next /\ k[x].child = y /\ k[x].prev = item[x].prev
        /\ k[y].next = item[y].next /\ k[y].child = item[y].child /\ k[y].prev = t
    BY <1>4, <2>1 DEF ItemsOf
  <2> QED
    BY <1>2, <1>4, <2>2 DEF Below
<1>6. /\ Heap(k, E \ {y})
      /\ \A p \in DOMAIN item : Leads(item, p) \subseteq Leads(k, p)
      /\ NoOtherTail(item, k, t)
  <2>1. Heap(item, E) /\ Below(item, x, y, t, k)
    BY <1>1, <1>5
  <2> QED
    BY <2>1, AdoptItems
<1>7. Typed(k)
  <2>1. k[y] \in ItemsOf(DOMAIN k) /\ k[x] \in ItemsOf(DOMAIN k)
    BY <1>1, <1>2, <1>3, <1>4 DEF ItemsOf
  <2>2. \A n \in DOMAIN k : k[n] \in ItemsOf(DOMAIN k)
    BY <1>3, <1>4, <2>1
  <2> QED
    BY <1>4, <1>6, <2>2, Retyped DEF Heap
<1>8. StringsIn(k, DOMAIN k) = c
  <2>1. \A n \in DOMAIN item : /\ k[n].valuestring = item[n].valuestring
                               /\ k[n].string = item[n].string
    <3>1. item[x] \in ItemsOf(DOMAIN item) /\ item[y] \in ItemsOf(DOMAIN item)
      BY <1>1, <1>3
    <3>2. /\ k[x].valuestring = item[x].valuestring /\ k[x].string = item[x].string
          /\ k[y].valuestring = item[y].valuestring /\ k[y].string = item[y].string
      BY <1>4, <3>1 DEF ItemsOf
    <3> QED
      BY <1>4, <3>2
  <2>2. StringsIn(k, DOMAIN item) = StringsIn(item, DOMAIN item)
    BY <2>1, SameStrings
  <2> QED
    BY <1>1, <1>4, <2>2
<1>9. /\ \A n \in DOMAIN item : k[n].next = item[n].next
      /\ \A n \in DOMAIN item \ {x} :
           /\ k[n].child = item[n].child /\ k[n].type = item[n].type
           /\ k[n].valuestring = item[n].valuestring
      /\ k[x].type = type
  <2>1. item[x] \in ItemsOf(DOMAIN item) /\ item[y] \in ItemsOf(DOMAIN item)
    BY <1>1, <1>3
  <2>2. /\ k[y].child = item[y].child /\ k[y].next = item[y].next /\ k[y].type = item[y].type
        /\ k[y].valuestring = item[y].valuestring /\ k[x].type = type
        /\ k[x].next = item[x].next
    BY <1>4, <2>1 DEF ItemsOf
  <2> QED
    BY <1>4, <2>2
<1> QED
  BY <1>4, <1>6, <1>7, <1>8, <1>9 DEF Sound

\* add_item_to_object: n joins the members of its parent and is given its key.
LEMMA JoinItem ==
  ASSUME NEW c, NEW E, Sound(item, c, E), NEW parent \in DOMAIN item, NEW n \in E, parent # n,
         item[n].next = Null, item[n].child = Null, item[n].string = NoString,
         NEW key \in Words, NEW k, Joins(parent, n, key, k)
  PROVE  Sound(k, c + 1, E \ {n}) /\ DOMAIN k = DOMAIN item
<1> DEFINE head == item[parent].child
           tail == item[head].prev
<1>1. /\ Typed(item) /\ Heap(item, E) /\ c = StringsIn(item, DOMAIN item)
      /\ Pointers(item) /\ Linked(item) /\ n \in DOMAIN item /\ IsFiniteSet(DOMAIN item)
      /\ Null \notin DOMAIN item
  BY EdgesOf DEF Sound, Heap, Forest
<1>2. \A m \in DOMAIN item : item[m] \in ItemsOf(DOMAIN item)
  BY <1>1, FieldsTyped
<1>3. /\ Leads(item, n) = {n} /\ parent \notin Leads(item, n) /\ ~IsTail(item, n)
      /\ \A m \in DOMAIN item : item[m].next # n /\ item[m].child # n
      /\ \A m \in DOMAIN item : n \in Leads(item, m) => m = n
  BY <1>1, LoneItem, RootNoTail, RootApart
<1>4. key # NoString
  BY WordsTyped
\* The first member.
<1>5. ASSUME head = Null
      PROVE  /\ Below(item, parent, n, n, k) /\ IsHeap(k)
             /\ \A m \in DOMAIN item : k[m] \in ItemsOf(DOMAIN item)
             /\ \A m \in DOMAIN item : k[m].valuestring = item[m].valuestring
             /\ \A m \in DOMAIN item \ {n} : k[m].string = item[m].string
             /\ k[n].string = key
  <2>1. item[parent] \in ItemsOf(DOMAIN item) /\ item[n] \in ItemsOf(DOMAIN item)
    BY <1>1, <1>2
  <2>2. k = [[item EXCEPT ![parent].child = n, ![n].prev = n, ![n].next = Null]
               EXCEPT ![n].string = key]
    BY <1>5 DEF Joins, Appended
  <2>3. /\ DOMAIN k = DOMAIN item /\ IsHeap(k)
        /\ k[parent] = [item[parent] EXCEPT !.child = n]
        /\ k[n] = [item[n] EXCEPT !.prev = n, !.next = Null, !.string = key]
        /\ \A m \in DOMAIN item \ {parent, n} : k[m] = item[m]
    BY <1>1, <2>2 DEF IsHeap
  <2>4. /\ k[parent].next = item[parent].next /\ k[parent].child = n
        /\ k[parent].prev = item[parent].prev /\ k[parent].string = item[parent].string
        /\ k[parent].valuestring = item[parent].valuestring
        /\ k[parent] \in ItemsOf(DOMAIN item)
    BY <1>1, <2>1, <2>3, SMTT(40) DEF ItemsOf
  <2>5. /\ k[n].next = Null /\ k[n].child = item[n].child /\ k[n].prev = n
        /\ k[n].string = key /\ k[n].valuestring = item[n].valuestring
        /\ k[n] \in ItemsOf(DOMAIN item)
    BY <1>1, <2>1, <2>3 DEF ItemsOf
  <2>6. Below(item, parent, n, n, k)
    <3>1. ASSUME NEW m \in DOMAIN item
          PROVE  /\ k[m].next = item[m].next
                 /\ k[m].child = (IF m = parent THEN n ELSE item[m].child)
                 /\ k[m].prev = (IF m = n THEN n ELSE item[m].prev)
      <4>1. CASE m = parent
        BY <2>4, <4>1
      <4>2. CASE m = n
        BY <2>5, <4>2
      <4>3. CASE m \notin {parent, n}
        <5>1. k[m] = item[m]
          BY <2>3, <4>3
        <5> QED
          BY <4>3, <5>1
      <4> QED
        BY <4>1, <4>2, <4>3
    <3> QED
      BY <2>3, <3>1 DEF Below
  <2> QED
    BY <1>2, <2>3, <2>4, <2>5, <2>6
\* A later one.
<1>6. ASSUME head # Null
      PROVE  /\ tail \in DOMAIN item /\ item[tail].next = Null /\ tail \notin Leads(item, n)
             /\ Behind(item, tail, n, k) /\ IsHeap(k) /\ DOMAIN k = DOMAIN item
             /\ \A m \in DOMAIN item : k[m] \in ItemsOf(DOMAIN item)
             /\ \A m \in DOMAIN item : k[m].valuestring = item[m].valuestring
             /\ \A m \in DOMAIN item \ {n} : k[m].string = item[m].string
             /\ k[n].string = key
  <2>1. /\ head \in DOMAIN item /\ head # n /\ tail \in Leads(item, head)
        /\ item[tail].next = Null /\ tail \in DOMAIN item
    BY <1>1, <1>3, <1>6, LeadsOf DEF Linked, Pointers
  <2>2. tail # n
    BY <1>3, <2>1
  <2>3. \A q \in DOMAIN item : item[q].child # Null /\ item[item[q].child].prev = tail
                               => q = parent
    BY <1>1, <1>6 DEF Linked
  <2>4. k = [[item EXCEPT ![tail].next = n, ![n].prev = tail, ![head].prev = n]
               EXCEPT ![n].string = key]
    BY <1>6 DEF Joins, Appended
  <2> HIDE DEF head, tail
  <2>5. /\ item[head] \in ItemsOf(DOMAIN item) /\ item[tail] \in ItemsOf(DOMAIN item)
        /\ item[n] \in ItemsOf(DOMAIN item)
    BY <1>1, <1>2, <2>1
  <2>6. /\ DOMAIN k = DOMAIN item /\ IsHeap(k)
        /\ k[n] = [item[n] EXCEPT !.prev = tail, !.string = key]
        /\ head # tail => /\ k[head] = [item[head] EXCEPT !.prev = n]
                          /\ k[tail] = [item[tail] EXCEPT !.next = n]
        /\ head = tail => k[head] = [item[head] EXCEPT !.next = n, !.prev = n]
        /\ \A m \in DOMAIN item \ {head, tail, n} : k[m] = item[m]
    BY <1>1, <2>1, <2>2, <2>4 DEF IsHeap
  <2>7. /\ k[n].next = item[n].next /\ k[n].child = item[n].child /\ k[n].prev = tail
        /\ k[n].string = key /\ k[n].valuestring = item[n].valuestring
        /\ k[n] \in ItemsOf(DOMAIN item)
    <3>1. k[n] = [item[n] EXCEPT !.prev = tail, !.string = key]
      BY <2>6
    <3>2. /\ item[n] \in ItemsOf(DOMAIN item) /\ tail \in DOMAIN item
          /\ key \in Words
      BY <1>1, <2>1, <2>5
    <3> QED
      BY <3>1, <3>2 DEF ItemsOf
  <2>8. /\ k[head].next = (IF head = tail THEN n ELSE item[head].next)
        /\ k[head].child = item[head].child /\ k[head].prev = n
        /\ k[head].string = item[head].string
        /\ k[head].valuestring = item[head].valuestring
        /\ k[head] \in ItemsOf(DOMAIN item)
    <3>1. CASE head = tail
      <4>1. k[head] = [item[head] EXCEPT !.next = n, !.prev = n]
        BY <2>6, <3>1
      <4>2. item[head] \in ItemsOf(DOMAIN item) /\ n \in DOMAIN item
        BY <1>1, <2>5
      <4> QED
        BY <3>1, <4>1, <4>2 DEF ItemsOf
    <3>2. CASE head # tail
      BY <1>1, <2>5, <2>6, <3>2 DEF ItemsOf
    <3> QED
      BY <3>1, <3>2
  <2>9. /\ k[tail].next = n /\ k[tail].child = item[tail].child
        /\ k[tail].prev = (IF head = tail THEN n ELSE item[tail].prev)
        /\ k[tail].string = item[tail].string
        /\ k[tail].valuestring = item[tail].valuestring
        /\ k[tail] \in ItemsOf(DOMAIN item)
    <3>1. CASE head = tail
      BY <2>8, <3>1
    <3>2. CASE head # tail
      BY <1>1, <2>5, <2>6, <3>2 DEF ItemsOf
    <3> QED
      BY <3>1, <3>2
  <2>10. item[parent].child = head /\ item[head].prev = tail
    BY DEF head, tail
  <2>11. \A m \in DOMAIN item :
           (item[m].prev = tail /\ \E q \in DOMAIN item : item[q].child = m) <=> m = head
    BY <1>1, <2>1, <2>3, <2>10
  <2>12. Behind(item, tail, n, k)
    <3>1. ASSUME NEW m \in DOMAIN item
          PROVE  /\ k[m].next = IF m = tail THEN n ELSE item[m].next
                 /\ k[m].child = item[m].child
                 /\ k[m].prev = IF m = n THEN tail ELSE IF m = head THEN n ELSE item[m].prev
      <4>1. CASE m = n
        BY <2>1, <2>2, <2>7, <4>1
      <4>2. CASE m = tail
        BY <2>2, <2>9, <4>2
      <4>3. CASE m = head /\ m # tail
        BY <2>1, <2>8, <4>3
      <4>4. CASE m \in DOMAIN item \ {head, tail, n}
        BY <2>6, <4>4
      <4> QED
        BY <4>1, <4>2, <4>3, <4>4
    <3> QED
      BY <2>6, <2>11, <3>1 DEF Behind
  <2> QED
    BY <1>2, <1>3, <2>1, <2>2, <2>6, <2>7, <2>8, <2>9, <2>12 DEF tail
<1>7. Heap(k, E \ {n}) /\ DOMAIN k = DOMAIN item
  <2>1. CASE head = Null
    <3>1. n \in Leads(item, n) /\ Below(item, parent, n, n, k)
      BY <1>3, <1>5, <2>1
    <3> QED
      <4>1. Heap(item, E) /\ Finishes(item, E, parent, n, n) /\ Below(item, parent, n, n, k)
        BY <1>1, <1>3, <2>1, <3>1, RootNoTail DEF Finishes
      <4>2. Heap(k, E \ {n})
        BY <4>1, AdoptItems
      <4> QED
        BY <3>1, <4>2 DEF Below
  <2>2. CASE head # Null
    <3>1. /\ tail \in DOMAIN item /\ item[tail].next = Null /\ tail \notin Leads(item, n)
          /\ Behind(item, tail, n, k) /\ DOMAIN k = DOMAIN item
      BY <1>6, <2>2
    <3> HIDE DEF tail
    <3>2. Heap(item, E) /\ item[n].next = Null /\ n \in E
      BY <1>1
    <3>3. Heap(k, E \ {n})
      BY <3>1, <3>2, AppendItem
    <3> QED
      BY <3>1, <3>3
  <2> QED
    BY <2>1, <2>2
<1>8. /\ IsHeap(k)
      /\ \A m \in DOMAIN item : k[m] \in ItemsOf(DOMAIN item)
      /\ \A m \in DOMAIN item : k[m].valuestring = item[m].valuestring
      /\ \A m \in DOMAIN item \ {n} : k[m].string = item[m].string
      /\ k[n].string = key
  BY <1>5, <1>6
<1> HIDE DEF head, tail
<1>9. Typed(k)
  BY <1>7, <1>8, Retyped DEF Heap
<1>10. StringsIn(k, DOMAIN item) = StringsIn(item, DOMAIN item) + 1
  BY <1>1, <1>4, <1>8, KeyAdded
<1>11. StringsIn(k, DOMAIN k) = c + 1
  BY <1>1, <1>7, <1>10
<1> QED
  BY <1>7, <1>9, <1>11 DEF Sound

\* Such a heap is what every append and every deletion relies on.
LEMMA SoundLists ==
  ASSUME NEW c, NEW E, Sound(item, c, E)
  PROVE  ListsSound
<1>1. /\ Heap(item, E) /\ Pointers(item) /\ Linked(item)
      /\ \A p \in DOMAIN item : Owned(p) = Leads(item, p)
  BY OwnedLeads DEF Sound, Heap
<1> QED
  BY <1>1 DEF ListsSound, Pointers, Linked
=============================================================================
