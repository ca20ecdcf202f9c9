--------------------------- MODULE LinkListProofs ---------------------------
(***************************************************************************)
(* For any set of items and lists, the pointers of lib/_linklist.js stay   *)
(* consistent in both directions.                                          *)
(***************************************************************************)
EXTENDS LinkList, TLAPS

\* A record of pointers that satisfies TypeOK and Linked, and whose rings are
\* those of r.
Sound(p, r) ==
  /\ p.next \in [Nodes -> Nodes \cup {Null}]
  /\ p.prev \in [Nodes -> Nodes \cup {Null}]
  /\ r \in [Nodes -> Nodes]
  /\ \A n \in Nodes :
        /\ p.next[n] = Null <=> p.prev[n] = Null
        /\ p.next[n] # Null => p.prev[p.next[n]] = n /\ r[p.next[n]] = r[n]
        /\ p.prev[n] # Null => p.next[p.prev[n]] = n /\ r[p.prev[n]] = r[n]

\* init() of a node that is in no list keeps the pointers consistent.
LEMMA InitSound ==
  ASSUME NEW p, NEW r, Sound(p, r), NEW i \in Nodes, p.next[i] = Null
  PROVE  /\ Sound(init(p, i), [r EXCEPT ![i] = i])
         /\ \A n \in Nodes : p.next[n] # Null => init(p, i).next[n] # Null
BY NodesAssumption DEF Sound, init

\* remove() keeps the pointers consistent, unlinks its item and no other.
LEMMA RemoveSound ==
  ASSUME NEW p, NEW r, Sound(p, r), NEW i \in Nodes
  PROVE  /\ Sound(remove(p, i), r)
         /\ remove(p, i).next[i] = Null
         /\ \A n \in Nodes \ {i} : p.next[n] # Null => remove(p, i).next[n] # Null
<1>0. p.next \in [Nodes -> Nodes \cup {Null}] /\ p.prev \in [Nodes -> Nodes \cup {Null}]
  BY DEF Sound
<1>1. CASE p.next[i] = Null
  <2>1. p.prev[i] = Null
    BY <1>1 DEF Sound
  <2>2. remove(p, i) = [next |-> [p.next EXCEPT ![i] = Null], prev |-> [p.prev EXCEPT ![i] = Null]]
    BY <1>1, <2>1 DEF remove
  <2>3. [p.next EXCEPT ![i] = Null] = p.next /\ [p.prev EXCEPT ![i] = Null] = p.prev
    BY <1>0, <1>1, <2>1
  <2>4. remove(p, i) = [next |-> p.next, prev |-> p.prev]
    BY <2>2, <2>3
  <2> QED
    BY <1>1, <2>4 DEF Sound
<1>2. CASE p.next[i] # Null
  <2> DEFINE a == p.next[i]
             b == p.prev[i]
             nx == [[p.next EXCEPT ![b] = a] EXCEPT ![i] = Null]
             pv == [[p.prev EXCEPT ![a] = b] EXCEPT ![i] = Null]
  <2>1. a \in Nodes /\ b \in Nodes /\ p.prev[a] = i /\ p.next[b] = i /\ r[a] = r[i] /\ r[b] = r[i]
    BY <1>0, <1>2 DEF Sound
  <2>2. [p.prev EXCEPT ![a] = b][i] = b /\ b # Null
    BY <1>0, <2>1, NodesAssumption
  <2>3. remove(p, i) = [next |-> nx, prev |-> pv]
    BY <1>2, <2>2 DEF remove
  <2>4. /\ nx \in [Nodes -> Nodes \cup {Null}] /\ pv \in [Nodes -> Nodes \cup {Null}]
        /\ nx[i] = Null /\ pv[i] = Null
        /\ b # i => nx[b] = a
        /\ a # i => pv[a] = b
        /\ \A n \in Nodes \ {i, b} : nx[n] = p.next[n]
        /\ \A n \in Nodes \ {i, a} : pv[n] = p.prev[n]
    BY <1>0, <2>1
  <2> HIDE DEF nx, pv
  <2>5. ASSUME NEW n \in Nodes
        PROVE  /\ nx[n] = Null <=> pv[n] = Null
               /\ nx[n] # Null => pv[nx[n]] = n /\ r[nx[n]] = r[n]
               /\ pv[n] # Null => nx[pv[n]] = n /\ r[pv[n]] = r[n]
               /\ n # i /\ p.next[n] # Null => nx[n] # Null
    <3>0. /\ p.next[n] = Null <=> p.prev[n] = Null
          /\ p.next[n] # Null => p.prev[p.next[n]] = n /\ r[p.next[n]] = r[n] /\ p.next[n] \in Nodes
          /\ p.prev[n] # Null => p.next[p.prev[n]] = n /\ r[p.prev[n]] = r[n] /\ p.prev[n] \in Nodes
      BY <1>0 DEF Sound
    <3>1. CASE n = i
      BY <2>4, <3>1
    <3>2. CASE n # i
      BY <2>1, <2>4, <3>0, <3>2, NodesAssumption
    <3> QED BY <3>1, <3>2
  <2>6. r \in [Nodes -> Nodes]
    BY DEF Sound
  <2> QED
    BY <2>3, <2>4, <2>5, <2>6 DEF Sound
<1> QED
  BY <1>1, <1>2

\* append() to a linked list keeps the pointers consistent and unlinks nothing.
LEMMA AppendSound ==
  ASSUME NEW p, NEW r, Sound(p, r), NEW i \in Nodes, NEW l \in Nodes, l # i,
         p.next[l] # Null, r[l] = l
  PROVE  /\ Sound(append(p, l, i), [r EXCEPT ![i] = l])
         /\ \A n \in Nodes : p.next[n] # Null => append(p, l, i).next[n] # Null
<1> DEFINE q == remove(p, i)
           k == q.next[l]
           s == [r EXCEPT ![i] = l]
           nx == [q.next EXCEPT ![i] = k, ![l] = i]
           pv == [q.prev EXCEPT ![k] = i, ![i] = l]
<1>1. /\ Sound(q, r) /\ q.next[i] = Null /\ q.next[l] # Null
      /\ \A n \in Nodes \ {i} : p.next[n] # Null => q.next[n] # Null
  BY RemoveSound
<1>2. append(p, l, i) = [next |-> nx, prev |-> pv]
  BY DEF append
<1>3. /\ q.next \in [Nodes -> Nodes \cup {Null}] /\ q.prev \in [Nodes -> Nodes \cup {Null}]
      /\ k \in Nodes /\ k # i /\ q.prev[k] = l /\ q.prev[i] = Null /\ r[k] = l
  <2> HIDE DEF q
  <2>1. /\ q.next \in [Nodes -> Nodes \cup {Null}] /\ q.prev \in [Nodes -> Nodes \cup {Null}]
        /\ k \in Nodes /\ q.prev[k] = l /\ r[k] = r[l]
        /\ q.prev[i] = Null
    BY <1>1 DEF Sound
  <2>2. k # i
    BY <2>1, NodesAssumption
  <2> QED BY <2>1, <2>2
<1>4. /\ nx \in [Nodes -> Nodes \cup {Null}] /\ pv \in [Nodes -> Nodes \cup {Null}]
      /\ s \in [Nodes -> Nodes] /\ s[i] = l /\ s[l] = l /\ s[k] = l
      /\ nx[i] = k /\ nx[l] = i /\ pv[k] = i /\ pv[i] = l
      /\ \A n \in Nodes \ {i, l} : nx[n] = q.next[n]
      /\ \A n \in Nodes \ {i, k} : pv[n] = q.prev[n]
      /\ \A n \in Nodes \ {i} : s[n] = r[n]
  <2>1. r \in [Nodes -> Nodes]
    BY DEF Sound
  <2> HIDE DEF q, k
  <2>2. /\ nx \in [Nodes -> Nodes \cup {Null}] /\ nx[i] = k /\ nx[l] = i
        /\ \A n \in Nodes \ {i, l} : nx[n] = q.next[n]
    BY <1>3
  <2>3. /\ pv \in [Nodes -> Nodes \cup {Null}] /\ pv[k] = i /\ pv[i] = l
        /\ \A n \in Nodes \ {i, k} : pv[n] = q.prev[n]
    BY <1>3
  <2>4. /\ s \in [Nodes -> Nodes] /\ s[i] = l /\ s[l] = l /\ s[k] = l
        /\ \A n \in Nodes \ {i} : s[n] = r[n]
    BY <1>3, <2>1
  <2> QED
    BY <2>2, <2>3, <2>4
<1> HIDE DEF q, k, s, nx, pv
<1>5. ASSUME NEW n \in Nodes
      PROVE  /\ nx[n] = Null <=> pv[n] = Null
             /\ nx[n] # Null => pv[nx[n]] = n /\ s[nx[n]] = s[n]
             /\ pv[n] # Null => nx[pv[n]] = n /\ s[pv[n]] = s[n]
             /\ p.next[n] # Null => nx[n] # Null
  BY <1>1, <1>3, <1>4, NodesAssumption DEF Sound
<1> QED
  BY <1>2, <1>4, <1>5 DEF Sound, s

-----------------------------------------------------------------------------
\* The invariant in terms of the variables.
ListsLinked == \A l \in Lists : next[l] # Null /\ ring[l] = l
IInv == Sound(Pointers, ring) /\ ListsLinked

LEMMA IInvImplies == IInv => Consistent
BY DEF Consistent, IInv, Sound, Pointers, ListsLinked, TypeOK, Linked, Separate, Nodes

\* Every operation of timers.js on the lists of _linklist.js keeps the type of
\* the pointers, keeps _idleNext and _idlePrev inverse to each other and keeps
\* the lists apart, whatever the items and the lists.
THEOREM PointersConsistent == Spec => []Consistent
<1>1. Init => IInv
  BY NodesAssumption DEF Init, IInv, Sound, Pointers, ListsLinked, Nodes
<1>2. IInv /\ [Next]_vars => IInv'
  <2> SUFFICES ASSUME IInv, [Next]_vars PROVE IInv'
    OBVIOUS
  <2>0. /\ Items \subseteq Nodes /\ Lists \subseteq Nodes
        /\ \A i \in Items, l \in Lists : i # l
        /\ Sound(Pointers, ring) /\ Pointers.next = next /\ Pointers.prev = prev
        /\ ring \in [Nodes -> Nodes]
        /\ \A l \in Lists : next[l] # Null /\ ring[l] = l
    BY NodesAssumption DEF Nodes, IInv, Pointers, ListsLinked, Sound
  <2>1. ASSUME NEW q, Becomes(q), Sound(q, ring'),
               \A l \in Lists : q.next[l] # Null /\ ring'[l] = l
        PROVE  IInv'
    BY <2>1 DEF Becomes, Pointers, Sound, ListsLinked, IInv
  <2>2. ASSUME NEW i \in Items, Enroll(i) PROVE IInv'
    <3> DEFINE q == IF next[i] # Null THEN remove(Pointers, i) ELSE Pointers
    <3>1. Sound(q, ring) /\ q.next[i] = Null /\ \A l \in Lists : q.next[l] # Null
      BY <2>0, RemoveSound
    <3>2. Becomes(init(q, i)) /\ ring' = [ring EXCEPT ![i] = i]
      BY <2>2 DEF Enroll
    <3> HIDE DEF q
    <3>3. Sound(init(q, i), ring') /\ \A n \in Nodes : q.next[n] # Null => init(q, i).next[n] # Null
      BY <2>0, <3>1, <3>2, InitSound, Zenon
    <3>4. \A l \in Lists : init(q, i).next[l] # Null /\ ring'[l] = l
      BY <2>0, <3>1, <3>2, <3>3
    <3> QED
      BY <2>1, <3>2, <3>3, <3>4
  <2>3. ASSUME NEW i \in Items, Unenroll(i) PROVE IInv'
    <3>1. Becomes(remove(Pointers, i)) /\ ring' = ring
      BY <2>3 DEF Unenroll
    <3>2. /\ Sound(remove(Pointers, i), ring')
          /\ \A l \in Lists : remove(Pointers, i).next[l] # Null /\ ring'[l] = l
      BY <2>0, <3>1, RemoveSound
    <3> QED
      BY <2>1, <3>1, <3>2
  <2>4. ASSUME NEW l \in Lists, NEW i \in Items, Active(l, i) PROVE IInv'
    <3>1. Becomes(append(Pointers, l, i)) /\ ring' = [ring EXCEPT ![i] = l]
      BY <2>4 DEF Active
    <3>a. /\ i \in Nodes /\ l \in Nodes /\ l # i /\ Sound(Pointers, ring)
          /\ Pointers.next[l] # Null /\ ring[l] = l
      BY <2>0
    <3>b. /\ Sound(append(Pointers, l, i), [ring EXCEPT ![i] = l])
          /\ \A n \in Nodes : Pointers.next[n] # Null => append(Pointers, l, i).next[n] # Null
      BY <3>a, AppendSound
    <3>2. /\ Sound(append(Pointers, l, i), ring')
          /\ \A n \in Nodes : next[n] # Null => append(Pointers, l, i).next[n] # Null
      BY <2>0, <3>1, <3>b
    <3>3. \A n \in Lists : append(Pointers, l, i).next[n] # Null /\ ring'[n] = n
      BY <2>0, <3>1, <3>2
    <3> QED
      BY <2>1, <3>1, <3>2, <3>3
  <2>5. ASSUME NEW l \in Lists, Expire(l) PROVE IInv'
    <3> DEFINE i == peek(l)
    <3>1. i \in Nodes /\ i = prev[l] /\ i # l
      BY <2>0, <2>5 DEF Expire, peek, Sound
    <3>2. i \notin Lists
      BY <2>0, <3>1 DEF Sound
    <3>3. Becomes(remove(Pointers, i)) /\ ring' = ring
      BY <2>5 DEF Expire
    <3> HIDE DEF i
    <3>4. /\ Sound(remove(Pointers, i), ring')
          /\ \A n \in Nodes \ {i} : next[n] # Null => remove(Pointers, i).next[n] # Null
      BY <2>0, <3>1, <3>3, RemoveSound
    <3>5. \A n \in Lists : remove(Pointers, i).next[n] # Null /\ ring'[n] = n
      BY <2>0, <3>2, <3>3, <3>4
    <3> QED
      BY <2>1, <3>3, <3>4, <3>5
  <2>6. CASE UNCHANGED vars
    BY <2>6 DEF vars, IInv, Sound, Pointers, ListsLinked
  <2> QED
    BY <2>2, <2>3, <2>4, <2>5, <2>6 DEF Next
<1> QED
  BY <1>1, <1>2, IInvImplies, PTL DEF Spec
=============================================================================
