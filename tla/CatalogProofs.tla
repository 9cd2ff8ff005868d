--------------------------- MODULE CatalogProofs ---------------------------
(***************************************************************************)
(* Theorems about the catalog and the endpoint registry, which share       *)
(* CatalogBuilder.  First, what every successful build of a catalog keeps: *)
(* one definition of a name, and a new revision for whatever is not the    *)
(* same as before.  From it, that a generation identifies a meaning over   *)
(* the life of a boot, that a boot leaves out only the packages that are   *)
(* the cause, and that a change of an app leaves what others own as it was *)
(* (CatalogRegistry).  Last, that a route compared by generations leads    *)
(* where its binding was made for (EndpointRegistry).                      *)
(***************************************************************************)
EXTENDS CatalogRegistry, EndpointRegistry, FiniteSetTheorems, WellFoundedInduction, TLAPS

----------------------------------------------------------------------------
(***************************************************************************)
(* Induction over the sources of a catalog.  What Merge makes of them is a *)
(* function by recursion; that there is one, and what it keeps, follows    *)
(* from the least number for which it would not be so.                     *)
(***************************************************************************)
LEMMA LeastNumber ==
    ASSUME NEW T \in SUBSET Nat, T # {}
    PROVE  \E m \in T : \A k \in T : m <= k
<1>1. PICK n \in T : TRUE
  OBVIOUS
<1> DEFINE S == 0..n
           F == {X \in SUBSET S : \E k \in T : k <= n /\ X = 0..k}
<1>2. IsFiniteSet(S) /\ n \in Nat
  BY FS_Interval
<1>3. IsWellFoundedOn(StrictSubsetOrdering(S), SUBSET S)
  BY <1>2, FS_StrictSubsetOrderingWellFounded, FS_FiniteSubsetsOfFinite, Zenon
<1>4. F \subseteq SUBSET S /\ F # {}
  <2>1. 0..n \in F
    BY <1>1
  <2> QED
    BY <2>1
<1>5. PICK X \in F : \A Y \in F : <<Y, X>> \notin StrictSubsetOrdering(S)
  <2>1. \E X \in F : \A Y \in F : <<Y, X>> \notin StrictSubsetOrdering(S)
    <3> HIDE DEF S, F
    <3> QED
      BY <1>3, <1>4, WFMin, Zenon
  <2> QED
    BY <2>1
<1>6. PICK m \in T : m <= n /\ X = 0..m
  BY <1>5
<1>7. ASSUME NEW k \in T, k < m
      PROVE  FALSE
  <2>1. 0..k \in F
    BY <1>1, <1>2, <1>6, <1>7
  <2>2. 0..k \subseteq 0..m /\ 0..k # 0..m
    <3>1. m \in 0..m /\ m \notin 0..k /\ m \in Nat
      BY <1>7
    <3> QED
      BY <3>1, <1>7
  <2>3. <<0..k, X>> \in StrictSubsetOrdering(S)
    <3>1. 0..k \in SUBSET S /\ X \in SUBSET S
      BY <2>1, <1>5
    <3> HIDE DEF S
    <3> QED
      BY <3>1, <2>2, <1>6 DEF StrictSubsetOrdering
  <2> QED
    BY <2>1, <2>3, <1>5
<1> QED
  BY <1>6, <1>7

\* The sources of an order merged up to each of them.
Merging(order, size, f) ==
    f = [n \in 0..size |-> IF n = 0 THEN Start ELSE Step(f[n - 1], order[n])]

LEMMA MergingExists ==
    ASSUME NEW order, NEW size \in Nat
    PROVE  \E f : Merging(order, size, f)
<1> DEFINE T == {n \in Nat : ~\E f : Merging(order, n, f)}
<1>1. SUFFICES ASSUME T # {} PROVE FALSE
  OBVIOUS
<1>2. PICK m \in T : \A k \in T : m <= k
  BY <1>1, LeastNumber
<1>3. CASE m = 0
  <2>1. Merging(order, 0, [n \in 0..0 |-> Start])
    BY DEF Merging
  <2> QED
    BY <1>2, <1>3, <2>1
<1>4. CASE m # 0
  <2>1. m - 1 \in Nat /\ m - 1 \notin T /\ m \in Nat
    BY <1>2, <1>4
  <2>2. PICK f : Merging(order, m - 1, f)
    BY <2>1
  <2> DEFINE g == [n \in 0..m |-> IF n = m THEN Step(f[m - 1], order[m]) ELSE f[n]]
  <2>3. \A n \in 0..(m - 1) : f[n] = IF n = 0 THEN Start ELSE Step(f[n - 1], order[n])
    BY <2>2 DEF Merging
  <2>4. ASSUME NEW n \in 0..m
        PROVE  g[n] = IF n = 0 THEN Start ELSE Step(g[n - 1], order[n])
    <3>1. CASE n = m
      <4>1. g[n] = Step(f[m - 1], order[m]) /\ g[m - 1] = f[m - 1] /\ m - 1 \in 0..m
        BY <2>1, <3>1
      <4> QED
        BY <1>4, <3>1, <4>1
    <3>2. CASE n # m
      <4>1. n \in 0..(m - 1) /\ g[n] = f[n]
        BY <2>1, <3>2
      <4>2. n # 0 => n - 1 \in 0..m /\ n - 1 # m /\ g[n - 1] = f[n - 1]
        BY <2>1
      <4> QED
        BY <2>3, <4>1, <4>2
    <3> QED
      BY <3>1, <3>2
  <2>5. Merging(order, m, g)
    <3> DEFINE h == [n \in 0..m |-> IF n = 0 THEN Start ELSE Step(g[n - 1], order[n])]
    <3>1. \A n \in 0..m : g[n] = h[n]
      BY <2>4
    <3>2. g = h
      BY <3>1
    <3> QED
      BY <3>2 DEF Merging
  <2> QED
    BY <1>2, <2>5
<1> QED
  BY <1>3, <1>4

LEMMA MergeIsMerging ==
    ASSUME NEW S, IsFiniteSet(S)
    PROVE  \E f : Merging(Ordered(S), Cardinality(S), f) /\ Merge(S) = f[Cardinality(S)]
<1> DEFINE f == CHOOSE g : Merging(Ordered(S), Cardinality(S), g)
<1>1. Cardinality(S) \in Nat
  BY FS_CardinalityType
<1>2. Merging(Ordered(S), Cardinality(S), f)
  BY <1>1, MergingExists
<1>3. Merge(S) = f[Cardinality(S)]
  BY DEF Merge, Merging
<1> QED
  BY <1>2, <1>3

(***************************************************************************)
(* What a merge keeps: definitions of a known form, one of a name, and a   *)
(* definition of the interface for every membership.                       *)
(***************************************************************************)
InterfaceFields == {"id", "major", "schema", "requires", "calls", "types", "default",
                    "risk", "owner"}
ProviderFields == {"pkg", "id", "major", "component", "owner"}
PermissionFields == {"id", "grant", "risk", "owner"}
ResourceFields == {"type", "role", "label", "risk", "owner", "manager"}

Formed(def, fields) == def = [f \in fields |-> def[f]]

SameInterface(d, e) == d.id = e.id /\ d.major = e.major
SameProvider(p, q) == p.pkg = q.pkg /\ p.id = q.id /\ p.major = q.major

Unique(next) ==
    /\ \A d, e \in next.interfaces : SameInterface(d, e) => d = e
    /\ \A p, q \in next.providers : SameProvider(p, q) => p = q
    /\ \A p, q \in next.permissions : p.id = q.id => p = q
    /\ \A r, t \in next.resources : SameResource(r, t) => r = t

AllPlain(next) ==
    /\ \A d \in next.interfaces : Formed(d, InterfaceFields)
    /\ \A p \in next.providers : Formed(p, ProviderFields)
    /\ \A p \in next.permissions : Formed(p, PermissionFields)
    /\ \A r \in next.resources : Formed(r, ResourceFields)

Implemented(next) ==
    \A p \in next.providers : \E d \in next.interfaces : SameInterface(d, p)

MergeOK(m) ==
    /\ DOMAIN m = {"fault", "next", "seen"}
    /\ Unique(m.next) /\ AllPlain(m.next) /\ Implemented(m.next)
    /\ \A p \in m.next.providers : p.pkg \in m.seen

LEMMA InterfacesAdded ==
    ASSUME NEW next, NEW s, Unique(next), AllPlain(next), InterfacesFit(next, s),
           NEW add, add = Add(next, s).interfaces
    PROVE  /\ \A d, e \in add : SameInterface(d, e) => d = e
           /\ \A d \in add : Formed(d, InterfaceFields)
           /\ next.interfaces \subseteq add
           /\ \A i \in s.interfaces : \E d \in add : SameInterface(d, i)
<1> DEFINE new(i) == With(Contract(i), "owner", Owner(s))
           fresh == {j \in s.interfaces : Defining(next.interfaces, j) = {}}
<1>1. add = next.interfaces \cup {new(i) : i \in fresh}
  BY DEF Add
<1>2. ASSUME NEW i
      PROVE  Formed(new(i), InterfaceFields) /\ SameInterface(new(i), i)
  BY DEF With, Contract, Formed, InterfaceFields, SameInterface
<1>3. \A i, j \in fresh : SameInterface(i, j) => i = j
  BY DEF InterfacesFit, SameInterface
<1>4. \A i \in fresh : \A d \in next.interfaces : ~SameInterface(d, i)
  BY DEF Defining, SameInterface
<1>5. \A d \in next.interfaces : Formed(d, InterfaceFields)
  BY DEF AllPlain
<1>6. \A d, e \in next.interfaces : SameInterface(d, e) => d = e
  BY DEF Unique
<1>7. \A i \in s.interfaces : i \notin fresh => \E d \in next.interfaces : SameInterface(d, i)
  BY DEF Defining, SameInterface
<1>8. \A a, b, c : /\ SameInterface(a, b) => SameInterface(b, a)
                   /\ SameInterface(a, b) /\ SameInterface(b, c) => SameInterface(a, c)
  BY DEF SameInterface
<1> HIDE DEF new, fresh
<1>9. ASSUME NEW d \in add, NEW e \in add, SameInterface(d, e)
      PROVE  d = e
  <2>1. CASE d \in next.interfaces /\ e \in next.interfaces
    BY <1>6, <1>9, <2>1
  <2>2. CASE d \in next.interfaces /\ e \notin next.interfaces
    <3>1. PICK i \in fresh : e = new(i)
      BY <1>1, <2>2
    <3> QED
      BY <1>2, <1>4, <1>8, <1>9, <2>2, <3>1
  <2>3. CASE d \notin next.interfaces /\ e \in next.interfaces
    <3>1. PICK i \in fresh : d = new(i)
      BY <1>1, <2>3
    <3> QED
      BY <1>2, <1>4, <1>8, <1>9, <2>3, <3>1
  <2>4. CASE d \notin next.interfaces /\ e \notin next.interfaces
    <3>1. PICK i \in fresh, j \in fresh : d = new(i) /\ e = new(j)
      BY <1>1, <2>4
    <3>2. SameInterface(i, j)
      BY <1>2, <1>8, <1>9, <3>1
    <3> QED
      BY <1>3, <3>1, <3>2
  <2> QED
    BY <2>1, <2>2, <2>3, <2>4
<1>10. \A d \in add : Formed(d, InterfaceFields)
  BY <1>1, <1>2, <1>5
<1>11. \A i \in s.interfaces : \E d \in add : SameInterface(d, i)
  BY <1>1, <1>2, <1>7
<1> QED
  BY <1>1, <1>9, <1>10, <1>11

LEMMA ProvidersAdded ==
    ASSUME NEW next, NEW s, Unique(next), AllPlain(next), InterfacesFit(next, s),
           \A p \in next.providers : p.pkg # s.pkg,
           NEW add, add = Add(next, s).providers
    PROVE  /\ \A p, q \in add : SameProvider(p, q) => p = q
           /\ \A p \in add : Formed(p, ProviderFields)
           /\ \A p \in add : p \in next.providers
                  \/ (p.pkg = s.pkg /\ \E i \in s.interfaces : SameInterface(i, p))
<1> DEFINE new(i) == [pkg |-> s.pkg, id |-> i.id, major |-> i.major,
                      component |-> Exporter(s, i), owner |-> Owner(s)]
           exported == {j \in s.interfaces : \E e \in s.exports : e.id = j.id}
<1>1. add = next.providers \cup {new(i) : i \in exported}
  BY DEF Add
<1>2. ASSUME NEW i
      PROVE  /\ Formed(new(i), ProviderFields) /\ SameInterface(i, new(i))
             /\ new(i).pkg = s.pkg
  BY DEF Formed, ProviderFields, SameInterface
<1>3. \A i, j \in exported : SameInterface(i, j) => i = j
  BY DEF InterfacesFit, SameInterface
<1>4. \A p \in next.providers : Formed(p, ProviderFields)
  BY DEF AllPlain
<1>5. \A p, q \in next.providers : SameProvider(p, q) => p = q
  BY DEF Unique
<1>6. \A p, q : SameProvider(p, q) => p.pkg = q.pkg /\ SameInterface(p, q)
  BY DEF SameProvider, SameInterface
<1>7. \A a, b, c : /\ SameInterface(a, b) => SameInterface(b, a)
                   /\ SameInterface(a, b) /\ SameInterface(b, c) => SameInterface(a, c)
  BY DEF SameInterface
<1>8. exported \subseteq s.interfaces
  OBVIOUS
<1> HIDE DEF new, exported
<1>9. ASSUME NEW p \in add, NEW q \in add, SameProvider(p, q)
      PROVE  p = q
  <2>1. CASE p \in next.providers /\ q \in next.providers
    BY <1>5, <1>9, <2>1
  <2>2. CASE p \in next.providers /\ q \notin next.providers
    BY <1>1, <1>2, <1>6, <1>9, <2>2
  <2>3. CASE p \notin next.providers /\ q \in next.providers
    BY <1>1, <1>2, <1>6, <1>9, <2>3
  <2>4. CASE p \notin next.providers /\ q \notin next.providers
    <3>1. PICK i \in exported, j \in exported : p = new(i) /\ q = new(j)
      BY <1>1, <2>4
    <3>2. SameInterface(i, j)
      BY <1>2, <1>6, <1>7, <1>9, <3>1
    <3> QED
      BY <1>3, <3>1, <3>2
  <2> QED
    BY <2>1, <2>2, <2>3, <2>4
<1>10. ASSUME NEW p \in add, p \notin next.providers
       PROVE  p.pkg = s.pkg /\ \E i \in s.interfaces : SameInterface(i, p)
  <2>1. PICK i \in exported : p = new(i)
    BY <1>1, <1>10
  <2> QED
    BY <1>2, <1>8, <2>1
<1>11. \A p \in add : Formed(p, ProviderFields)
  BY <1>1, <1>2, <1>4
<1> QED
  BY <1>9, <1>10, <1>11

LEMMA PermissionsAdded ==
    ASSUME NEW next, NEW s, Unique(next), AllPlain(next), PermissionsFit(next, s),
           NEW add, add = Add(next, s).permissions
    PROVE  /\ \A p, q \in add : p.id = q.id => p = q
           /\ \A p \in add : Formed(p, PermissionFields)
<1> DEFINE new(p) == [id |-> p.id, grant |-> p.grant, risk |-> p.risk, owner |-> Owner(s)]
<1>1. add = next.permissions \cup {new(p) : p \in s.permissions}
  BY DEF Add
<1>2. ASSUME NEW p
      PROVE  Formed(new(p), PermissionFields) /\ new(p).id = p.id
  BY DEF Formed, PermissionFields
<1>3. /\ \A p, q \in s.permissions : p.id = q.id => p = q
      /\ \A p \in s.permissions : \A q \in next.permissions : q.id # p.id
  BY DEF PermissionsFit
<1>4. /\ \A p, q \in next.permissions : p.id = q.id => p = q
      /\ \A p \in next.permissions : Formed(p, PermissionFields)
  BY DEF Unique, AllPlain
<1> HIDE DEF new
<1> QED
  BY <1>1, <1>2, <1>3, <1>4

LEMMA ResourcesAdded ==
    ASSUME NEW next, NEW s, Unique(next), AllPlain(next), ResourcesFit(next, s),
           NEW add, add = Add(next, s).resources
    PROVE  /\ \A r, t \in add : SameResource(r, t) => r = t
           /\ \A r \in add : Formed(r, ResourceFields)
<1> DEFINE new(r) == [type |-> r.type, role |-> r.role, label |-> r.label, risk |-> r.risk,
                      owner |-> Owner(s), manager |-> Manager(s)]
           led(d) == [d EXCEPT !.manager = IF @ = None THEN Manager(s) ELSE @]
           same == {d \in next.resources : \A r \in s.resources : ~SameResource(d, r)}
           taken == {d \in next.resources : \E r \in s.resources : SameResource(d, r)}
           fresh == {r \in s.resources : \A d \in next.resources : ~SameResource(d, r)}
<1>1. add = same \cup {led(d) : d \in taken} \cup {new(r) : r \in fresh}
  BY DEF Add
<1>2. ASSUME NEW r
      PROVE  Formed(new(r), ResourceFields) /\ SameResource(new(r), r)
  BY DEF Formed, ResourceFields, SameResource
<1>3. ASSUME NEW d \in next.resources
      PROVE  Formed(led(d), ResourceFields) /\ SameResource(led(d), d)
  <2>1. Formed(d, ResourceFields)
    BY DEF AllPlain
  <2>2. PICK m : m = IF d.manager = None THEN Manager(s) ELSE d.manager
    OBVIOUS
  <2>3. led(d) = [d EXCEPT !.manager = m]
    BY <2>2
  <2>4. DOMAIN d = ResourceFields
    BY <2>1 DEF Formed
  <2>5. /\ Formed([d EXCEPT !.manager = m], ResourceFields)
        /\ SameResource([d EXCEPT !.manager = m], d)
    BY <2>1, <2>4 DEF Formed, ResourceFields, SameResource
  <2> QED
    BY <2>3, <2>5
<1>4. \A r, t \in s.resources : SameResource(r, t) => r = t
  BY DEF ResourcesFit
<1>5. /\ \A r, t \in next.resources : SameResource(r, t) => r = t
      /\ \A r \in next.resources : Formed(r, ResourceFields)
  BY DEF Unique, AllPlain
<1>6. \A a, b, c : /\ SameResource(a, b) => SameResource(b, a)
                   /\ SameResource(a, b) /\ SameResource(b, c) => SameResource(a, c)
  BY DEF SameResource
<1>7. /\ same \subseteq next.resources /\ taken \subseteq next.resources
      /\ \A d \in same, e \in taken : d # e
      /\ fresh \subseteq s.resources
      /\ \A r \in fresh : \A d \in next.resources : ~SameResource(d, r)
  OBVIOUS
<1> HIDE DEF new, led, same, taken, fresh
<1> DEFINE From(r, d) == SameResource(r, d) /\ ((r = d /\ d \in same) \/ (r = led(d) /\ d \in taken))
<1>8. ASSUME NEW r \in add
      PROVE  (\E d \in next.resources : From(r, d)) \/ (\E u \in fresh : r = new(u))
  <2>1. CASE r \in same
    BY <1>7, <2>1 DEF SameResource
  <2>2. ASSUME NEW d \in taken, r = led(d)
        PROVE  From(r, d) /\ d \in next.resources
    BY <1>3, <1>7, <2>2
  <2>3. \/ r \in same
        \/ \E d \in taken : r = led(d)
        \/ \E u \in fresh : r = new(u)
    BY <1>1
  <2> HIDE DEF From
  <2> QED
    BY <2>1, <2>2, <2>3
<1>9. ASSUME NEW r \in add, NEW t \in add, SameResource(r, t)
      PROVE  r = t
  <2>1. CASE \E d, e \in next.resources : From(r, d) /\ From(t, e)
    <3>1. PICK d \in next.resources, e \in next.resources : From(r, d) /\ From(t, e)
      BY <2>1
    <3>2. d = e
      BY <1>5, <1>6, <1>9, <3>1
    <3> QED
      BY <1>7, <3>1, <3>2
  <2>2. CASE \E d \in next.resources, u \in fresh : From(r, d) /\ t = new(u)
    BY <1>2, <1>6, <1>7, <1>9, <2>2
  <2>3. CASE \E d \in next.resources, u \in fresh : From(t, d) /\ r = new(u)
    BY <1>2, <1>6, <1>7, <1>9, <2>3
  <2>4. CASE \E u, v \in fresh : r = new(u) /\ t = new(v)
    <3>1. PICK u \in fresh, v \in fresh : r = new(u) /\ t = new(v)
      BY <2>4
    <3>2. SameResource(u, v)
      BY <1>2, <1>6, <1>9, <3>1
    <3> QED
      BY <1>4, <1>7, <3>1, <3>2
  <2> QED
    BY <1>8, <2>1, <2>2, <2>3, <2>4
<1>10. \A r \in add : Formed(r, ResourceFields)
  BY <1>1, <1>2, <1>3, <1>5, <1>7
<1> QED
  BY <1>9, <1>10

LEMMA StepKeeps ==
    ASSUME NEW m, NEW s, MergeOK(m)
    PROVE  MergeOK(Step(m, s))
<1>1. CASE m.fault # None
  BY <1>1 DEF Step
<1>2. CASE m.fault = None /\ s.pkg \notin m.seen /\ Fits(m.next, s)
  <2> DEFINE add == Add(m.next, s)
             k == [fault |-> None, next |-> add, seen |-> m.seen \cup {s.pkg}]
  <2>1. Step(m, s) = k
    BY <1>2 DEF Step
  <2>2. PICK next : next = m.next
    OBVIOUS
  <2>3. /\ Unique(next) /\ AllPlain(next) /\ Implemented(next)
        /\ \A p \in next.providers : p.pkg \in m.seen /\ p.pkg # s.pkg
        /\ InterfacesFit(next, s) /\ PermissionsFit(next, s) /\ ResourcesFit(next, s)
    BY <1>2, <2>2 DEF MergeOK, Fits
  <2>4. add = Add(next, s)
    BY <2>2
  <2>5. /\ \A d, e \in add.interfaces : SameInterface(d, e) => d = e
        /\ \A d \in add.interfaces : Formed(d, InterfaceFields)
        /\ next.interfaces \subseteq add.interfaces
        /\ \A i \in s.interfaces : \E d \in add.interfaces : SameInterface(d, i)
    BY <2>3, <2>4, InterfacesAdded
  <2>6. /\ \A p, q \in add.providers : SameProvider(p, q) => p = q
        /\ \A p \in add.providers : Formed(p, ProviderFields)
        /\ \A p \in add.providers : p \in next.providers
               \/ (p.pkg = s.pkg /\ \E i \in s.interfaces : SameInterface(i, p))
    BY <2>3, <2>4, ProvidersAdded
  <2>7. /\ \A p, q \in add.permissions : p.id = q.id => p = q
        /\ \A p \in add.permissions : Formed(p, PermissionFields)
    BY <2>3, <2>4, PermissionsAdded
  <2>8. /\ \A r, t \in add.resources : SameResource(r, t) => r = t
        /\ \A r \in add.resources : Formed(r, ResourceFields)
    BY <2>3, <2>4, ResourcesAdded
  <2> HIDE DEF add
  <2>9. Unique(add) /\ AllPlain(add)
    BY <2>5, <2>6, <2>7, <2>8 DEF Unique, AllPlain
  <2>10. ASSUME NEW p \in add.providers
         PROVE  p.pkg \in m.seen \cup {s.pkg} /\ \E d \in add.interfaces : SameInterface(d, p)
    <3>1. CASE p \in next.providers
      BY <2>3, <2>5, <3>1 DEF Implemented
    <3>2. CASE p.pkg = s.pkg /\ \E i \in s.interfaces : SameInterface(i, p)
      BY <2>5, <3>2 DEF SameInterface
    <3> QED
      BY <2>6, <3>1, <3>2
  <2> QED
    BY <2>1, <2>9, <2>10 DEF MergeOK, Implemented
<1>3. CASE m.fault = None /\ ~(s.pkg \notin m.seen /\ Fits(m.next, s))
  <2>1. Step(m, s) = [m EXCEPT !.fault = s.pkg]
    BY <1>3 DEF Step
  <2>2. PICK k : k = [m EXCEPT !.fault = s.pkg]
    OBVIOUS
  <2>3. DOMAIN k = DOMAIN m /\ k.next = m.next /\ k.seen = m.seen
    BY <2>2 DEF MergeOK
  <2> QED
    BY <2>1, <2>2, <2>3 DEF MergeOK
<1> QED
  BY <1>1, <1>2, <1>3

LEMMA MergeKeeps ==
    ASSUME NEW S, IsFiniteSet(S)
    PROVE  MergeOK(Merge(S))
<1>1. PICK f : Merging(Ordered(S), Cardinality(S), f) /\ Merge(S) = f[Cardinality(S)]
  BY MergeIsMerging
<1> DEFINE size == Cardinality(S)
           order == Ordered(S)
           T == {n \in 0..size : ~MergeOK(f[n])}
<1>2. size \in Nat
  BY FS_CardinalityType
<1>3. \A n \in 0..size : f[n] = IF n = 0 THEN Start ELSE Step(f[n - 1], order[n])
  BY <1>1 DEF Merging
<1>4. ASSUME T # {}
      PROVE  FALSE
  <2> HIDE DEF T
  <2>1. PICK m \in T : \A k \in T : m <= k
    BY <1>4, LeastNumber, T \in SUBSET Nat DEF T
  <2> USE DEF T
  <2>2. CASE m = 0
    <3>1. MergeOK(Start)
      BY DEF MergeOK, Start, Empty, Unique, AllPlain, Implemented
    <3> QED
      BY <1>2, <1>3, <2>1, <2>2, <3>1
  <2>3. CASE m # 0
    <3>1. m - 1 \in 0..size /\ m - 1 \notin T
      BY <1>2, <2>1, <2>3
    <3>2. MergeOK(Step(f[m - 1], order[m]))
      BY <3>1, StepKeeps
    <3> QED
      BY <1>3, <2>1, <2>3, <3>2
  <2> QED
    BY <2>2, <2>3
<1> QED
  BY <1>1, <1>2, <1>4

----------------------------------------------------------------------------
(***************************************************************************)
(* Generations.  A definition of a new catalog is the old one, or it has   *)
(* the new revision; and a definition is its meaning and its generation.   *)
(***************************************************************************)
Whole(d) == d = With(Meaning(d), "generation", d.generation)
WholeProvider(p) ==
    p = With(With(Meaning(p), "definition", p.definition), "generation", p.generation)

Generated(d, fields) == DOMAIN d = fields \cup {"generation"}
GeneratedBy(p, fields) == DOMAIN p = fields \cup {"definition", "generation"}

Stamps(snap) == 1..snap.revision

Good(snap) ==
    /\ snap.revision \in Nat
    /\ Unique(snap)
    /\ \A r, t \in snap.resources : r.role = t.role => r = t
    /\ \A d \in snap.interfaces : Whole(d) /\ d.generation \in Stamps(snap)
    /\ \A p \in snap.providers :
           WholeProvider(p) /\ p.generation \in Stamps(snap) /\ p.definition \in Stamps(snap)
    /\ \A p \in snap.permissions : Whole(p) /\ p.generation \in Stamps(snap)
    /\ \A r \in snap.resources : Whole(r) /\ r.generation \in Stamps(snap)
    /\ \A d \in snap.interfaces : Generated(d, InterfaceFields)
    /\ \A p \in snap.providers : GeneratedBy(p, ProviderFields)
    /\ \A p \in snap.permissions : Generated(p, PermissionFields)
    /\ \A r \in snap.resources : Generated(r, ResourceFields)

Follows(old, new) ==
    /\ new.revision = old.revision + 1
    /\ \A d \in new.interfaces : d \in old.interfaces \/ d.generation = new.revision
    /\ \A p \in new.providers : p \in old.providers \/ p.generation = new.revision
    /\ \A p \in new.permissions : p \in old.permissions \/ p.generation = new.revision
    /\ \A r \in new.resources : r \in old.resources \/ r.generation = new.revision

Unstamped(fields) == "generation" \notin fields /\ "definition" \notin fields

LEMMA WithIsWhole ==
    ASSUME NEW def, NEW fields, Formed(def, fields), Unstamped(fields), NEW g,
           NEW d, d = With(def, "generation", g)
    PROVE  /\ d.generation = g /\ Meaning(d) = def /\ \A f \in fields : d[f] = def[f]
           /\ Generated(d, fields)
<1>1. DOMAIN def = fields
  BY DEF Formed
<1>2. /\ DOMAIN d = fields \cup {"generation"} /\ d["generation"] = g
      /\ \A f \in fields : d[f] = def[f]
  BY <1>1 DEF With, Unstamped
<1>3. Meaning(d) = [f \in fields |-> d[f]]
  <2>1. DOMAIN d \ {"generation", "definition"} = fields
    BY <1>2 DEF Unstamped
  <2> QED
    BY <2>1 DEF Meaning, Restrict
<1>4. Meaning(d) = def
  BY <1>2, <1>3 DEF Formed
<1>5. Generated(d, fields)
  BY <1>2 DEF Generated
<1> QED
  BY <1>2, <1>4, <1>5

LEMMA WithBothIsWhole ==
    ASSUME NEW def, NEW fields, Formed(def, fields), Unstamped(fields), NEW x, NEW g,
           NEW d, d = With(With(def, "definition", x), "generation", g)
    PROVE  /\ d.generation = g /\ d.definition = x /\ Meaning(d) = def
           /\ \A f \in fields : d[f] = def[f]
           /\ GeneratedBy(d, fields)
<1>1. DOMAIN def = fields
  BY DEF Formed
<1>2. PICK e : e = With(def, "definition", x)
  OBVIOUS
<1>3. /\ DOMAIN e = fields \cup {"definition"} /\ e["definition"] = x
      /\ \A f \in fields : e[f] = def[f]
  BY <1>1, <1>2 DEF With, Unstamped
<1>4. /\ DOMAIN d = fields \cup {"generation", "definition"} /\ d["generation"] = g
      /\ d["definition"] = x /\ \A f \in fields : d[f] = def[f]
  BY <1>2, <1>3 DEF With, Unstamped
<1>5. Meaning(d) = [f \in fields |-> d[f]]
  <2>1. DOMAIN d \ {"generation", "definition"} = fields
    BY <1>4 DEF Unstamped
  <2> QED
    BY <2>1 DEF Meaning, Restrict
<1>6. Meaning(d) = def
  BY <1>4, <1>5 DEF Formed
<1>7. GeneratedBy(d, fields)
  BY <1>4 DEF GeneratedBy
<1> QED
  BY <1>4, <1>6, <1>7

LEMMA StampFollows ==
    ASSUME NEW previous, previous.revision \in Nat, NEW fields, Unstamped(fields),
           NEW olds, \A old \in olds : Whole(old) /\ old.generation \in Stamps(previous),
           NEW def, Formed(def, fields),
           NEW d, d = Stamped(previous, olds, def)
    PROVE  /\ Whole(d) /\ d.generation \in 1..(previous.revision + 1)
           /\ d \in olds \/ d.generation = previous.revision + 1
           /\ \A f \in fields : d[f] = def[f]
           /\ Generated(d, fields)
<1> DEFINE g == Generation(previous, olds, def)
<1>1. d = With(def, "generation", g)
  BY DEF Stamped
<1>2. /\ d.generation = g /\ Meaning(d) = def /\ \A f \in fields : d[f] = def[f]
      /\ Generated(d, fields)
  BY <1>1, WithIsWhole
<1>3. CASE \E old \in olds : Meaning(old) = def
  <2>1. PICK old \in olds : Meaning(old) = def /\ g = old.generation
    BY <1>3 DEF Generation
  <2>2. old = d
    BY <1>1, <2>1 DEF Whole
  <2>3. d.generation \in 1..(previous.revision + 1)
    BY <2>2 DEF Stamps
  <2> QED
    BY <1>2, <2>2, <2>3
<1>4. CASE ~\E old \in olds : Meaning(old) = def
  <2>1. g = previous.revision + 1
    BY <1>4 DEF Generation
  <2> QED
    BY <1>1, <1>2, <2>1 DEF Whole
<1> QED
  BY <1>3, <1>4

LEMMA StampProviderFollows ==
    ASSUME NEW previous, previous.revision \in Nat,
           \A old \in previous.providers :
               WholeProvider(old) /\ old.generation \in Stamps(previous),
           NEW interfaces, NEW def, Formed(def, ProviderFields),
           NEW p, p = StampedProvider(previous, interfaces, def)
    PROVE  /\ WholeProvider(p) /\ p.generation \in 1..(previous.revision + 1)
           /\ p \in previous.providers \/ p.generation = previous.revision + 1
           /\ p.definition = (CHOOSE d \in Defining(interfaces, def) : TRUE).generation
           /\ \A f \in ProviderFields : p[f] = def[f]
           /\ GeneratedBy(p, ProviderFields)
<1>1. PICK x : x = (CHOOSE d \in Defining(interfaces, def) : TRUE).generation
  OBVIOUS
<1>2. PICK kept : kept = {old \in previous.providers :
                             Meaning(old) = def /\ old.definition = x}
  OBVIOUS
<1>3. PICK g : g = Generation(previous, kept, def)
  OBVIOUS
<1>4. p = With(With(def, "definition", x), "generation", g)
  BY <1>1, <1>2, <1>3 DEF StampedProvider
<1>5. Unstamped(ProviderFields)
  BY DEF Unstamped, ProviderFields
<1>6. /\ p.generation = g /\ p.definition = x /\ Meaning(p) = def
      /\ \A f \in ProviderFields : p[f] = def[f]
      /\ GeneratedBy(p, ProviderFields)
  BY <1>4, <1>5, WithBothIsWhole
<1>7. WholeProvider(p)
  BY <1>4, <1>6 DEF WholeProvider
<1>8. CASE \E old \in kept : Meaning(old) = def
  <2>1. PICK old \in kept : Meaning(old) = def /\ g = old.generation
    BY <1>3, <1>8 DEF Generation
  <2>2. old \in previous.providers /\ old.definition = x
    BY <1>2, <2>1
  <2>3. old = p
    BY <1>4, <2>1, <2>2 DEF WholeProvider
  <2>4. p.generation \in 1..(previous.revision + 1)
    BY <2>2, <2>3 DEF Stamps
  <2> QED
    BY <1>1, <1>6, <1>7, <2>2, <2>3, <2>4
<1>9. CASE ~\E old \in kept : Meaning(old) = def
  <2>1. g = previous.revision + 1
    BY <1>3, <1>9 DEF Generation
  <2> QED
    BY <1>1, <1>6, <1>7, <2>1
<1> QED
  BY <1>8, <1>9

LEMMA AssignFollows ==
    ASSUME NEW previous, Good(previous),
           NEW next, Unique(next), AllPlain(next), Implemented(next), HandlesUnique(next),
           NEW new, new = Assign(previous, next)
    PROVE  Good(new) /\ Follows(previous, new)
<1>1. PICK n : n = previous.revision + 1
  OBVIOUS
<1>2. previous.revision \in Nat /\ n \in Nat
  BY <1>1 DEF Good
<1>3. /\ new.revision = n
      /\ new.interfaces = {Stamped(previous, previous.interfaces, i) : i \in next.interfaces}
      /\ new.providers = {StampedProvider(previous, new.interfaces, p) : p \in next.providers}
      /\ new.permissions = {Stamped(previous, previous.permissions, p) : p \in next.permissions}
      /\ new.resources = {Stamped(previous, previous.resources, r) : r \in next.resources}
  BY <1>1 DEF Assign
<1>4. Stamps(new) = 1..n
  BY <1>3 DEF Stamps
<1>5. /\ Unstamped(InterfaceFields) /\ Unstamped(PermissionFields) /\ Unstamped(ResourceFields)
  BY DEF Unstamped, InterfaceFields, PermissionFields, ResourceFields
<1>6. ASSUME NEW i \in next.interfaces, NEW d, d = Stamped(previous, previous.interfaces, i)
      PROVE  /\ Whole(d) /\ d.generation \in 1..n
             /\ d \in previous.interfaces \/ d.generation = n
             /\ SameInterface(d, i)
             /\ Generated(d, InterfaceFields)
  <2>1. Formed(i, InterfaceFields)
    BY DEF AllPlain
  <2>2. \A old \in previous.interfaces : Whole(old) /\ old.generation \in Stamps(previous)
    BY DEF Good
  <2>3. /\ Whole(d) /\ d.generation \in 1..(previous.revision + 1)
        /\ d \in previous.interfaces \/ d.generation = previous.revision + 1
        /\ \A f \in InterfaceFields : d[f] = i[f]
        /\ Generated(d, InterfaceFields)
    BY <1>2, <1>5, <1>6, <2>1, <2>2, StampFollows
  <2>4. SameInterface(d, i)
    BY <2>3 DEF SameInterface, InterfaceFields
  <2> QED
    BY <1>1, <2>3, <2>4
<1>7. ASSUME NEW q \in next.permissions, NEW p, p = Stamped(previous, previous.permissions, q)
      PROVE  /\ Whole(p) /\ p.generation \in 1..n
             /\ p \in previous.permissions \/ p.generation = n
             /\ p.id = q.id
             /\ Generated(p, PermissionFields)
  <2>1. Formed(q, PermissionFields)
    BY DEF AllPlain
  <2>2. \A old \in previous.permissions : Whole(old) /\ old.generation \in Stamps(previous)
    BY DEF Good
  <2>3. /\ Whole(p) /\ p.generation \in 1..(previous.revision + 1)
        /\ p \in previous.permissions \/ p.generation = previous.revision + 1
        /\ \A f \in PermissionFields : p[f] = q[f]
        /\ Generated(p, PermissionFields)
    BY <1>2, <1>5, <1>7, <2>1, <2>2, StampFollows
  <2>4. p.id = q.id
    BY <2>3 DEF PermissionFields
  <2> QED
    BY <1>1, <2>3, <2>4
<1>8. ASSUME NEW t \in next.resources, NEW r, r = Stamped(previous, previous.resources, t)
      PROVE  /\ Whole(r) /\ r.generation \in 1..n
             /\ r \in previous.resources \/ r.generation = n
             /\ r.type = t.type /\ r.role = t.role
             /\ Generated(r, ResourceFields)
  <2>1. Formed(t, ResourceFields)
    BY DEF AllPlain
  <2>2. \A old \in previous.resources : Whole(old) /\ old.generation \in Stamps(previous)
    BY DEF Good
  <2>3. /\ Whole(r) /\ r.generation \in 1..(previous.revision + 1)
        /\ r \in previous.resources \/ r.generation = previous.revision + 1
        /\ \A f \in ResourceFields : r[f] = t[f]
        /\ Generated(r, ResourceFields)
    BY <1>2, <1>5, <1>8, <2>1, <2>2, StampFollows
  <2>4. r.type = t.type /\ r.role = t.role
    BY <2>3 DEF ResourceFields
  <2> QED
    BY <1>1, <2>3, <2>4
<1>9. ASSUME NEW q \in next.providers, NEW p, p = StampedProvider(previous, new.interfaces, q)
      PROVE  /\ WholeProvider(p) /\ p.generation \in 1..n /\ p.definition \in 1..n
             /\ p \in previous.providers \/ p.generation = n
             /\ SameProvider(p, q)
             /\ GeneratedBy(p, ProviderFields)
  <2>1. Formed(q, ProviderFields)
    BY DEF AllPlain
  <2>2. \A old \in previous.providers :
            WholeProvider(old) /\ old.generation \in Stamps(previous)
    BY DEF Good
  <2>3. /\ WholeProvider(p) /\ p.generation \in 1..(previous.revision + 1)
        /\ p \in previous.providers \/ p.generation = previous.revision + 1
        /\ p.definition = (CHOOSE d \in Defining(new.interfaces, q) : TRUE).generation
        /\ \A f \in ProviderFields : p[f] = q[f]
        /\ GeneratedBy(p, ProviderFields)
    BY <1>2, <1>9, <2>1, <2>2, StampProviderFollows
  <2>4. SameProvider(p, q)
    BY <2>3 DEF SameProvider, ProviderFields
  <2>5. PICK i \in next.interfaces : SameInterface(i, q)
    BY DEF Implemented
  <2>6. \E d \in new.interfaces : SameInterface(d, q)
    BY <1>3, <1>6, <2>5 DEF SameInterface
  <2>7. Defining(new.interfaces, q) # {}
    BY <2>6 DEF Defining, SameInterface
  <2>8. \A d \in Defining(new.interfaces, q) : d.generation \in 1..n
    BY <1>3, <1>6 DEF Defining
  <2>9. p.definition \in 1..n
    BY <2>3, <2>7, <2>8
  <2> QED
    BY <1>1, <2>3, <2>4, <2>9
<1>10. Follows(previous, new)
  BY <1>1, <1>3, <1>6, <1>7, <1>8, <1>9 DEF Follows
<1>11. \A d, e \in new.interfaces : SameInterface(d, e) => d = e
  BY <1>3, <1>6 DEF Unique, SameInterface
<1>12. \A p, q \in new.providers : SameProvider(p, q) => p = q
  <2> DEFINE st(p) == StampedProvider(previous, new.interfaces, p)
  <2>1. new.providers = {st(p) : p \in next.providers}
    BY <1>3
  <2>2. \A q \in next.providers : SameProvider(st(q), q)
    BY <1>9
  <2>3. \A p, q \in next.providers : SameProvider(p, q) => p = q
    BY DEF Unique
  <2> HIDE DEF st
  <2>4. ASSUME NEW p \in next.providers, NEW q \in next.providers, SameProvider(st(p), st(q))
        PROVE  p = q
    BY <2>2, <2>3, <2>4 DEF SameProvider
  <2> QED
    BY <2>1, <2>4
<1>13. \A p, q \in new.permissions : p.id = q.id => p = q
  BY <1>3, <1>7 DEF Unique
<1>14. \A r, t \in new.resources : r.role = t.role => r = t
  BY <1>3, <1>8 DEF HandlesUnique
<1>15. Unique(new)
  BY <1>11, <1>12, <1>13, <1>14 DEF Unique, SameResource
<1>16. \A d \in new.interfaces :
          Whole(d) /\ d.generation \in Stamps(new) /\ Generated(d, InterfaceFields)
  BY <1>3, <1>4, <1>6
<1>17. \A p \in new.providers :
          /\ WholeProvider(p) /\ p.generation \in Stamps(new) /\ p.definition \in Stamps(new)
          /\ GeneratedBy(p, ProviderFields)
  BY <1>3, <1>4, <1>9
<1>18. \A p \in new.permissions :
          Whole(p) /\ p.generation \in Stamps(new) /\ Generated(p, PermissionFields)
  BY <1>3, <1>4, <1>7
<1>19. \A r \in new.resources :
          Whole(r) /\ r.generation \in Stamps(new) /\ Generated(r, ResourceFields)
  BY <1>3, <1>4, <1>8
<1> QED
  BY <1>2, <1>3, <1>10, <1>14, <1>15, <1>16, <1>17, <1>18, <1>19 DEF Good

LEMMA StampsGrow ==
    ASSUME NEW old, Good(old), NEW new, Follows(old, new)
    PROVE  /\ Stamps(old) \subseteq Stamps(new)
           /\ new.revision \notin Stamps(old)
<1>1. PICK n \in Nat : n = old.revision
  BY DEF Good
<1> QED
  BY <1>1 DEF Follows, Stamps

\* Builder.Build of a finite set of sources.
LEMMA BuildFollows ==
    ASSUME NEW previous, Good(previous),
           NEW S, IsFiniteSet(S), \A s \in S : s.pkg # None,
           Build(previous, S).fault = None
    PROVE  /\ Good(Build(previous, S).snapshot)
           /\ Follows(previous, Build(previous, S).snapshot)
<1>1. \A s \in S : s.intact
  <2> SUFFICES ASSUME \E s \in S : ~s.intact
               PROVE  FALSE
    OBVIOUS
  <2>1. PICK s \in S : s = CHOOSE t \in S : ~t.intact
    OBVIOUS
  <2>2. Build(previous, S).fault = s.pkg
    BY <2>1 DEF Build, Failed
  <2> QED
    BY <2>1, <2>2
<1>2. PICK m : m = Merge(S)
  OBVIOUS
<1>3. MergeOK(m)
  BY <1>2, MergeKeeps
<1>4. Unnamed # None
  BY BuilderAssumption
<1>5. /\ m.fault = None /\ PermissionsDefined(m.next) /\ HandlesUnique(m.next)
      /\ Build(previous, S) = [fault |-> None, snapshot |-> Assign(previous, m.next)]
  BY <1>1, <1>2, <1>4 DEF Build, Failed
<1>6. Build(previous, S).snapshot = Assign(previous, m.next)
  BY <1>5
<1> QED
  BY <1>3, <1>5, <1>6, AssignFollows DEF MergeOK

LEMMA NothingIsGood == Good(Nothing)
BY DEF Good, Nothing, Unique

\* The first catalog may also have failed: it is empty then.
LEMMA BuildIsGood ==
    ASSUME NEW previous, Good(previous),
           NEW S, IsFiniteSet(S), \A s \in S : s.pkg # None
    PROVE  Good(Build(previous, S).snapshot)
<1>1. CASE Build(previous, S).fault = None
  BY <1>1, BuildFollows
<1>2. CASE Build(previous, S).fault # None
  <2>1. Build(previous, S).snapshot = Nothing
    BY <1>2 DEF Build, Failed
  <2> QED
    BY <2>1, NothingIsGood
<1> QED
  BY <1>1, <1>2

----------------------------------------------------------------------------
(***************************************************************************)
(* The registry over a boot.  The quarantine is a recursion on the sets of *)
(* sources, each round on a smaller one.                                   *)
(***************************************************************************)
Victims(previous, S) == FirstOf(S, Build(previous, Bootstrap \cup S).fault)
Guilty(previous, S) ==
    Build(previous, Bootstrap \cup S).fault # None /\ Victims(previous, S) # {}
Outcome(previous, S) == [built |-> Build(previous, Bootstrap \cup S), kept |-> S]
Round(previous, S, f) ==
    IF Guilty(previous, S) THEN f[S \ Victims(previous, S)] ELSE Outcome(previous, S)
Rounds(previous, D, f) == f = [S \in D |-> Round(previous, S, f)]

UpTo(sources, n) == {S \in SUBSET sources : Cardinality(S) <= n}

LEMMA SmallerRound ==
    ASSUME NEW sources, IsFiniteSet(sources), NEW S \in SUBSET sources,
           NEW previous, Guilty(previous, S)
    PROVE  /\ S \ Victims(previous, S) \in SUBSET sources
           /\ Cardinality(S) \in Nat /\ Cardinality(S \ Victims(previous, S)) \in Nat
           /\ Cardinality(S \ Victims(previous, S)) < Cardinality(S)
<1>1. IsFiniteSet(S)
  BY FS_Subset
<1>2. PICK R : R = S \ Victims(previous, S)
  OBVIOUS
<1>3. R \subseteq S /\ R # S
  BY <1>2 DEF Guilty, Victims, FirstOf
<1>4. /\ IsFiniteSet(R) /\ Cardinality(R) <= Cardinality(S)
      /\ Cardinality(R) # Cardinality(S)
  <2>1. R \in SUBSET S
    BY <1>3
  <2> QED
    BY <1>1, <1>3, <2>1, FS_Subset
<1>5. Cardinality(R) \in Nat /\ Cardinality(S) \in Nat
  BY <1>1, <1>4, FS_CardinalityType
<1>7. Cardinality(R) < Cardinality(S)
  BY <1>4, <1>5
<1>6. R \in SUBSET sources
  BY <1>3
<1> QED
  BY <1>2, <1>5, <1>6, <1>7, Zenon

LEMMA RoundsUpTo ==
    ASSUME NEW sources, IsFiniteSet(sources), NEW previous, NEW n \in Nat
    PROVE  \E f : Rounds(previous, UpTo(sources, n), f)
<1> DEFINE T == {k \in Nat : ~\E f : Rounds(previous, UpTo(sources, k), f)}
<1>1. SUFFICES ASSUME T # {} PROVE FALSE
  OBVIOUS
<1>2. PICK m \in T : \A k \in T : m <= k
  BY <1>1, LeastNumber
<1>3. PICK g : \A S \in SUBSET sources : Cardinality(S) < m => g[S] = Round(previous, S, g)
  <2>1. CASE m = 0
    <3>1. \A S \in SUBSET sources : Cardinality(S) \in Nat
      BY FS_Subset, FS_CardinalityType
    <3> QED
      BY <2>1, <3>1
  <2>2. CASE m # 0
    <3>1. m - 1 \in Nat /\ m - 1 \notin T /\ m \in Nat
      BY <1>2, <2>2
    <3>2. PICK g : Rounds(previous, UpTo(sources, m - 1), g)
      BY <3>1
    <3>3. ASSUME NEW S \in SUBSET sources, Cardinality(S) < m
          PROVE  g[S] = Round(previous, S, g)
      <4>1. Cardinality(S) \in Nat
        BY FS_Subset, FS_CardinalityType
      <4>2. S \in UpTo(sources, m - 1)
        BY <3>1, <3>3, <4>1 DEF UpTo
      <4>3. g = [R \in UpTo(sources, m - 1) |-> Round(previous, R, g)]
        BY <3>2 DEF Rounds
      <4> HIDE DEF T
      <4>4. PICK h : h = [R \in UpTo(sources, m - 1) |-> Round(previous, R, g)]
        OBVIOUS
      <4> QED
        BY <4>2, <4>3, <4>4
    <3> QED
      BY <3>3
  <2> QED
    BY <2>1, <2>2
<1> DEFINE D == UpTo(sources, m)
           f == [S \in D |-> Round(previous, S, g)]
<1>4. ASSUME NEW S \in D
      PROVE  Round(previous, S, f) = Round(previous, S, g)
  <2>1. CASE Guilty(previous, S)
    <3>1. PICK R : R = S \ Victims(previous, S)
      OBVIOUS
    <3>2. R \in SUBSET sources /\ Cardinality(R) \in Nat /\ Cardinality(R) < m
      <4>1. S \in SUBSET sources /\ Cardinality(S) <= m
        BY DEF UpTo
      <4>2. m \in Nat
        OBVIOUS
      <4> QED
        BY <2>1, <3>1, <4>1, <4>2, SmallerRound
    <3>3. R \in D
      BY <3>2 DEF UpTo
    <3>4. f[R] = Round(previous, R, g) /\ g[R] = Round(previous, R, g)
      BY <1>3, <3>2, <3>3
    <3> QED
      BY <2>1, <3>1, <3>4 DEF Round
  <2>2. CASE ~Guilty(previous, S)
    BY <2>2 DEF Round
  <2> QED
    BY <2>1, <2>2
<1>5. Rounds(previous, D, f)
  <2> DEFINE h == [S \in D |-> Round(previous, S, f)]
  <2>1. \A S \in D : f[S] = h[S]
    BY <1>4
  <2>2. f = h
    <3> HIDE DEF D
    <3> QED
      BY <2>1
  <2> QED
    BY <2>2 DEF Rounds
<1> QED
  BY <1>2, <1>5

LEMMA RoundsExist ==
    ASSUME NEW sources, IsFiniteSet(sources), NEW previous
    PROVE  \E f : Rounds(previous, SUBSET sources, f)
<1>1. Cardinality(sources) \in Nat
  BY FS_CardinalityType
<1>2. UpTo(sources, Cardinality(sources)) = SUBSET sources
  <2>1. \A S \in SUBSET sources : Cardinality(S) <= Cardinality(sources)
    BY FS_Subset
  <2> QED
    BY <2>1 DEF UpTo
<1>3. PICK n \in Nat : n = Cardinality(sources)
  BY <1>1
<1>4. \E f : Rounds(previous, UpTo(sources, n), f)
  BY RoundsUpTo
<1>5. UpTo(sources, n) = SUBSET sources
  BY <1>2, <1>3
<1> QED
  BY <1>4, <1>5

\* What comes of a quarantine is the build of what it keeps.
LEMMA QuarantineBuilds ==
    ASSUME NEW sources, IsFiniteSet(sources), NEW previous
    PROVE  \E kept \in SUBSET sources :
               Quarantine(previous, sources) = Outcome(previous, kept)
<1> DEFINE f == CHOOSE g : Rounds(previous, SUBSET sources, g)
<1>1. Rounds(previous, SUBSET sources, f)
  BY RoundsExist
<1>2. Quarantine(previous, sources) = f[sources]
  BY DEF Quarantine, Rounds, Round, Guilty, Victims, Outcome
<1>3. \A S \in SUBSET sources : f[S] = Round(previous, S, f)
  <2> DEFINE h == [S \in SUBSET sources |-> Round(previous, S, f)]
  <2>1. f = h
    BY <1>1 DEF Rounds
  <2>2. \A S \in SUBSET sources : h[S] = Round(previous, S, f)
    OBVIOUS
  <2> HIDE DEF h, f
  <2> QED
    BY <2>1, <2>2
<1> HIDE DEF f
<1> DEFINE T == {n \in Nat : \E S \in SUBSET sources :
                    Cardinality(S) = n /\ \A kept \in SUBSET sources : f[S] # Outcome(previous, kept)}
<1>4. ASSUME T # {}
      PROVE  FALSE
  <2>1. PICK m \in T : \A k \in T : m <= k
    BY <1>4, LeastNumber
  <2>2. PICK S \in SUBSET sources :
          Cardinality(S) = m /\ \A kept \in SUBSET sources : f[S] # Outcome(previous, kept)
    BY <2>1
  <2>3. Guilty(previous, S) /\ f[S] = f[S \ Victims(previous, S)]
    BY <1>3, <2>2 DEF Round
  <2>4. PICK R : R = S \ Victims(previous, S)
    OBVIOUS
  <2>5. R \in SUBSET sources /\ Cardinality(R) \in Nat /\ Cardinality(R) < m /\ m \in Nat
    BY <2>2, <2>3, <2>4, SmallerRound
  <2>6. Cardinality(R) \in T
    BY <2>2, <2>3, <2>4, <2>5
  <2> QED
    BY <2>1, <2>5, <2>6
<1>5. Cardinality(sources) \in Nat /\ sources \in SUBSET sources
  BY FS_CardinalityType
<1> QED
  BY <1>2, <1>4, <1>5

(***************************************************************************)
(* The history of a boot's catalogs.                                       *)
(***************************************************************************)
Sound(S) == IsFiniteSet(S) /\ \A s \in S : s.pkg # None

LEMMA SoundParts ==
    ASSUME NEW S, Sound(S), NEW T, T \subseteq S
    PROVE  Sound(T) /\ Sound(Bootstrap \cup T)
<1>1. Sound(T)
  BY FS_Subset DEF Sound
<1>2. Sound(Bootstrap)
  BY BuilderAssumption DEF Sound
<1> QED
  BY <1>1, <1>2, FS_Union DEF Sound

LEMMA ChangedIsSound ==
    ASSUME NEW S, Sound(S), NEW pkg, NEW s, s = None \/ s.pkg # None
    PROVE  Sound(Changed(S, pkg, s))
<1>1. Sound({t \in S : t.pkg # pkg})
  BY SoundParts
<1>2. Sound(IF s = None THEN {} ELSE {s})
  BY FS_EmptySet, FS_Singleton DEF Sound
<1> QED
  BY <1>1, <1>2, FS_Union DEF Changed, Sound

\* Definitions of two kinds never have the same name.
NameFields == {"pkg", "id", "major", "type", "role"}
Kind(d) == DOMAIN d \cap NameFields
Kinds(snap) ==
    /\ \A d \in snap.interfaces : Kind(d) = {"id", "major"}
    /\ \A p \in snap.providers : Kind(p) = {"pkg", "id", "major"}
    /\ \A p \in snap.permissions : Kind(p) = {"id"}
    /\ \A r \in snap.resources : Kind(r) = {"type", "role"}

LEMMA GoodHasKinds ==
    ASSUME NEW snap, Good(snap)
    PROVE  Kinds(snap)
<1>1. ASSUME NEW d \in snap.interfaces
      PROVE  Kind(d) = {"id", "major"}
  BY DEF Good, Generated, Kind, NameFields, InterfaceFields
<1>2. ASSUME NEW p \in snap.providers
      PROVE  Kind(p) = {"pkg", "id", "major"}
  BY DEF Good, GeneratedBy, Kind, NameFields, ProviderFields
<1>3. ASSUME NEW p \in snap.permissions
      PROVE  Kind(p) = {"id"}
  BY DEF Good, Generated, Kind, NameFields, PermissionFields
<1>4. ASSUME NEW r \in snap.resources
      PROVE  Kind(r) = {"type", "role"}
  BY DEF Good, Generated, Kind, NameFields, ResourceFields
<1> QED
  BY <1>1, <1>2, <1>3, <1>4 DEF Kinds

LEMMA NamesCompare ==
    ASSUME NEW d, NEW e, Name(d) = Name(e)
    PROVE  Kind(d) = Kind(e) /\ \A f \in Kind(d) : d[f] = e[f]
<1>1. Name(d) = [f \in Kind(d) |-> d[f]] /\ Name(e) = [f \in Kind(e) |-> e[f]]
  <2>1. ASSUME NEW x
        PROVE  Name(x) = [f \in Kind(x) |-> x[f]]
    BY DEF Name, Kind, NameFields, Restrict
  <2> QED
    BY <2>1
<1>2. Kind(d) = Kind(e)
  BY <1>1
<1>3. ASSUME NEW f \in Kind(d)
      PROVE  d[f] = e[f]
  <2>1. Name(d)[f] = d[f] /\ Name(e)[f] = e[f]
    BY <1>1, <1>2
  <2> QED
    BY <2>1
<1> QED
  BY <1>2, <1>3

LEMMA NamesAreUnique ==
    ASSUME NEW snap, Good(snap),
           NEW d \in Definitions(snap), NEW e \in Definitions(snap), Name(d) = Name(e)
    PROVE  d = e
<1>1. Kinds(snap) /\ Unique(snap)
  BY GoodHasKinds DEF Good
<1>2. Kind(d) = Kind(e) /\ \A f \in Kind(d) : d[f] = e[f]
  BY NamesCompare
<1>3. /\ \A x \in snap.interfaces :
             "major" \in Kind(x) /\ "pkg" \notin Kind(x) /\ "type" \notin Kind(x)
      /\ \A x \in snap.providers : "pkg" \in Kind(x)
      /\ \A x \in snap.permissions :
             "major" \notin Kind(x) /\ "pkg" \notin Kind(x) /\ "type" \notin Kind(x)
      /\ \A x \in snap.resources : "pkg" \notin Kind(x) /\ "type" \in Kind(x)
  BY <1>1 DEF Kinds
<1>4. \/ e \in snap.interfaces \/ e \in snap.providers
      \/ e \in snap.permissions \/ e \in snap.resources
  BY DEF Definitions
<1>5. CASE d \in snap.interfaces
  <2>1. Kind(d) = {"id", "major"}
    BY <1>1, <1>5 DEF Kinds
  <2>2. e \in snap.interfaces
    BY <1>2, <1>3, <1>4, <1>5
  <2>3. d.id = e.id /\ d.major = e.major
    BY <1>2, <2>1
  <2> QED
    BY <1>1, <1>5, <2>2, <2>3 DEF Unique, SameInterface
<1>6. CASE d \in snap.providers
  <2>1. Kind(d) = {"pkg", "id", "major"}
    BY <1>1, <1>6 DEF Kinds
  <2>2. e \in snap.providers
    BY <1>2, <1>3, <1>4, <1>6
  <2>3. d.pkg = e.pkg /\ d.id = e.id /\ d.major = e.major
    BY <1>2, <2>1
  <2> QED
    BY <1>1, <1>6, <2>2, <2>3 DEF Unique, SameProvider
<1>7. CASE d \in snap.permissions
  <2>1. Kind(d) = {"id"}
    BY <1>1, <1>7 DEF Kinds
  <2>2. e \in snap.permissions
    BY <1>2, <1>3, <1>4, <1>7
  <2>3. d.id = e.id
    BY <1>2, <2>1
  <2> QED
    BY <1>1, <1>7, <2>2, <2>3 DEF Unique
<1>8. CASE d \in snap.resources
  <2>1. Kind(d) = {"type", "role"}
    BY <1>1, <1>8 DEF Kinds
  <2>2. e \in snap.resources
    BY <1>2, <1>3, <1>4, <1>8
  <2>3. d.type = e.type /\ d.role = e.role
    BY <1>2, <2>1
  <2> QED
    BY <1>1, <1>8, <2>2, <2>3 DEF Unique, SameResource
<1> QED
  BY <1>5, <1>6, <1>7, <1>8 DEF Definitions

LEMMA DefinitionsFollow ==
    ASSUME NEW old, NEW new, Good(new), Follows(old, new), NEW d \in Definitions(new)
    PROVE  /\ d \in Definitions(old) \/ d.generation = new.revision
           /\ d.generation \in Stamps(new)
BY DEF Definitions, Follows, Good

\* The definitions of a set are dated by a catalog, and told apart by their
\* generations.
AllDated(D, snap) == \A d \in D : d.generation \in Stamps(snap)
Identified(D) == \A d, e \in D : Name(d) = Name(e) /\ d.generation = e.generation => d = e

\* What a boot has published, and what its callers have prepared.
History ==
    /\ Good(current) /\ Definitions(current) \subseteq seen
    /\ AllDated(seen, current) /\ GenerationIdentifies
Prepared ==
    \A c \in Caller : candidate[c] # None =>
        LET new == candidate[c]
        IN  /\ Good(new.snapshot) /\ Follows(new.base, new.snapshot)
            /\ Sound(new.active) /\ (new.source = None \/ new.source.pkg # None)

CatalogInv ==
    /\ Sound(disk) /\ Sound(active) /\ DOMAIN candidate = Caller
    /\ History /\ Prepared

\* One catalog more.
LEMMA HistoryGoesOn ==
    ASSUME NEW old, Good(old), NEW before, Definitions(old) \subseteq before,
           AllDated(before, old), Identified(before),
           NEW new, Good(new), Follows(old, new),
           NEW after, after = before \cup Definitions(new)
    PROVE  AllDated(after, new) /\ Identified(after)
<1>1. Stamps(old) \subseteq Stamps(new) /\ new.revision \notin Stamps(old)
  BY StampsGrow
<1>2. \A d \in Definitions(new) :
          (d \in before \/ d.generation = new.revision) /\ d.generation \in Stamps(new)
  BY DefinitionsFollow
<1>3. AllDated(after, new)
  BY <1>1, <1>2 DEF AllDated
<1>4. ASSUME NEW d \in after, NEW e \in after, Name(d) = Name(e), d.generation = e.generation
      PROVE  d = e
  <2>1. CASE d.generation = new.revision
    <3>1. d \in Definitions(new) /\ e \in Definitions(new)
      BY <1>1, <1>4, <2>1 DEF AllDated
    <3> QED
      BY <1>4, <3>1, NamesAreUnique
  <2>2. CASE d.generation # new.revision
    <3>1. d \in before /\ e \in before
      BY <1>2, <1>4, <2>2
    <3> QED
      BY <1>4, <3>1 DEF Identified
  <2> QED
    BY <2>1, <2>2
<1> QED
  BY <1>3, <1>4 DEF Identified

LEMMA CatalogStarts == CatalogInit => CatalogInv
<1> SUFFICES ASSUME CatalogInit PROVE CatalogInv
  OBVIOUS
<1>1. Sound(disk)
  BY CatalogAssumption DEF CatalogInit, Sound
<1>2. Sound({})
  BY FS_EmptySet DEF Sound
<1>3. Good(current) /\ Definitions(current) = {}
  BY NothingIsGood DEF CatalogInit, Nothing, Definitions
<1>4. History
  BY <1>3 DEF CatalogInit, History, GenerationIdentifies, AllDated
<1>5. DOMAIN candidate = Caller /\ Prepared
  BY DEF CatalogInit, Prepared
<1> QED
  BY <1>1, <1>2, <1>4, <1>5 DEF CatalogInit, CatalogInv

LEMMA BootKeeps ==
    ASSUME CatalogInv, Boot
    PROVE  CatalogInv'
<1>1. PICK result : result = Quarantine(First, disk)
  OBVIOUS
<1>2. UNCHANGED <<disk, candidate>> /\ Sound(disk)
  BY DEF Boot, CatalogInv
<1>3. DOMAIN candidate' = Caller /\ Prepared'
  BY <1>2 DEF CatalogInv, Prepared
<1>4. CASE result.built.fault = None
  <2>1. /\ active' = result.kept /\ current' = result.built.snapshot
        /\ seen' = Definitions(First) \cup Definitions(result.built.snapshot)
    BY <1>1, <1>4 DEF Boot
  <2>2. PICK kept \in SUBSET disk : result = Outcome(First, kept)
    BY <1>1, <1>2, QuarantineBuilds DEF Sound
  <2>3. result.kept = kept /\ result.built = Build(First, Bootstrap \cup kept)
    BY <2>2 DEF Outcome
  <2>4. Sound(kept) /\ Sound(Bootstrap \cup kept)
    BY <1>2, SoundParts
  <2>5. Good(First)
    BY NothingIsGood, BuildIsGood, BuilderAssumption DEF First
  <2>6. Good(current') /\ Follows(First, current')
    BY <1>4, <2>1, <2>3, <2>4, <2>5, BuildFollows DEF Sound
  <2>7. AllDated(Definitions(First), First)
    BY <2>5 DEF Definitions, Good, AllDated
  <2>8. Identified(Definitions(First))
    BY <2>5, NamesAreUnique DEF Identified
  <2>9. AllDated(seen', current') /\ Identified(seen')
    <3>1. PICK old, before, new, after :
            /\ old = First /\ before = Definitions(First)
            /\ new = current' /\ after = seen'
      OBVIOUS
    <3>2. /\ Good(old) /\ Definitions(old) \subseteq before
          /\ AllDated(before, old) /\ Identified(before)
      BY <2>5, <2>7, <2>8, <3>1
    <3>3. Good(new) /\ Follows(old, new) /\ after = before \cup Definitions(new)
      BY <2>1, <2>6, <3>1
    <3>4. AllDated(after, new) /\ Identified(after)
      BY <3>2, <3>3, HistoryGoesOn
    <3> QED
      BY <3>1, <3>4
  <2>10. History'
    BY <2>1, <2>6, <2>9 DEF History, GenerationIdentifies, Identified, AllDated
  <2> QED
    BY <1>2, <1>3, <2>1, <2>3, <2>4, <2>10 DEF CatalogInv
<1>5. CASE result.built.fault # None
  <2>1. UNCHANGED <<active, current, seen>>
    BY <1>1, <1>5 DEF Boot
  <2>2. History'
    BY <2>1 DEF CatalogInv, History, GenerationIdentifies, AllDated
  <2> QED
    BY <1>2, <1>3, <2>1, <2>2 DEF CatalogInv
<1> QED
  BY <1>4, <1>5

LEMMA PrepareKeeps ==
    ASSUME CatalogInv, NEW c \in Caller, NEW pkg, NEW s, s = None \/ s.pkg # None,
           Prepare(c, pkg, s)
    PROVE  CatalogInv'
<1>1. PICK new : new = Candidate(pkg, s)
  OBVIOUS
<1>2. /\ new.fault = None /\ candidate' = [candidate EXCEPT ![c] = new]
      /\ UNCHANGED <<disk, active, current, seen>>
  BY <1>1 DEF Prepare
<1>3. PICK S : S = Bootstrap \cup Changed(active, pkg, s)
  OBVIOUS
<1>4. /\ new.fault = Build(current, S).fault /\ new.snapshot = Build(current, S).snapshot
      /\ new.base = current /\ new.active = active /\ new.source = s
  BY <1>1, <1>3 DEF Candidate
<1>5. Sound(active) /\ Good(current)
  BY DEF CatalogInv, History
<1>6. Sound(S)
  BY <1>3, <1>5, ChangedIsSound, SoundParts
<1>7. Good(new.snapshot) /\ Follows(new.base, new.snapshot)
  BY <1>2, <1>4, <1>5, <1>6, BuildFollows DEF Sound
<1>8. Prepared' /\ DOMAIN candidate' = Caller
  <2>1. \A d \in Caller : candidate'[d] = new \/ candidate'[d] = candidate[d]
    BY <1>2 DEF CatalogInv
  <2> QED
    BY <1>2, <1>4, <1>5, <1>7, <2>1 DEF CatalogInv, Prepared
<1>9. History'
  BY <1>2 DEF CatalogInv, History, GenerationIdentifies, AllDated
<1> QED
  BY <1>2, <1>8, <1>9 DEF CatalogInv

LEMMA PublishKeeps ==
    ASSUME CatalogInv, NEW c \in Caller, Publish(c)
    PROVE  CatalogInv'
<1>1. PICK new : new = candidate[c]
  OBVIOUS
<1>2. candidate[c] # None /\ candidate' = [candidate EXCEPT ![c] = None]
  BY DEF Publish
<1>3. Prepared' /\ DOMAIN candidate' = Caller
  BY <1>2 DEF CatalogInv, Prepared
<1>4. CASE Fresh(c)
  <2>1. /\ current' = new.snapshot /\ active' = Changed(new.active, new.pkg, new.source)
        /\ disk' = {t \in disk : ~Installed(t)}
                       \cup Changed({t \in disk : Installed(t)}, new.pkg, new.source)
        /\ seen' = seen \cup Definitions(new.snapshot)
    BY <1>1, <1>4 DEF Publish
  <2>2. /\ Good(new.snapshot) /\ Follows(current, new.snapshot)
        /\ Sound(new.active) /\ (new.source = None \/ new.source.pkg # None)
    BY <1>1, <1>2, <1>4 DEF CatalogInv, Prepared, Fresh
  <2>3. Sound(active') /\ Sound(disk')
    <3>1. Sound({t \in disk : ~Installed(t)}) /\ Sound({t \in disk : Installed(t)})
      BY SoundParts DEF CatalogInv
    <3>2. Sound(Changed({t \in disk : Installed(t)}, new.pkg, new.source))
      BY <2>2, <3>1, ChangedIsSound
    <3>3. Sound(disk')
      BY <2>1, <3>1, <3>2, FS_Union DEF Sound
    <3> QED
      BY <2>1, <2>2, <3>3, ChangedIsSound
  <2>4. AllDated(seen', current') /\ Identified(seen')
    <3>1. PICK next, after : next = current' /\ after = seen'
      OBVIOUS
    <3>2. /\ Good(current) /\ Definitions(current) \subseteq seen
          /\ AllDated(seen, current) /\ Identified(seen)
      BY DEF CatalogInv, History, GenerationIdentifies, Identified
    <3> QED
      BY <2>1, <2>2, <3>1, <3>2, HistoryGoesOn
  <2>5. History'
    BY <2>1, <2>2, <2>4 DEF History, GenerationIdentifies, Identified, AllDated
  <2> QED
    BY <1>3, <2>3, <2>5 DEF CatalogInv
<1>5. CASE ~Fresh(c)
  <2>1. UNCHANGED <<current, active, disk, seen>>
    BY <1>5 DEF Publish
  <2>2. History'
    BY <2>1 DEF CatalogInv, History, GenerationIdentifies, AllDated
  <2> QED
    BY <1>3, <2>1, <2>2 DEF CatalogInv
<1> QED
  BY <1>4, <1>5

LEMMA RestartKeeps ==
    ASSUME CatalogInv, NEW image \in Image, Restart(image)
    PROVE  CatalogInv'
<1>1. /\ disk' = {s \in disk : Installed(s)} \cup image
      /\ active' = {} /\ current' = Nothing /\ seen' = {}
      /\ candidate' = [c \in Caller |-> None]
  BY DEF Restart
<1>2. Sound({s \in disk : Installed(s)})
  BY SoundParts DEF CatalogInv
<1>3. Sound(image)
  BY CatalogAssumption DEF Sound
<1>4. Sound(disk') /\ Sound(active')
  BY <1>1, <1>2, <1>3, FS_Union, FS_EmptySet DEF Sound
<1>5. Good(current') /\ Definitions(current') = {}
  BY <1>1, NothingIsGood DEF Nothing, Definitions
<1>6. History'
  BY <1>1, <1>5 DEF History, GenerationIdentifies, AllDated
<1>7. Prepared' /\ DOMAIN candidate' = Caller
  BY <1>1 DEF Prepared
<1> QED
  BY <1>4, <1>6, <1>7 DEF CatalogInv

LEMMA CatalogStep == CatalogInv /\ [CatalogNext]_catalogVars => CatalogInv'
<1> SUFFICES ASSUME CatalogInv, [CatalogNext]_catalogVars PROVE CatalogInv'
  OBVIOUS
<1>1. CASE Change
  <2>1. PICK c \in Caller, s \in App : Prepare(c, s.pkg, s) \/ Prepare(c, s.pkg, None)
    BY <1>1 DEF Change
  <2>2. s.pkg # None
    BY CatalogAssumption
  <2> QED
    BY <2>1, <2>2, PrepareKeeps
<1>2. CASE UNCHANGED catalogVars
  <2>1. UNCHANGED <<disk, active, current, candidate, seen>>
    BY <1>2 DEF catalogVars
  <2>2. History' /\ Prepared'
    BY <2>1 DEF CatalogInv, History, GenerationIdentifies, AllDated, Prepared
  <2> QED
    BY <2>1, <2>2 DEF CatalogInv
<1> QED
  BY <1>1, <1>2, BootKeeps, PublishKeeps, RestartKeeps DEF CatalogNext

\* A generation stands for one meaning as long as the machine is up: of all
\* the definitions published under a name since the boot, no two of the same
\* generation differ, in whatever order callers prepare and publish
\* (assignDefinitionGenerations, and the compare and swap of
\* Registry.Publish).
THEOREM GenerationsIdentify == CatalogSpec => []GenerationIdentifies
<1>1. CatalogInit => CatalogInv
  BY CatalogStarts
<1>2. CatalogInv /\ [CatalogNext]_catalogVars => CatalogInv'
  BY CatalogStep
<1>3. CatalogInv => GenerationIdentifies
  BY DEF CatalogInv, History
<1> QED
  BY <1>1, <1>2, <1>3, PTL DEF CatalogSpec
----------------------------------------------------------------------------
(***************************************************************************)
(* The order of the sources.  Whether a source is accepted depends on      *)
(* those before it alone: a merge is accepted when each of its sources is, *)
(* and is refused for the first that is not.                               *)
(***************************************************************************)
InLine(S) ==
    /\ IsFiniteSet(S)
    /\ \A s \in S : s.class \in Class /\ Order[s.pkg] \in Nat /\ s.pkg # None
    /\ \A s, t \in S : Rank[s.class] = Rank[t.class] /\ Order[s.pkg] = Order[t.pkg] => s = t

Below(S, s) == {t \in S : Before(t, s)}

Accepted(s, S) ==
    /\ Merge(S).fault = None
    /\ s.pkg \notin Merge(S).seen /\ Fits(Merge(S).next, s)

LEMMA PartInLine ==
    ASSUME NEW S, InLine(S), NEW T \in SUBSET S
    PROVE  InLine(T)
<1>1. IsFiniteSet(T)
  BY FS_Subset DEF InLine
<1> QED
  BY <1>1 DEF InLine

LEMMA BeforeOrders ==
    ASSUME NEW S, InLine(S), NEW s \in S, NEW t \in S
    PROVE  /\ ~Before(s, s)
           /\ s = t \/ Before(s, t) \/ Before(t, s)
           /\ \A u \in S : Before(s, t) /\ Before(t, u) => Before(s, u)
<1>1. ASSUME NEW u \in S
      PROVE  Rank[u.class] \in Nat /\ Order[u.pkg] \in Nat
  <2>1. u.class \in Class /\ Order[u.pkg] \in Nat
    BY DEF InLine
  <2> QED
    BY <2>1 DEF Rank, Class
<1>2. Rank[s.class] = Rank[t.class] /\ Order[s.pkg] = Order[t.pkg] => s = t
  BY DEF InLine
<1>3. ~Before(s, s)
  BY <1>1 DEF Before
<1>4. s = t \/ Before(s, t) \/ Before(t, s)
  BY <1>1, <1>2 DEF Before
<1>5. ASSUME NEW u \in S, Before(s, t), Before(t, u)
      PROVE  Before(s, u)
  BY <1>1, <1>5 DEF Before
<1> QED
  BY <1>3, <1>4, <1>5

\* Of the sources of a set one is the first.
LEMMA FirstExists ==
    ASSUME NEW S, InLine(S), NEW T \in SUBSET S, T # {}
    PROVE  \E m \in T : \A t \in T : ~Before(t, m)
<1>1. ASSUME NEW u \in T
      PROVE  Rank[u.class] \in Nat /\ Order[u.pkg] \in Nat
  <2>1. u.class \in Class /\ Order[u.pkg] \in Nat
    BY DEF InLine
  <2> QED
    BY <2>1 DEF Rank, Class
<1> DEFINE Ranks == {Rank[u.class] : u \in T}
<1>2. Ranks \in SUBSET Nat /\ Ranks # {}
  BY <1>1
<1>3. PICK r \in Ranks : \A k \in Ranks : r <= k
  BY <1>2, LeastNumber
<1> DEFINE Top == {u \in T : Rank[u.class] = r}
           Places == {Order[u.pkg] : u \in Top}
<1>4. Places \in SUBSET Nat /\ Places # {}
  BY <1>1
<1>5. PICK p \in Places : \A k \in Places : p <= k
  BY <1>4, LeastNumber
<1>6. PICK m \in Top : Order[m.pkg] = p
  OBVIOUS
<1>7. ASSUME NEW t \in T
      PROVE  ~Before(t, m)
  <2>1. r <= Rank[t.class] /\ Rank[t.class] \in Nat /\ r \in Nat /\ Rank[m.class] = r
    BY <1>1, <1>2, <1>3
  <2>2. Rank[t.class] = r => p <= Order[t.pkg]
    BY <1>5
  <2>3. p \in Nat /\ Order[t.pkg] \in Nat
    BY <1>1, <1>4
  <2> HIDE DEF Ranks, Top, Places
  <2> QED
    BY <1>6, <2>1, <2>2, <2>3 DEF Before
<1> QED
  BY <1>6, <1>7

LEMMA BelowIsSmaller ==
    ASSUME NEW S, InLine(S), NEW s \in S, NEW t \in S, Before(t, s)
    PROVE  /\ Cardinality(Below(S, t)) \in Nat /\ Cardinality(Below(S, s)) \in Nat
           /\ Cardinality(Below(S, t)) < Cardinality(Below(S, s))
<1>1. IsFiniteSet(S)
  BY DEF InLine
<1>2. Below(S, t) \in SUBSET Below(S, s) /\ Below(S, s) \in SUBSET S
  <2>1. \A u \in S : Before(u, t) => Before(u, s)
    BY BeforeOrders
  <2> QED
    BY <2>1 DEF Below
<1>3. Below(S, t) # Below(S, s)
  <2>1. t \in Below(S, s) /\ t \notin Below(S, t)
    BY BeforeOrders DEF Below
  <2> QED
    BY <2>1
<1>4. IsFiniteSet(Below(S, s))
  BY <1>1, <1>2, FS_Subset
<1>5. /\ IsFiniteSet(Below(S, t))
      /\ Cardinality(Below(S, t)) <= Cardinality(Below(S, s))
      /\ Cardinality(Below(S, t)) # Cardinality(Below(S, s))
  BY <1>2, <1>3, <1>4, FS_Subset
<1>6. Cardinality(Below(S, t)) \in Nat /\ Cardinality(Below(S, s)) \in Nat
  BY <1>4, <1>5, FS_CardinalityType
<1> QED
  BY <1>5, <1>6

\* A source stands in the order after as many as are before it.
LEMMA PlaceOf ==
    ASSUME NEW S, InLine(S), NEW s \in S, NEW n, n = Cardinality(Below(S, s))
    PROVE  /\ n \in Nat /\ n < Cardinality(S) /\ Cardinality(S) \in Nat
           /\ Ordered(S)[n + 1] = s
<1>1. IsFiniteSet(S) /\ Below(S, s) \in SUBSET S
  BY DEF InLine, Below
<1>2. Below(S, s) # S
  <2>1. s \notin Below(S, s)
    BY BeforeOrders DEF Below
  <2> QED
    BY <2>1
<1>3. /\ IsFiniteSet(Below(S, s)) /\ n <= Cardinality(S) /\ n # Cardinality(S)
  BY <1>1, <1>2, FS_Subset
<1>4. n \in Nat /\ Cardinality(S) \in Nat
  BY <1>1, <1>3, FS_CardinalityType
<1>5. n < Cardinality(S)
  BY <1>3, <1>4
<1>6. ASSUME NEW t \in S, Cardinality(Below(S, t)) = n
      PROVE  t = s
  <2>1. ~Before(t, s) /\ ~Before(s, t)
    BY <1>4, <1>6, BelowIsSmaller
  <2> QED
    BY <2>1, BeforeOrders
<1>7. Ordered(S)[n + 1] = CHOOSE u \in S : Cardinality(Below(S, u)) = (n + 1) - 1
  <2>1. n + 1 \in 1..Cardinality(S)
    BY <1>4, <1>5
  <2> QED
    BY <2>1 DEF Ordered, Below
<1>8. (n + 1) - 1 = n
  BY <1>4
<1>9. Ordered(S)[n + 1] = CHOOSE u \in S : Cardinality(Below(S, u)) = n
  BY <1>7, <1>8
<1> QED
  BY <1>4, <1>5, <1>6, <1>9

LEMMA PlacesAreTaken ==
    ASSUME NEW S, InLine(S), NEW n \in Nat, n < Cardinality(S)
    PROVE  \E s \in S : Cardinality(Below(S, s)) = n
<1> DEFINE T == {k \in Nat : k < Cardinality(S) /\ \A s \in S : Cardinality(Below(S, s)) # k}
<1>1. SUFFICES ASSUME T # {} PROVE FALSE
  OBVIOUS
<1>2. PICK m \in T : \A k \in T : m <= k
  BY <1>1, LeastNumber
<1>3. m \in Nat /\ m < Cardinality(S) /\ \A s \in S : Cardinality(Below(S, s)) # m
  OBVIOUS
<1>4. IsFiniteSet(S) /\ Cardinality(S) \in Nat
  BY FS_CardinalityType DEF InLine
<1>5. PICK A \in SUBSET S : /\ IsFiniteSet(A) /\ Cardinality(A) = m
                            /\ \A u \in A : \A t \in S : Before(t, u) => t \in A
  <2>1. CASE m = 0
    BY <2>1, FS_EmptySet
  <2>2. CASE m # 0
    <3>1. m - 1 \in Nat /\ m - 1 < Cardinality(S) /\ m - 1 \notin T
      BY <1>2, <1>3, <1>4, <2>2
    <3>2. PICK u \in S : Cardinality(Below(S, u)) = m - 1
      BY <3>1
    <3>3. IsFiniteSet(Below(S, u)) /\ u \notin Below(S, u) /\ Below(S, u) \in SUBSET S
      <4>1. Below(S, u) \in SUBSET S
        BY DEF Below
      <4>2. u \notin Below(S, u)
        BY BeforeOrders DEF Below
      <4> QED
        BY <1>4, <4>1, <4>2, FS_Subset
    <3>4. PICK A : A = Below(S, u) \cup {u}
      OBVIOUS
    <3>5. IsFiniteSet(A) /\ Cardinality(A) = (m - 1) + 1
      BY <3>2, <3>3, <3>4, FS_AddElement
    <3>6. ASSUME NEW v \in A, NEW t \in S, Before(t, v)
          PROVE  t \in A
      <4>1. v \in S /\ (v = u \/ Before(v, u))
        BY <3>4 DEF Below
      <4>2. Before(t, u)
        BY <3>6, <4>1, BeforeOrders
      <4> QED
        BY <3>4, <4>2 DEF Below
    <3>7. A \in SUBSET S /\ Cardinality(A) = m
      BY <1>3, <3>3, <3>4, <3>5
    <3> QED
      BY <3>5, <3>6, <3>7
  <2> QED
    BY <2>1, <2>2
<1>6. S \ A # {}
  <2>1. A # S
    BY <1>3, <1>4, <1>5
  <2> QED
    BY <2>1
<1>7. PICK w \in S \ A : \A t \in S \ A : ~Before(t, w)
  <2>1. S \ A \in SUBSET S
    OBVIOUS
  <2> QED
    BY <1>6, <2>1, FirstExists
<1>8. Below(S, w) = A
  <2>1. ASSUME NEW t \in A
        PROVE  Before(t, w)
    <3>1. t \in S /\ w \in S /\ t # w /\ ~Before(w, t)
      BY <1>5, <1>7
    <3> QED
      BY <3>1, BeforeOrders
  <2> QED
    BY <1>7, <2>1 DEF Below
<1> QED
  BY <1>3, <1>5, <1>7, <1>8

\* The sources below one are merged in the same order without it.
LEMMA SameOrder ==
    ASSUME NEW S, InLine(S), NEW s \in S, NEW A, A = Below(S, s),
           NEW n \in 1..Cardinality(A)
    PROVE  Ordered(A)[n] = Ordered(S)[n]
<1>1. InLine(A) /\ A \in SUBSET S
  BY PartInLine DEF Below
<1>2. n \in Nat /\ n - 1 \in Nat /\ n - 1 < Cardinality(A) /\ (n - 1) + 1 = n
  <2>1. Cardinality(A) \in Nat
    BY <1>1, FS_CardinalityType DEF InLine
  <2> QED
    BY <2>1
<1>3. PICK u \in A : Cardinality(Below(A, u)) = n - 1
  BY <1>1, <1>2, PlacesAreTaken
<1>4. Below(A, u) = Below(S, u)
  <2>1. u \in S /\ Before(u, s)
    BY <1>3 DEF Below
  <2>2. \A t \in S : Before(t, u) => Before(t, s)
    BY <2>1, BeforeOrders
  <2> QED
    BY <1>1, <2>2 DEF Below
<1>5. Ordered(A)[n] = u
  BY <1>1, <1>2, <1>3, PlaceOf
<1>6. Ordered(S)[n] = u
  <2>1. u \in S /\ n - 1 = Cardinality(Below(S, u))
    BY <1>1, <1>3, <1>4
  <2> QED
    BY <1>2, <2>1, PlaceOf
<1> QED
  BY <1>5, <1>6

LEMMA MergingStep ==
    ASSUME NEW order, NEW size \in Nat, NEW f, Merging(order, size, f)
    PROVE  /\ f[0] = Start
           /\ \A n \in 1..size : f[n] = Step(f[n - 1], order[n])
<1> DEFINE h == [n \in 0..size |-> IF n = 0 THEN Start ELSE Step(f[n - 1], order[n])]
<1>1. f = h
  BY DEF Merging
<1>2. h[0] = Start /\ \A n \in 1..size : h[n] = Step(f[n - 1], order[n])
  BY Z3
<1> HIDE DEF h
<1> QED
  BY <1>1, <1>2

\* A merge has come as far, when it takes a source, as the merge of those
\* before it.
LEMMA MergeBelow ==
    ASSUME NEW S, InLine(S), NEW s \in S, NEW k, k = Cardinality(Below(S, s)),
           NEW f, Merging(Ordered(S), Cardinality(S), f)
    PROVE  f[k] = Merge(Below(S, s))
<1>1. PICK A : A = Below(S, s)
  OBVIOUS
<1>2. A \in SUBSET S /\ IsFiniteSet(A)
  BY <1>1, PartInLine DEF Below, InLine
<1>3. /\ k \in Nat /\ k = Cardinality(A) /\ Cardinality(S) \in Nat
      /\ k < Cardinality(S)
  BY <1>1, PlaceOf
<1>4. PICK g : Merging(Ordered(A), k, g) /\ Merge(A) = g[k]
  BY <1>2, <1>3, MergeIsMerging
<1>5. f[0] = Start /\ \A n \in 1..Cardinality(S) : f[n] = Step(f[n - 1], Ordered(S)[n])
  BY <1>3, MergingStep
<1>6. g[0] = Start /\ \A n \in 1..k : g[n] = Step(g[n - 1], Ordered(A)[n])
  BY <1>3, <1>4, MergingStep
<1> DEFINE T == {n \in Nat : n <= k /\ f[n] # g[n]}
<1>7. ASSUME T # {}
      PROVE  FALSE
  <2>1. PICK m \in T : \A n \in T : m <= n
    BY <1>7, LeastNumber
  <2>2. m \in Nat /\ m <= k /\ f[m] # g[m]
    OBVIOUS
  <2>3. m # 0
    BY <1>5, <1>6, <2>2
  <2>4. m - 1 \in Nat /\ m - 1 <= k /\ m \in 1..k /\ m \in 1..Cardinality(S)
    BY <1>3, <2>2, <2>3
  <2>5. f[m - 1] = g[m - 1]
    <3>1. m - 1 \notin T
      BY <2>1, <2>2, <2>4
    <3> QED
      BY <2>4, <3>1
  <2>6. Ordered(A)[m] = Ordered(S)[m]
    BY <1>1, <1>3, <2>4, SameOrder
  <2>7. f[m] = Step(f[m - 1], Ordered(S)[m]) /\ g[m] = Step(g[m - 1], Ordered(A)[m])
    BY <1>5, <1>6, <2>4
  <2> HIDE DEF T
  <2> QED
    BY <2>2, <2>5, <2>6, <2>7
<1>8. f[k] = g[k]
  BY <1>3, <1>7
<1> QED
  BY <1>1, <1>4, <1>8

\* A source that is accepted leaves no fault, any other is blamed.
LEMMA StepBlames ==
    ASSUME NEW m, DOMAIN m = {"fault", "next", "seen"}, m.fault = None,
           NEW s, s.pkg # None
    PROVE  /\ s.pkg \notin m.seen /\ Fits(m.next, s) => Step(m, s).fault = None
           /\ ~(s.pkg \notin m.seen /\ Fits(m.next, s)) => Step(m, s).fault = s.pkg
<1>1. CASE s.pkg \notin m.seen /\ Fits(m.next, s)
  <2>1. Step(m, s) = [fault |-> None, next |-> Add(m.next, s), seen |-> m.seen \cup {s.pkg}]
    BY <1>1 DEF Step
  <2> QED
    BY <1>1, <2>1
<1>2. CASE ~(s.pkg \notin m.seen /\ Fits(m.next, s))
  <2>1. Step(m, s) = [m EXCEPT !.fault = s.pkg]
    BY <1>2 DEF Step
  <2> QED
    BY <1>2, <2>1
<1> QED
  BY <1>1, <1>2

\* A refused merge names the first source that is not accepted.
LEMMA MergeBlames ==
    ASSUME NEW S, InLine(S)
    PROVE  /\ Merge(S).fault = None => \A s \in S : Accepted(s, Below(S, s))
           /\ Merge(S).fault # None =>
                  \E s \in S : /\ Merge(S).fault = s.pkg /\ ~Accepted(s, Below(S, s))
                               /\ \A t \in Below(S, s) : Accepted(t, Below(S, t))
<1>1. IsFiniteSet(S) /\ \A s \in S : s.pkg # None
  BY DEF InLine
<1>2. PICK size \in Nat : size = Cardinality(S)
  BY <1>1, FS_CardinalityType
<1>3. PICK f : Merging(Ordered(S), size, f) /\ Merge(S) = f[size]
  BY <1>1, <1>2, MergeIsMerging
<1>4. f[0] = Start /\ \A n \in 1..size : f[n] = Step(f[n - 1], Ordered(S)[n])
  BY <1>3, MergingStep
<1> DEFINE Place(s) == Cardinality(Below(S, s))
<1>5. ASSUME NEW s \in S
      PROVE  /\ Place(s) \in Nat /\ Place(s) + 1 \in 1..size
             /\ f[Place(s)] = Merge(Below(S, s))
             /\ f[Place(s) + 1] = Step(f[Place(s)], s)
  <2>1. /\ Place(s) \in Nat /\ Place(s) < size
        /\ Ordered(S)[Place(s) + 1] = s
    BY <1>2, PlaceOf
  <2>2. f[Place(s)] = Merge(Below(S, s))
    BY <1>2, <1>3, MergeBelow
  <2>3. Place(s) + 1 \in 1..size /\ (Place(s) + 1) - 1 = Place(s)
    BY <2>1
  <2>4. f[Place(s) + 1] = Step(f[Place(s)], Ordered(S)[Place(s) + 1])
    BY <1>4, <2>3
  <2> QED
    BY <2>1, <2>2, <2>3, <2>4
<1>6. ASSUME NEW s \in S
      PROVE  /\ Accepted(s, Below(S, s)) <=> f[Place(s)].fault = None /\ f[Place(s) + 1].fault = None
             /\ f[Place(s)].fault = None /\ f[Place(s) + 1].fault # None =>
                    f[Place(s) + 1].fault = s.pkg
  <2>1. PICK m : m = Merge(Below(S, s))
    OBVIOUS
  <2>2. f[Place(s)] = m /\ f[Place(s) + 1] = Step(m, s) /\ s.pkg # None
    BY <1>1, <1>5, <2>1
  <2>3. DOMAIN m = {"fault", "next", "seen"}
    <3>1. IsFiniteSet(Below(S, s)) /\ \A t \in Below(S, s) : t.pkg # None
      BY <1>1, FS_Subset DEF Below
    <3> QED
      BY <2>1, <3>1, MergeKeeps DEF MergeOK
  <2>4. m.fault = None =>
            /\ s.pkg \notin m.seen /\ Fits(m.next, s) => Step(m, s).fault = None
            /\ ~(s.pkg \notin m.seen /\ Fits(m.next, s)) => Step(m, s).fault = s.pkg
    BY <2>2, <2>3, StepBlames
  <2>5. Accepted(s, Below(S, s)) <=>
            m.fault = None /\ s.pkg \notin m.seen /\ Fits(m.next, s)
    BY <2>1 DEF Accepted
  <2> QED
    BY <2>2, <2>4, <2>5
<1>7. \A n \in 1..size : f[n - 1].fault # None => f[n] = f[n - 1]
  BY <1>4 DEF Step
<1> HIDE DEF Place
<1> DEFINE T == {n \in Nat : n <= size /\ f[n].fault # None}
<1>8. CASE T = {}
  <2>1. \A n \in Nat : n <= size => f[n].fault = None
    BY <1>8
  <2>2. Merge(S).fault = None
    BY <1>3, <2>1
  <2>3. \A s \in S : f[Place(s)].fault = None /\ f[Place(s) + 1].fault = None
    BY <1>5, <2>1
  <2> HIDE DEF T
  <2> QED
    BY <1>6, <2>2, <2>3
<1>9. CASE T # {}
  <2>1. PICK m \in T : \A n \in T : m <= n
    BY <1>9, LeastNumber
  <2>2. m \in Nat /\ m <= size /\ f[m].fault # None
    OBVIOUS
  <2>3. \A n \in Nat : n < m => f[n].fault = None
    BY <2>1, <2>2
  <2>4. m # 0
    BY <1>4, <2>2 DEF Start
  <2>5. PICK s \in S : Place(s) = m - 1
    BY <1>2, <2>2, <2>4, PlacesAreTaken DEF Place
  <2>6. (m - 1) + 1 = m /\ m - 1 < m /\ m - 1 \in Nat
    BY <2>2, <2>4
  <2>7. f[m].fault = s.pkg /\ ~Accepted(s, Below(S, s))
    BY <1>6, <2>2, <2>3, <2>5, <2>6
  <2>8. ASSUME NEW t \in Below(S, s)
        PROVE  Accepted(t, Below(S, t))
    <3>1. t \in S /\ Before(t, s)
      BY DEF Below
    <3>2. Place(t) < Place(s) /\ Place(t) \in Nat
      BY <1>5, <2>5, <3>1, BelowIsSmaller DEF Place
    <3>3. Place(t) < m /\ Place(t) + 1 < m /\ Place(t) + 1 \in Nat
      BY <2>2, <2>5, <3>2
    <3> QED
      BY <1>6, <2>3, <3>1, <3>2, <3>3
  <2> DEFINE U == {n \in Nat : m <= n /\ n <= size /\ f[n] # f[m]}
  <2>9. ASSUME U # {}
        PROVE  FALSE
    <3>1. PICK n \in U : \A k \in U : n <= k
      BY <2>9, LeastNumber
    <3>2. n \in Nat /\ m <= n /\ n <= size /\ f[n] # f[m]
      OBVIOUS
    <3>3. n - 1 \in Nat /\ m <= n - 1 /\ n - 1 <= size /\ n \in 1..size
      BY <2>2, <2>4, <3>2
    <3>4. f[n - 1] = f[m]
      <4>1. n - 1 \notin U
        BY <3>1, <3>2, <3>3
      <4> QED
        BY <3>3, <4>1
    <3> HIDE DEF U
    <3> QED
      BY <1>7, <2>2, <3>2, <3>3, <3>4
  <2>10. f[size] = f[m]
    BY <2>2, <2>9
  <2> HIDE DEF T, U
  <2> QED
    BY <1>3, <2>2, <2>7, <2>8, <2>10
<1> QED
  BY <1>8, <1>9

----------------------------------------------------------------------------
(***************************************************************************)
(* The quarantine.  A disk holds one source of a package, none of the      *)
(* kernel's rank.                                                          *)
(***************************************************************************)
OnDisk(D) ==
    /\ D \subseteq Source /\ IsFiniteSet(D)
    /\ \A s, t \in D : SameEntry(s, t) => s = t

LEMMA SourcesHaveClasses ==
    /\ \A s \in Source : s.class \in Class /\ Rank[s.class] # 0 /\ s.pkg # Unnamed
    /\ \A b \in Bootstrap : b.class \in Class /\ Rank[b.class] = 0
<1>1. \A s \in Source : s.class \in {"platform", "oem", "image", "app"}
  BY CatalogAssumption DEF Source
<1>2. \A s \in Source : s.class \in Class /\ Rank[s.class] # 0
  BY <1>1 DEF Class, Rank
<1>3. \A b \in Bootstrap : b.class = "kernel"
  BY BuilderAssumption
<1>4. \A b \in Bootstrap : b.class \in Class /\ Rank[b.class] = 0
  BY <1>3 DEF Class, Rank
<1>5. \A s \in Source : s.pkg # Unnamed
  BY SourceAssumption DEF Source
<1> QED
  BY <1>2, <1>4, <1>5

LEMMA DiskInLine ==
    ASSUME NEW D, OnDisk(D)
    PROVE  InLine(Bootstrap \cup D)
<1>1. IsFiniteSet(Bootstrap \cup D)
  BY BuilderAssumption, FS_Union DEF OnDisk
<1>2. ASSUME NEW s \in Bootstrap \cup D
      PROVE  s.class \in Class /\ Order[s.pkg] \in Nat /\ s.pkg # None
  <2>1. s.class \in Class
    BY SourcesHaveClasses DEF OnDisk
  <2>2. Order[s.pkg] \in Nat
    BY SourceAssumption DEF OnDisk, Source
  <2>3. s.pkg # None
    BY BuilderAssumption, CatalogAssumption DEF OnDisk, Source
  <2> QED
    BY <2>1, <2>2, <2>3
<1>3. ASSUME NEW s \in Bootstrap \cup D, NEW t \in Bootstrap \cup D,
             Rank[s.class] = Rank[t.class], Order[s.pkg] = Order[t.pkg]
      PROVE  s = t
  <2>1. s.pkg = t.pkg
    BY <1>3, SourceAssumption DEF OnDisk, Source
  <2>2. CASE s \in Bootstrap
    <3>1. t \in Bootstrap
      BY <1>3, <2>2, SourcesHaveClasses DEF OnDisk
    <3> QED
      BY <2>2, <3>1, SourceAssumption
  <2>3. CASE s \in D
    <3>1. CASE t \in D
      <4>1. s.class = t.class
        BY <1>2, <1>3 DEF Rank, Class
      <4> QED
        BY <2>1, <2>3, <3>1, <4>1 DEF OnDisk, SameEntry, Installed
    <3>2. CASE t \in Bootstrap
      BY <1>3, <2>3, <3>2, SourcesHaveClasses DEF OnDisk
    <3> QED
      BY <3>1, <3>2
  <2> QED
    BY <2>2, <2>3
<1> QED
  BY <1>1, <1>2, <1>3 DEF InLine

\* A build that succeeds has accepted every source.
LEMMA BuildAccepts ==
    ASSUME NEW previous, NEW S, InLine(S), Build(previous, S).fault = None
    PROVE  \A s \in S : s.intact /\ Accepted(s, Below(S, s))
<1>1. \A s \in S : s.pkg # None
  BY DEF InLine
<1>2. ASSUME NEW s \in S, ~s.intact
      PROVE  FALSE
  <2>1. PICK u \in S : u = CHOOSE t \in S : ~t.intact
    BY <1>2
  <2>2. Build(previous, S) = Failed(u.pkg)
    BY <1>2, <2>1 DEF Build
  <2> QED
    BY <1>1, <2>2 DEF Failed
<1>3. Merge(S).fault = None
  <2>1. CASE Merge(S).fault # None
    BY <1>2, <2>1 DEF Build, Failed
  <2> QED
    BY <2>1
<1> QED
  BY <1>2, <1>3, MergeBlames

\* One that fails and names a source blames one that is not accepted; those
\* before it are.
Blamed(S, v) ==
    \/ ~v.intact
    \/ /\ \A t \in S : t.intact
       /\ ~Accepted(v, Below(S, v))
       /\ \A t \in Below(S, v) : Accepted(t, Below(S, t))

LEMMA BuildBlames ==
    ASSUME NEW previous, NEW S, InLine(S),
           Build(previous, S).fault # None, Build(previous, S).fault # Unnamed
    PROVE  \E v \in S : Build(previous, S).fault = v.pkg /\ Blamed(S, v)
<1>1. CASE \E s \in S : ~s.intact
  <2>1. PICK v : v = CHOOSE t \in S : ~t.intact
    OBVIOUS
  <2>3. v \in S /\ ~v.intact
    BY <1>1, <2>1, Zenon
  <2>2. Build(previous, S) = Failed(v.pkg)
    BY <1>1, <2>1 DEF Build
  <2> QED
    BY <2>2, <2>3 DEF Failed, Blamed
<1>2. CASE \A s \in S : s.intact
  <2>1. Merge(S).fault # None /\ Build(previous, S).fault = Merge(S).fault
    <3>1. CASE Merge(S).fault = None
      BY <1>2, <3>1 DEF Build, Failed
    <3>2. CASE Merge(S).fault # None
      BY <1>2, <3>2 DEF Build, Failed
    <3> QED
      BY <3>1, <3>2
  <2> QED
    BY <1>2, <2>1, MergeBlames DEF Blamed
<1> QED
  BY <1>1, <1>2

\* Sources that share their id with none of a set, and before which there is
\* none of it that is not one of them.
Alone(C, D) ==
    \A s \in C, t \in D : (t.pkg = s.pkg => t = s) /\ (Before(t, s) => t \in C)

\* What is left out of a set, of those alone, is malformed or does not fit
\* after what is kept before it.
LeftOut(C, S, kept) ==
    \A s \in (S \ kept) \cap C :
        ~s.intact \/ ~Accepted(s, Below(Bootstrap \cup kept, s))

\* The kernel's own sources are before all others.
LEMMA BelowBootstrap ==
    ASSUME NEW D, OnDisk(D), NEW b \in Bootstrap
    PROVE  Below(Bootstrap \cup D, b) = Below(Bootstrap, b)
<1>1. ASSUME NEW s \in D, Before(s, b)
      PROVE  FALSE
  <2>1. Rank[s.class] \in Nat /\ Rank[s.class] # 0 /\ Rank[b.class] = 0
    BY SourcesHaveClasses DEF OnDisk, Rank, Class
  <2> QED
    BY <1>1, <2>1 DEF Before
<1> QED
  BY <1>1 DEF Below

LEMMA BlamedIsLeftOut ==
    ASSUME NEW S, OnDisk(S), NEW C, Alone(C, S),
           NEW v \in S, Blamed(Bootstrap \cup S, v),
           NEW R, R = S \ FirstOf(S, v.pkg),
           NEW kept \in SUBSET R, LeftOut(C, R, kept)
    PROVE  LeftOut(C, S, kept)
<1> DEFINE U == Bootstrap \cup S
           K == Bootstrap \cup kept
<1>6. \A w \in FirstOf(S, v.pkg) : w \in C => w = v
  BY DEF Alone, FirstOf
<1>7. v \in C => v \in FirstOf(S, v.pkg)
  BY DEF Alone, FirstOf
<1>1. SUFFICES ASSUME v.intact, v \in C PROVE ~Accepted(v, Below(K, v))
  BY <1>6 DEF LeftOut
<1>2. /\ \A t \in U : t.intact
      /\ ~Accepted(v, Below(U, v)) /\ \A t \in Below(U, v) : Accepted(t, Below(U, t))
  BY <1>1 DEF Blamed
<1>3. InLine(U) /\ K \subseteq U /\ v \in U
  BY DiskInLine
<1> DEFINE T == {t \in Below(U, v) : t \notin K}
<1>4. ASSUME T # {}
      PROVE  FALSE
  <2>1. T \in SUBSET U
    BY DEF Below
  <2>2. PICK t \in T : \A u \in T : ~Before(u, t)
    BY <1>3, <1>4, <2>1, FirstExists
  <2>3. t \in U /\ Before(t, v) /\ t \notin K /\ t \in Below(U, v)
    BY DEF Below
  <2>4. t \in (R \ kept) \cap C
    <3>1. t \in S /\ t # v /\ t \notin kept
      BY <1>3, <2>3, BeforeOrders
    <3>2. t \in C
      BY <1>1, <2>3, <3>1 DEF Alone
    <3> QED
      BY <1>6, <3>1, <3>2
  <2>5. ~Accepted(t, Below(K, t))
    BY <1>2, <2>3, <2>4 DEF LeftOut
  <2>6. Below(K, t) = Below(U, t)
    <3>1. ASSUME NEW u \in U, Before(u, t)
          PROVE  u \in K
      <4>1. Before(u, v)
        BY <1>3, <2>3, <3>1, BeforeOrders
      <4> QED
        BY <2>2, <3>1, <4>1 DEF Below
    <3> HIDE DEF T, U, K
    <3> QED
      BY <1>3, <3>1 DEF Below
  <2> QED
    BY <1>2, <2>3, <2>5, <2>6
<1>5. Below(K, v) = Below(U, v)
  BY <1>3, <1>4 DEF Below
<1> QED
  BY <1>2, <1>5

LEMMA BlamedKernelStays ==
    ASSUME NEW S, OnDisk(S), NEW b \in Bootstrap, Blamed(Bootstrap \cup S, b),
           NEW kept, OnDisk(kept), NEW previous
    PROVE  Build(previous, Bootstrap \cup kept).fault # None
<1>1. SUFFICES ASSUME Build(previous, Bootstrap \cup kept).fault = None PROVE FALSE
  OBVIOUS
<1>2. b.intact /\ Accepted(b, Below(Bootstrap \cup kept, b))
  BY <1>1, DiskInLine, BuildAccepts
<1>3. ~Accepted(b, Below(Bootstrap \cup S, b))
  BY <1>2 DEF Blamed
<1> QED
  BY <1>2, <1>3, BelowBootstrap

LEMMA QuarantineLeavesOut ==
    ASSUME NEW D, OnDisk(D), NEW C, Alone(C, D), NEW previous
    PROVE  \E kept \in SUBSET D :
               /\ Quarantine(previous, D) = Outcome(previous, kept)
               /\ Build(previous, Bootstrap \cup kept).fault = None => LeftOut(C, D, kept)
<1> DEFINE f == CHOOSE g : Rounds(previous, SUBSET D, g)
<1>1. IsFiniteSet(D)
  BY DEF OnDisk
<1>2. \A S \in SUBSET D : f[S] = Round(previous, S, f)
  <2> DEFINE h == [S \in SUBSET D |-> Round(previous, S, f)]
  <2>1. f = h
    BY <1>1, RoundsExist DEF Rounds
  <2>2. \A S \in SUBSET D : h[S] = Round(previous, S, f)
    OBVIOUS
  <2> HIDE DEF h, f
  <2> QED
    BY <2>1, <2>2
<1>3. Quarantine(previous, D) = f[D]
  BY DEF Quarantine, Rounds, Round, Guilty, Victims, Outcome
<1> HIDE DEF f
<1> DEFINE Just(S, kept) ==
               /\ f[S] = Outcome(previous, kept)
               /\ Build(previous, Bootstrap \cup kept).fault = None => LeftOut(C, S, kept)
           T == {n \in Nat : \E S \in SUBSET D :
                    Cardinality(S) = n /\ \A kept \in SUBSET S : ~Just(S, kept)}
<1>4. ASSUME T # {}
      PROVE  FALSE
  <2>1. PICK m \in T : \A k \in T : m <= k
    BY <1>4, LeastNumber
  <2>2. PICK S \in SUBSET D :
          Cardinality(S) = m /\ \A kept \in SUBSET S : ~Just(S, kept)
    BY <2>1
  <2>3. OnDisk(S) /\ InLine(Bootstrap \cup S) /\ Alone(C, S)
    <3>1. OnDisk(S)
      BY <1>1, FS_Subset DEF OnDisk
    <3> QED
      BY <3>1, DiskInLine DEF Alone
  <2>4. CASE ~Guilty(previous, S)
    <3>1. f[S] = Outcome(previous, S)
      BY <1>2, <2>4 DEF Round
    <3>2. LeftOut(C, S, S)
      BY DEF LeftOut
    <3> QED
      BY <2>2, <3>1, <3>2
  <2>5. CASE Guilty(previous, S)
    <3>1. PICK R : R = S \ Victims(previous, S)
      OBVIOUS
    <3>2. R \in SUBSET D /\ Cardinality(R) \in Nat /\ Cardinality(R) < m /\ m \in Nat
      BY <1>1, <2>2, <2>5, <3>1, SmallerRound
    <3>3. Cardinality(R) \notin T
      BY <2>1, <3>2
    <3>4. PICK kept \in SUBSET R : Just(R, kept)
      BY <3>2, <3>3
    <3>5. f[S] = f[R]
      BY <1>2, <2>5, <3>1 DEF Round
    <3>6. PICK fault : fault = Build(previous, Bootstrap \cup S).fault
      OBVIOUS
    <3>7. fault # None /\ \E s \in S : s.pkg = fault
      BY <2>5, <3>6 DEF Guilty, Victims, FirstOf
    <3>8. fault # Unnamed
      BY <2>3, <3>7, SourcesHaveClasses DEF OnDisk
    <3>9. PICK v \in Bootstrap \cup S : fault = v.pkg /\ Blamed(Bootstrap \cup S, v)
      BY <2>3, <3>6, <3>7, <3>8, BuildBlames
    <3>10. CASE v \in S
      <4>1. R = S \ FirstOf(S, v.pkg)
        BY <3>1, <3>6, <3>9 DEF Victims
      <4>2. ASSUME LeftOut(C, R, kept)
            PROVE  LeftOut(C, S, kept)
        BY <2>3, <3>9, <3>10, <4>1, <4>2, BlamedIsLeftOut
      <4>3. kept \in SUBSET S /\ Just(S, kept)
        BY <3>4, <3>5, <4>1, <4>2
      <4> HIDE DEF Just
      <4> QED
        BY <2>2, <4>3
    <3>11. CASE v \in Bootstrap
      <4>1. kept \in SUBSET S /\ OnDisk(kept)
        <5>1. kept \in SUBSET S
          BY <3>1
        <5> QED
          BY <2>3, <5>1, FS_Subset DEF OnDisk
      <4>2. Build(previous, Bootstrap \cup kept).fault # None
        BY <2>3, <3>9, <3>11, <4>1, BlamedKernelStays
      <4>3. Just(S, kept)
        BY <3>4, <3>5, <4>2
      <4> HIDE DEF Just
      <4> QED
        BY <2>2, <4>1, <4>3
    <3> QED
      BY <3>10, <3>11, <3>9
  <2> QED
    BY <2>4, <2>5
<1>5. PICK n \in Nat : n = Cardinality(D)
  BY <1>1, FS_CardinalityType
<1>6. n \notin T
  BY <1>4
<1>7. PICK kept \in SUBSET D : Just(D, kept)
  BY <1>5, <1>6
<1> QED
  BY <1>3, <1>7

\* A package that is left out is refused when it is put back.
LEMMA LeftOutIsGuilty ==
    ASSUME NEW D, OnDisk(D), NEW C, NEW kept \in SUBSET D, LeftOut(C, D, kept),
           NEW s \in (D \ kept) \cap C, NEW previous
    PROVE  Build(previous, Bootstrap \cup kept \cup {s}).fault # None
<1> DEFINE back == kept \cup {s}
<1>1. OnDisk(back)
  <2>1. back \in SUBSET D
    OBVIOUS
  <2> QED
    BY <2>1, FS_Subset DEF OnDisk
<1>2. InLine(Bootstrap \cup back) /\ s \in Bootstrap \cup back
  BY <1>1, DiskInLine
<1>3. Below(Bootstrap \cup back, s) = Below(Bootstrap \cup kept, s)
  BY <1>2, BeforeOrders DEF Below
<1>4. Bootstrap \cup kept \cup {s} = Bootstrap \cup back
  OBVIOUS
<1> HIDE DEF back
<1>5. ASSUME Build(previous, Bootstrap \cup back).fault = None
      PROVE  FALSE
  <2>1. s.intact /\ Accepted(s, Below(Bootstrap \cup back, s))
    BY <1>2, <1>5, BuildAccepts
  <2> QED
    BY <1>3, <2>1 DEF LeftOut
<1> QED
  BY <1>4, <1>5

\* What is kept of a set decides itself from the first source to the last:
\* two sets that differ only in sources of less authority keep the same above.
LEMMA AboveDecides ==
    ASSUME NEW D, OnDisk(D), NEW rank \in Nat,
           NEW A, A = {s \in D : Rank[s.class] <= rank},
           NEW K \in SUBSET D, LeftOut(A, D, K), NEW p, Build(p, Bootstrap \cup K).fault = None,
           NEW L \in SUBSET A, LeftOut(A, A, L), NEW q, Build(q, Bootstrap \cup L).fault = None
    PROVE  L = {s \in K : Rank[s.class] <= rank}
<1>1. OnDisk(K) /\ OnDisk(L)
  BY FS_Subset DEF OnDisk
<1>2. /\ \A s \in K : s.intact /\ Accepted(s, Below(Bootstrap \cup K, s))
      /\ \A s \in L : s.intact /\ Accepted(s, Below(Bootstrap \cup L, s))
  BY <1>1, DiskInLine, BuildAccepts
<1> DEFINE T == {s \in A : ~(s \in K <=> s \in L)}
<1>3. ASSUME T # {}
      PROVE  FALSE
  <2>1. InLine(D)
    <3>1. InLine(Bootstrap \cup D) /\ D \in SUBSET (Bootstrap \cup D)
      BY DiskInLine
    <3> QED
      BY <3>1, PartInLine
  <2>2. PICK s \in T : \A t \in T : ~Before(t, s)
    <3>1. T \in SUBSET D
      OBVIOUS
    <3> QED
      BY <1>3, <2>1, <3>1, FirstExists
  <2>3. s \in A /\ ~(s \in K <=> s \in L)
    OBVIOUS
  <2>4. ASSUME NEW t \in D, Before(t, s)
        PROVE  t \in K <=> t \in L
    <3>1. Rank[t.class] \in Nat /\ Rank[s.class] \in Nat /\ Rank[s.class] <= rank
      BY <2>3, SourcesHaveClasses DEF OnDisk, Rank, Class
    <3>2. t \in A
      BY <2>4, <3>1 DEF Before
    <3>3. t \notin T
      BY <2>2, <2>4
    <3> QED
      BY <3>2, <3>3
  <2>5. Below(Bootstrap \cup K, s) = Below(Bootstrap \cup L, s)
    BY <2>4 DEF Below
  <2> HIDE DEF T
  <2> QED
    BY <1>2, <2>3, <2>5 DEF LeftOut
<1> QED
  BY <1>3

\* One entry of a package in the image and one installed, and in what callers have prepared.
DiskInv ==
    /\ OnDisk(disk) /\ DOMAIN candidate = Caller
    /\ \A c \in Caller : candidate[c] # None =>
           LET new == candidate[c]
           IN  new.source = None \/ (new.source \in App /\ new.source.pkg = new.pkg)

LEMMA ChangedOnDisk ==
    ASSUME NEW D, OnDisk(D), NEW pkg, NEW s, s = None \/ (s \in App /\ s.pkg = pkg)
    PROVE  OnDisk({t \in D : ~Installed(t)} \cup Changed({t \in D : Installed(t)}, pkg, s))
<1> DEFINE rest == {t \in D : ~Installed(t) \/ t.pkg # pkg}
           new == IF s = None THEN {} ELSE {s}
<1>1. IsFiniteSet(rest) /\ rest \subseteq D
  BY FS_Subset DEF OnDisk
<1>2. IsFiniteSet(new) /\ \A t \in new : t \in App /\ t.pkg = pkg /\ Installed(t)
  BY FS_EmptySet, FS_Singleton, CatalogAssumption DEF Installed
<1>3. \A t, u \in new : t = u
  OBVIOUS
<1>4. {t \in D : ~Installed(t)} \cup Changed({t \in D : Installed(t)}, pkg, s)
          = rest \cup new
  BY DEF Changed
<1>5. \A t \in rest : ~Installed(t) \/ t.pkg # pkg
  OBVIOUS
<1> HIDE DEF rest, new
<1>6. IsFiniteSet(rest \cup new)
  BY <1>1, <1>2, FS_Union
<1>7. ASSUME NEW t \in rest \cup new, NEW u \in rest \cup new, SameEntry(t, u)
      PROVE  t = u
  BY <1>1, <1>2, <1>3, <1>5, <1>7 DEF OnDisk, SameEntry
<1> QED
  BY <1>1, <1>2, <1>4, <1>6, <1>7 DEF OnDisk, Source

LEMMA RestartedOnDisk ==
    ASSUME NEW D, OnDisk(D), NEW image \in Image
    PROVE  OnDisk({s \in D : Installed(s)} \cup image)
<1> DEFINE apps == {s \in D : Installed(s)}
<1>1. IsFiniteSet(apps) /\ apps \subseteq D /\ \A s \in apps : Installed(s)
  BY FS_Subset DEF OnDisk
<1>2. IsFiniteSet(image) /\ image \subseteq Source /\ \A s \in image : ~Installed(s)
  BY CatalogAssumption DEF Source, Installed
<1>3. IsFiniteSet(apps \cup image)
  BY <1>1, <1>2, FS_Union
<1>4. \A s, t \in image : s.pkg = t.pkg => s = t
  BY SourceAssumption
<1> HIDE DEF apps
<1>5. ASSUME NEW s \in apps \cup image, NEW t \in apps \cup image, SameEntry(s, t)
      PROVE  s = t
  BY <1>1, <1>2, <1>4, <1>5 DEF SameEntry, OnDisk
<1>6. apps \cup image \subseteq Source
  BY <1>1, <1>2 DEF OnDisk
<1> QED
  BY <1>3, <1>5, <1>6 DEF OnDisk, apps

LEMMA DiskStarts == CatalogInit => DiskInv
<1> SUFFICES ASSUME CatalogInit PROVE DiskInv
  OBVIOUS
<1>1. OnDisk(disk)
  BY CatalogAssumption, SourceAssumption DEF CatalogInit, OnDisk, Source, SameEntry
<1> QED
  BY <1>1 DEF CatalogInit, DiskInv

LEMMA DiskStep == DiskInv /\ [CatalogNext]_catalogVars => DiskInv'
<1> SUFFICES ASSUME DiskInv, [CatalogNext]_catalogVars PROVE DiskInv'
  OBVIOUS
<1>1. CASE Boot
  BY <1>1 DEF DiskInv, Boot, OnDisk
<1>2. ASSUME NEW c \in Caller, NEW pkg, NEW s, s = None \/ (s \in App /\ s.pkg = pkg),
             Prepare(c, pkg, s)
      PROVE  DiskInv'
  <2>2. PICK new : new = Candidate(pkg, s)
    OBVIOUS
  <2>3. new.source = s /\ new.pkg = pkg
    BY <2>2 DEF Candidate
  <2>4. candidate' = [candidate EXCEPT ![c] = new] /\ disk' = disk
    BY <1>2, <2>2 DEF Prepare
  <2>5. OnDisk(disk)'
    BY <2>4 DEF DiskInv, OnDisk
  <2> QED
    BY <1>2, <2>3, <2>4, <2>5 DEF DiskInv
<1>6. CASE Change
  <2>1. PICK c \in Caller, t \in App : Prepare(c, t.pkg, t) \/ Prepare(c, t.pkg, None)
    BY <1>6 DEF Change
  <2> QED
    BY <1>2, <2>1
<1>3. ASSUME NEW c \in Caller, Publish(c)
      PROVE  DiskInv'
  <2>1. PICK new : new = candidate[c]
    OBVIOUS
  <2>2. /\ new # None /\ candidate' = [candidate EXCEPT ![c] = None]
        /\ \/ disk' = disk
           \/ disk' = {t \in disk : ~Installed(t)}
                        \cup Changed({t \in disk : Installed(t)}, new.pkg, new.source)
    BY <1>3, <2>1 DEF Publish
  <2>3. OnDisk(disk')
    <3>1. new.source = None \/ (new.source \in App /\ new.source.pkg = new.pkg)
      BY <2>1, <2>2 DEF DiskInv
    <3>2. OnDisk(disk)
      BY DEF DiskInv
    <3> QED
      BY <2>2, <3>1, <3>2, ChangedOnDisk
  <2>4. OnDisk(disk)'
    BY <2>3 DEF OnDisk
  <2> QED
    BY <2>2, <2>4 DEF DiskInv
<1>4. ASSUME NEW image \in Image, Restart(image)
      PROVE  DiskInv'
  <2>1. OnDisk(disk')
    BY <1>4, RestartedOnDisk DEF DiskInv, Restart
  <2> QED
    BY <1>4, <2>1 DEF DiskInv, Restart, OnDisk
<1>5. CASE UNCHANGED catalogVars
  BY <1>5 DEF DiskInv, catalogVars, OnDisk
<1> QED
  BY <1>1, <1>3, <1>4, <1>5, <1>6 DEF CatalogNext

\* Those before every package that shares its id are alone.
LEMMA FirstAreAlone ==
    ASSUME DiskInv, NEW C, C = {s \in disk : \A t \in disk : Shared(t) => Before(s, t)}
    PROVE  Alone(C, disk)
<1>1. InLine(disk)
  <2>1. InLine(Bootstrap \cup disk) /\ disk \in SUBSET (Bootstrap \cup disk)
    BY DiskInLine DEF DiskInv
  <2> QED
    BY <2>1, PartInLine
<1>2. ASSUME NEW s \in C, NEW t \in disk, t.pkg = s.pkg
      PROVE  t = s
  <2>1. ~Before(s, s)
    BY <1>1, BeforeOrders
  <2>2. ~Shared(s)
    BY <2>1
  <2> QED
    BY <1>2, <2>2 DEF Shared
<1>3. ASSUME NEW s \in C, NEW t \in disk, Before(t, s)
      PROVE  t \in C
  <2>1. ASSUME NEW u \in disk, Shared(u)
        PROVE  Before(t, u)
    <3>1. Before(s, u) /\ s \in disk
      BY <2>1
    <3> QED
      BY <1>1, <1>3, <3>1, BeforeOrders
  <2> QED
    BY <2>1
<1> QED
  BY <1>2, <1>3 DEF Alone

LEMMA AboveAreAlone ==
    ASSUME DiskInv, NEW rank \in Nat,
           NEW A, A = {s \in disk : Rank[s.class] <= rank}, \A s \in A : ~Shared(s)
    PROVE  Alone(A, disk) /\ Alone(A, A)
<1>1. ASSUME NEW s \in A, NEW t \in disk, Before(t, s)
      PROVE  t \in A
  <2>1. /\ Rank[t.class] \in Nat /\ Rank[s.class] \in Nat /\ Rank[s.class] <= rank
    BY SourcesHaveClasses DEF DiskInv, OnDisk, Rank, Class
  <2> QED
    BY <1>1, <2>1 DEF Before
<1>2. ASSUME NEW s \in A, NEW t \in disk, t.pkg = s.pkg
      PROVE  t = s
  BY <1>2 DEF Shared
<1> QED
  BY <1>1, <1>2 DEF Alone

LEMMA DiskIsJust == DiskInv => QuarantineIsJust
<1> SUFFICES ASSUME DiskInv PROVE QuarantineIsJust
  OBVIOUS
<1>1. PICK result : result = Quarantine(First, disk)
  OBVIOUS
<1>2. OnDisk(disk)
  BY DEF DiskInv
<1>3. ASSUME NEW C, Alone(C, disk), result.built.fault = None
      PROVE  /\ result.kept \in SUBSET disk /\ LeftOut(C, disk, result.kept)
             /\ Build(First, Bootstrap \cup result.kept).fault = None
  <2>1. PICK kept \in SUBSET disk :
          /\ result = Outcome(First, kept)
          /\ Build(First, Bootstrap \cup kept).fault = None => LeftOut(C, disk, kept)
    BY <1>1, <1>2, <1>3, QuarantineLeavesOut
  <2>2. result.kept = kept /\ result.built = Build(First, Bootstrap \cup kept)
    BY <2>1 DEF Outcome
  <2> QED
    BY <1>3, <2>1, <2>2
<1>4. VictimIsGuilty
  <2>1. ASSUME result.built.fault = None, NEW s \in disk \ result.kept,
               \A t \in disk : Shared(t) => Before(s, t)
        PROVE  Build(First, Bootstrap \cup result.kept \cup {s}).fault # None
    <3>1. PICK C : C = {u \in disk : \A t \in disk : Shared(t) => Before(u, t)}
      OBVIOUS
    <3>2. s \in (disk \ result.kept) \cap C
      BY <2>1, <3>1
    <3> QED
      BY <1>2, <1>3, <2>1, <3>1, <3>2, FirstAreAlone, LeftOutIsGuilty
  <2> QED
    BY <1>1, <2>1 DEF VictimIsGuilty
<1>5. AuthorityIsSheltered
  <2>1. ASSUME result.built.fault = None, NEW rank \in 0..4,
               NEW A, A = {s \in disk : Rank[s.class] <= rank}, \A s \in A : ~Shared(s),
               Quarantine(First, A).built.fault = None
        PROVE  Quarantine(First, A).kept = {s \in result.kept : Rank[s.class] <= rank}
    <3>1. OnDisk(A)
      BY <1>2, <2>1, FS_Subset DEF OnDisk
    <3>2. Alone(A, disk) /\ Alone(A, A)
      BY <2>1, AboveAreAlone
    <3>3. PICK L \in SUBSET A :
            /\ Quarantine(First, A) = Outcome(First, L)
            /\ Build(First, Bootstrap \cup L).fault = None => LeftOut(A, A, L)
      BY <3>1, <3>2, QuarantineLeavesOut
    <3>4. PICK alone : alone = Quarantine(First, A)
      OBVIOUS
    <3>5. alone.kept = L /\ alone.built = Build(First, Bootstrap \cup L)
      BY <3>3, <3>4 DEF Outcome
    <3>6. Build(First, Bootstrap \cup L).fault = None /\ LeftOut(A, A, L)
      BY <2>1, <3>3, <3>4, <3>5
    <3>7. /\ result.kept \in SUBSET disk /\ LeftOut(A, disk, result.kept)
          /\ Build(First, Bootstrap \cup result.kept).fault = None
      BY <1>3, <2>1, <3>2
    <3>8. L = {s \in result.kept : Rank[s.class] <= rank}
      BY <1>2, <2>1, <3>6, <3>7, AboveDecides
    <3> QED
      BY <3>4, <3>5, <3>8
  <2> QED
    BY <1>1, <2>1 DEF AuthorityIsSheltered
<1> QED
  BY <1>4, <1>5 DEF QuarantineIsJust

\* A boot leaves out no package that would have fitted, and none because of a
\* package of less authority, up to the first that shares its id with another:
\* whatever the disk holds, the rounds of prepareEntriesQuarantining end with
\* what each source decides after those before it.
THEOREM QuarantinesAreJust == CatalogSpec => []QuarantineIsJust
<1>1. CatalogSpec => []DiskInv
  BY DiskStarts, DiskStep, PTL DEF CatalogSpec
<1> QED
  BY <1>1, DiskIsJust, PTL

----------------------------------------------------------------------------
(***************************************************************************)
(* What a merge makes of its sources: an interface is the one of its first *)
(* definer, a membership is its source's own, a resource is of its first   *)
(* declarer and of the one manager among all.                              *)
(***************************************************************************)
LEMMA MergeOfNone == Merge({}) = Start
<1>1. IsFiniteSet({}) /\ Cardinality({}) = 0
  BY FS_EmptySet
<1>2. PICK f : Merging(Ordered({}), 0, f) /\ Merge({}) = f[0]
  BY <1>1, MergeIsMerging
<1> QED
  BY <1>2, MergingStep

\* The last source, and the merge of the rest.
Last(S, l) ==
    /\ l \in S /\ Below(S, l) = S \ {l}
    /\ Merge(S) = Step(Merge(S \ {l}), l)

LEMMA LastExists ==
    ASSUME NEW S, InLine(S), S # {}
    PROVE  \E l : Last(S, l)
<1>1. IsFiniteSet(S)
  BY DEF InLine
<1>2. PICK n \in Nat : n + 1 = Cardinality(S)
  <2>1. Cardinality(S) \in Nat /\ Cardinality(S) # 0
    BY <1>1, FS_CardinalityType, FS_EmptySet
  <2>2. Cardinality(S) - 1 \in Nat /\ (Cardinality(S) - 1) + 1 = Cardinality(S)
    BY <2>1
  <2> QED
    BY <2>2
<1>3. PICK l \in S : Cardinality(Below(S, l)) = n
  BY <1>2, PlacesAreTaken
<1>4. IsFiniteSet(S \ {l}) /\ Cardinality(S \ {l}) = (n + 1) - 1
  BY <1>1, <1>2, FS_RemoveElement
<1>5. Below(S, l) \in SUBSET (S \ {l})
  BY BeforeOrders DEF Below
<1>6. Below(S, l) = S \ {l}
  <2>1. (n + 1) - 1 = n
    OBVIOUS
  <2> QED
    BY <1>3, <1>4, <1>5, <2>1, FS_Subset
<1>7. PICK f : Merging(Ordered(S), n + 1, f) /\ Merge(S) = f[n + 1]
  BY <1>1, <1>2, MergeIsMerging
<1>8. f[n] = Merge(S \ {l})
  BY <1>2, <1>3, <1>6, <1>7, MergeBelow
<1>9. f[n + 1] = Step(f[n], l)
  <2>1. f[n + 1] = Step(f[(n + 1) - 1], Ordered(S)[n + 1])
    BY <1>7, MergingStep
  <2>2. Ordered(S)[n + 1] = l /\ (n + 1) - 1 = n
    BY <1>3, PlaceOf
  <2> QED
    BY <2>1, <2>2
<1> QED
  BY <1>6, <1>7, <1>8, <1>9 DEF Last

\* What the last adds, when the merge is accepted.
LEMMA LastAdds ==
    ASSUME NEW S, InLine(S), NEW l, Last(S, l), Merge(S).fault = None,
           NEW R, R = S \ {l}
    PROVE  /\ InLine(R) /\ l \in S /\ S = R \cup {l} /\ l \notin R
           /\ Cardinality(R) \in Nat /\ Cardinality(R) < Cardinality(S)
           /\ Merge(R).fault = None /\ Fits(Merge(R).next, l)
           /\ Merge(S).next = Add(Merge(R).next, l)
           /\ \A s \in R : Below(S, s) = Below(R, s)
           /\ Below(S, l) = R
<1>1. InLine(R) /\ l \in S /\ Below(S, l) = R
  BY PartInLine DEF Last
<1>2. IsFiniteSet(S) /\ IsFiniteSet(R)
  BY <1>1 DEF InLine
<1>3. Cardinality(R) = Cardinality(S) - 1 /\ Cardinality(S) \in Nat /\ Cardinality(R) \in Nat
  BY <1>1, <1>2, FS_RemoveElement, FS_CardinalityType
<1>4. Cardinality(R) < Cardinality(S)
  BY <1>3
<1>5. PICK m : m = Merge(R)
  OBVIOUS
<1>6. DOMAIN m = {"fault", "next", "seen"}
  BY <1>2, <1>5, MergeKeeps DEF MergeOK
<1>7. Merge(S) = Step(m, l) /\ l.pkg # None
  BY <1>5 DEF Last, InLine
<1>8. m.fault = None
  BY <1>7 DEF Step
<1>9. l.pkg \notin m.seen /\ Fits(m.next, l)
  BY <1>6, <1>7, <1>8, StepBlames
<1>10. Step(m, l) = [fault |-> None, next |-> Add(m.next, l), seen |-> m.seen \cup {l.pkg}]
  BY <1>8, <1>9 DEF Step
<1>11. Step(m, l).next = Add(m.next, l)
  BY <1>10
<1>12. \A s \in R : Below(S, s) = Below(R, s)
  <2>1. \A s \in R : ~Before(l, s)
    BY <1>1, BeforeOrders DEF Below
  <2> QED
    BY <2>1 DEF Below
<1> QED
  BY <1>1, <1>3, <1>4, <1>5, <1>7, <1>8, <1>9, <1>11, <1>12

InterfaceOf(s, i) == With(Contract(i), "owner", Owner(s))
Defines(S, s, i) ==
    /\ s \in S /\ i \in s.interfaces
    /\ \A t \in Below(S, s) : \A j \in t.interfaces : ~SameInterface(j, i)
InterfacesMade(S) ==
    \A d : d \in Merge(S).next.interfaces
              <=> \E s, i : Defines(S, s, i) /\ d = InterfaceOf(s, i)

\* An interface has a definer as soon as a source has it.
LEMMA DefinerExists ==
    ASSUME NEW S, InLine(S), NEW t \in S, NEW j \in t.interfaces
    PROVE  \E s, i : Defines(S, s, i) /\ SameInterface(i, j)
<1> DEFINE T == {s \in S : \E i \in s.interfaces : SameInterface(i, j)}
<1>1. T \in SUBSET S /\ t \in T
  BY DEF SameInterface
<1>2. PICK s \in T : \A u \in T : ~Before(u, s)
  BY <1>1, FirstExists
<1>3. PICK i \in s.interfaces : SameInterface(i, j)
  OBVIOUS
<1>4. ASSUME NEW u \in Below(S, s), NEW k \in u.interfaces, SameInterface(k, i)
      PROVE  FALSE
  <2>1. SameInterface(k, j)
    BY <1>3, <1>4 DEF SameInterface
  <2>2. u \in T /\ Before(u, s)
    BY <2>1 DEF Below
  <2> QED
    BY <1>2, <2>2
<1>5. s \in S
  BY <1>1
<1> QED
  BY <1>3, <1>4, <1>5 DEF Defines

LEMMA InterfaceOfNames ==
    ASSUME NEW s, NEW i
    PROVE  SameInterface(InterfaceOf(s, i), i) /\ InterfaceOf(s, i).owner = Owner(s)
BY DEF InterfaceOf, With, Contract, SameInterface

LEMMA LastDefines ==
    ASSUME NEW S, InLine(S), NEW l, Last(S, l), Merge(S).fault = None,
           NEW R, R = S \ {l}, InterfacesMade(R)
    PROVE  InterfacesMade(S)
<1>1. /\ InLine(R) /\ S = R \cup {l} /\ l \notin R
      /\ Merge(S).next = Add(Merge(R).next, l)
      /\ \A s \in R : Below(S, s) = Below(R, s)
      /\ Below(S, l) = R
  BY LastAdds
<1>2. PICK old : old = Merge(R).next.interfaces
  OBVIOUS
<1>3. Merge(S).next.interfaces =
          old \cup {InterfaceOf(l, i) : i \in {j \in l.interfaces : Defining(old, j) = {}}}
  <2>1. PICK next : next = Merge(R).next
    OBVIOUS
  <2>2. Add(next, l).interfaces = next.interfaces
            \cup {InterfaceOf(l, i) : i \in {j \in l.interfaces : Defining(next.interfaces, j) = {}}}
    BY DEF Add, InterfaceOf
  <2> QED
    BY <1>1, <1>2, <2>1, <2>2
<1>4. \A s \in R : \A i : Defines(S, s, i) <=> Defines(R, s, i)
  BY <1>1 DEF Defines
<1>5. \A s, i : Defines(R, s, i) => s \in R
  BY DEF Defines
<1>6. \A d : d \in old <=> \E s, i : Defines(R, s, i) /\ d = InterfaceOf(s, i)
  BY <1>2 DEF InterfacesMade
<1>7. ASSUME NEW i \in l.interfaces
      PROVE  Defining(old, i) = {} <=> Defines(S, l, i)
  <2>1. ASSUME NEW d \in Defining(old, i)
        PROVE  ~Defines(S, l, i)
    <3>1. PICK s, j : Defines(R, s, j) /\ d = InterfaceOf(s, j)
      BY <1>6 DEF Defining
    <3>2. SameInterface(j, i) /\ s \in R /\ j \in s.interfaces
      BY <3>1, InterfaceOfNames DEF Defining, SameInterface, Defines
    <3> QED
      BY <1>1, <3>2 DEF Defines
  <2>2. ASSUME ~Defines(S, l, i)
        PROVE  Defining(old, i) # {}
    <3>4. PICK t \in R : \E j \in t.interfaces : SameInterface(j, i)
      BY <1>1, <2>2 DEF Defines
    <3>1. PICK j \in t.interfaces : SameInterface(j, i)
      BY <3>4
    <3>2. PICK s, k : Defines(R, s, k) /\ SameInterface(k, j)
      BY <1>1, <3>1, DefinerExists
    <3>3. PICK d : d = InterfaceOf(s, k)
      OBVIOUS
    <3>5. d \in old
      BY <1>6, <3>2, <3>3
    <3>6. SameInterface(d, k)
      BY <3>3, InterfaceOfNames
    <3> QED
      BY <3>1, <3>2, <3>5, <3>6 DEF Defining, SameInterface
  <2> QED
    BY <2>1, <2>2
<1>8. \A i : Defines(S, l, i) => i \in l.interfaces
  BY DEF Defines
<1>9. \A d : d \in Merge(S).next.interfaces
                <=> d \in old \/ \E i : Defines(S, l, i) /\ d = InterfaceOf(l, i)
  BY <1>3, <1>7, <1>8
<1>10. \A s, i : Defines(S, s, i) <=> Defines(R, s, i) \/ (s = l /\ Defines(S, l, i))
  <2>1. \A s, i : Defines(S, s, i) => s \in S
    BY DEF Defines
  <2> QED
    BY <1>1, <1>4, <1>5, <2>1
<1>11. \A d : d \in Merge(S).next.interfaces
                 <=> \E s, i : Defines(S, s, i) /\ d = InterfaceOf(s, i)
  <2>1. ASSUME NEW d \in Merge(S).next.interfaces
        PROVE  \E s, i : Defines(S, s, i) /\ d = InterfaceOf(s, i)
    <3>1. CASE d \in old
      <4>1. PICK s, i : Defines(R, s, i) /\ d = InterfaceOf(s, i)
        BY <1>6, <3>1
      <4> QED
        BY <1>10, <4>1
    <3>2. CASE d \notin old
      BY <1>9, <3>2
    <3> QED
      BY <3>1, <3>2
  <2>2. ASSUME NEW s, NEW i, Defines(S, s, i)
        PROVE  InterfaceOf(s, i) \in Merge(S).next.interfaces
    <3>1. CASE Defines(R, s, i)
      BY <1>6, <1>9, <3>1
    <3>2. CASE s = l /\ Defines(S, l, i)
      BY <1>9, <3>2
    <3> QED
      BY <1>10, <2>2, <3>1, <3>2
  <2> QED
    BY <2>1, <2>2
<1> QED
  BY <1>11 DEF InterfacesMade

LEMMA InterfacesAreMade ==
    ASSUME NEW U, InLine(U), Merge(U).fault = None
    PROVE  InterfacesMade(U)
<1> DEFINE T == {n \in Nat : \E S \in SUBSET U :
                    Cardinality(S) = n /\ Merge(S).fault = None /\ ~InterfacesMade(S)}
<1>1. ASSUME T # {}
      PROVE  FALSE
  <2>1. PICK m \in T : \A k \in T : m <= k
    BY <1>1, LeastNumber
  <2>2. PICK S \in SUBSET U :
          Cardinality(S) = m /\ Merge(S).fault = None /\ ~InterfacesMade(S)
    BY <2>1
  <2>3. InLine(S)
    BY PartInLine
  <2>4. CASE S = {}
    <3>1. Merge(S).next.interfaces = {}
      BY <2>4, MergeOfNone DEF Start, Empty
    <3>2. \A s, i : ~Defines(S, s, i)
      BY <2>4 DEF Defines
    <3> QED
      BY <2>2, <3>1, <3>2 DEF InterfacesMade
  <2>5. CASE S # {}
    <3>1. PICK l : Last(S, l)
      BY <2>3, <2>5, LastExists
    <3>2. PICK R : R = S \ {l}
      OBVIOUS
    <3>3. Cardinality(R) \in Nat /\ Cardinality(R) < m /\ Merge(R).fault = None
      BY <2>2, <2>3, <3>1, <3>2, LastAdds
    <3>4. InterfacesMade(R)
      <4>1. Cardinality(R) \notin T /\ R \in SUBSET U
        BY <2>1, <3>2, <3>3
      <4> QED
        BY <3>3, <4>1
    <3> QED
      BY <2>2, <2>3, <3>1, <3>2, <3>4, LastDefines
  <2> QED
    BY <2>4, <2>5
<1>2. PICK n \in Nat : n = Cardinality(U)
  BY FS_CardinalityType DEF InLine
<1>3. n \notin T
  BY <1>1
<1> QED
  BY <1>2, <1>3

MembershipOf(s, i) ==
    [pkg |-> s.pkg, id |-> i.id, major |-> i.major,
     component |-> Exporter(s, i), owner |-> Owner(s)]
Exports(S, s, i) == s \in S /\ i \in s.interfaces /\ \E e \in s.exports : e.id = i.id
ProvidersMade(S) ==
    \A p : p \in Merge(S).next.providers
              <=> \E s, i : Exports(S, s, i) /\ p = MembershipOf(s, i)

LEMMA LastExports ==
    ASSUME NEW S, InLine(S), NEW l, Last(S, l), Merge(S).fault = None,
           NEW R, R = S \ {l}, ProvidersMade(R)
    PROVE  ProvidersMade(S)
<1>1. S = R \cup {l} /\ Merge(S).next = Add(Merge(R).next, l)
  BY LastAdds
<1>2. PICK old : old = Merge(R).next.providers
  OBVIOUS
<1>3. Merge(S).next.providers =
          old \cup {MembershipOf(l, i) : i \in {j \in l.interfaces : \E e \in l.exports : e.id = j.id}}
  <2>1. PICK next : next = Merge(R).next
    OBVIOUS
  <2>2. Add(next, l).providers = next.providers
            \cup {MembershipOf(l, i) : i \in {j \in l.interfaces : \E e \in l.exports : e.id = j.id}}
    BY DEF Add, MembershipOf
  <2> QED
    BY <1>1, <1>2, <2>1, <2>2
<1>4. \A p : p \in Merge(S).next.providers
                <=> p \in old \/ \E i : Exports(S, l, i) /\ p = MembershipOf(l, i)
  BY <1>1, <1>3 DEF Exports
<1>5. \A p : p \in old <=> \E s, i : Exports(R, s, i) /\ p = MembershipOf(s, i)
  BY <1>2 DEF ProvidersMade
<1>6. \A s, i : Exports(S, s, i) <=> Exports(R, s, i) \/ (s = l /\ Exports(S, l, i))
  BY <1>1 DEF Exports
<1> QED
  BY <1>4, <1>5, <1>6 DEF ProvidersMade

LEMMA ProvidersAreMade ==
    ASSUME NEW U, InLine(U), Merge(U).fault = None
    PROVE  ProvidersMade(U)
<1> DEFINE T == {n \in Nat : \E S \in SUBSET U :
                    Cardinality(S) = n /\ Merge(S).fault = None /\ ~ProvidersMade(S)}
<1>1. ASSUME T # {}
      PROVE  FALSE
  <2>1. PICK m \in T : \A k \in T : m <= k
    BY <1>1, LeastNumber
  <2>2. PICK S \in SUBSET U :
          Cardinality(S) = m /\ Merge(S).fault = None /\ ~ProvidersMade(S)
    BY <2>1
  <2>3. InLine(S)
    BY PartInLine
  <2>4. CASE S = {}
    <3>1. Merge(S).next.providers = {}
      BY <2>4, MergeOfNone DEF Start, Empty
    <3>2. \A s, i : ~Exports(S, s, i)
      BY <2>4 DEF Exports
    <3> QED
      BY <2>2, <3>1, <3>2 DEF ProvidersMade
  <2>5. CASE S # {}
    <3>1. PICK l : Last(S, l)
      BY <2>3, <2>5, LastExists
    <3>2. PICK R : R = S \ {l}
      OBVIOUS
    <3>3. Cardinality(R) \in Nat /\ Cardinality(R) < m /\ Merge(R).fault = None
      BY <2>2, <2>3, <3>1, <3>2, LastAdds
    <3>4. ProvidersMade(R)
      <4>1. Cardinality(R) \notin T /\ R \in SUBSET U
        BY <2>1, <3>2, <3>3
      <4> QED
        BY <3>3, <4>1
    <3> QED
      BY <2>2, <2>3, <3>1, <3>2, <3>4, LastExports
  <2> QED
    BY <2>4, <2>5
<1>2. PICK n \in Nat : n = Cardinality(U)
  BY FS_CardinalityType DEF InLine
<1>3. n \notin T
  BY <1>1
<1> QED
  BY <1>2, <1>3

Declares(s, q) == \E u \in s.resources : SameResource(u, q)
Managers(S, q) == {Manager(t) : t \in {t \in S : Declares(t, q)}} \ {None}
AnyOrNone(M) == IF M = {} THEN None ELSE CHOOSE m \in M : TRUE
ManagerIn(S, q) == AnyOrNone(Managers(S, q))
ResourceOf(S, s, q) ==
    [type |-> q.type, role |-> q.role, label |-> q.label, risk |-> q.risk,
     owner |-> Owner(s), manager |-> ManagerIn(S, q)]
Holds(S, s, q) ==
    s \in S /\ q \in s.resources /\ \A t \in Below(S, s) : ~Declares(t, q)
ResourcesMade(S) ==
    \A r : r \in Merge(S).next.resources
              <=> \E s, q : Holds(S, s, q) /\ r = ResourceOf(S, s, q)

\* A resource has a holder as soon as a source declares it.
LEMMA HolderExists ==
    ASSUME NEW S, InLine(S), NEW t \in S, NEW r, Declares(t, r)
    PROVE  \E s, q : Holds(S, s, q) /\ SameResource(q, r)
<1> DEFINE T == {s \in S : Declares(s, r)}
<1>1. T \in SUBSET S /\ t \in T
  OBVIOUS
<1>2. PICK s \in T : \A u \in T : ~Before(u, s)
  BY <1>1, FirstExists
<1>3. PICK q \in s.resources : SameResource(q, r)
  BY DEF Declares
<1>4. ASSUME NEW u \in Below(S, s), Declares(u, q)
      PROVE  FALSE
  <2>1. Declares(u, r)
    BY <1>3, <1>4 DEF Declares, SameResource
  <2>2. u \in T /\ Before(u, s)
    BY <2>1 DEF Below
  <2> QED
    BY <1>2, <2>2
<1>5. s \in S
  BY <1>1
<1> QED
  BY <1>3, <1>4, <1>5 DEF Holds

\* One more source: a resource it does not declare keeps its manager, one it
\* declares has it as the manager when it had none.
LEMMA ManagerGrows ==
    ASSUME NEW R, NEW l, NEW S, S = R \cup {l}, NEW q
    PROVE  /\ ~Declares(l, q) => ManagerIn(S, q) = ManagerIn(R, q)
           /\ Declares(l, q) /\ (ManagerIn(R, q) = None \/ Manager(l) = None) =>
                  ManagerIn(S, q) = IF ManagerIn(R, q) = None THEN Manager(l)
                                    ELSE ManagerIn(R, q)
<1>1. ManagerIn(R, q) = None <=> Managers(R, q) = {}
  <2>1. \A m \in Managers(R, q) : m # None
    BY DEF Managers
  <2>2. CASE Managers(R, q) # {}
    <3>1. (CHOOSE m \in Managers(R, q) : TRUE) \in Managers(R, q)
      BY <2>2
    <3> QED
      BY <2>1, <2>2, <3>1 DEF ManagerIn, AnyOrNone
  <2> QED
    BY <2>2 DEF ManagerIn, AnyOrNone
<1>2. ASSUME ~Declares(l, q)
      PROVE  ManagerIn(S, q) = ManagerIn(R, q)
  <2>1. Managers(S, q) = Managers(R, q)
    BY <1>2 DEF Managers
  <2> QED
    BY <2>1 DEF ManagerIn
<1>3. ASSUME Declares(l, q), Manager(l) = None
      PROVE  ManagerIn(S, q) = ManagerIn(R, q)
  <2>1. Managers(S, q) = Managers(R, q)
    BY <1>3 DEF Managers
  <2> QED
    BY <2>1 DEF ManagerIn
<1>4. ASSUME Declares(l, q), Manager(l) # None, ManagerIn(R, q) = None
      PROVE  ManagerIn(S, q) = Manager(l)
  <2>1. Managers(R, q) = {}
    BY <1>1, <1>4
  <2>2. Managers(S, q) = {Manager(l)}
    BY <1>4, <2>1 DEF Managers
  <2>3. (CHOOSE m \in {Manager(l)} : TRUE) = Manager(l)
    OBVIOUS
  <2> QED
    BY <2>2, <2>3 DEF ManagerIn, AnyOrNone
<1> QED
  BY <1>2, <1>3, <1>4

LEMMA SameResources ==
    \A a, b, c : /\ SameResource(a, a)
                 /\ SameResource(a, b) => SameResource(b, a)
                 /\ SameResource(a, b) /\ SameResource(b, c) => SameResource(a, c)
BY DEF SameResource

\* What the last source adds to the resources.
LEMMA AddResources ==
    ASSUME NEW next, NEW s, NEW add, add = Add(next, s).resources
    PROVE  \A r : r \in add <=>
               \/ r \in next.resources /\ ~Declares(s, r)
               \/ \E d \in next.resources :
                      /\ Declares(s, d)
                      /\ r = [d EXCEPT !.manager = IF @ = None THEN Manager(s) ELSE @]
               \/ \E q \in s.resources :
                      /\ \A d \in next.resources : ~SameResource(d, q)
                      /\ r = [type |-> q.type, role |-> q.role, label |-> q.label,
                              risk |-> q.risk, owner |-> Owner(s), manager |-> Manager(s)]
<1> DEFINE led(d) == [d EXCEPT !.manager = IF @ = None THEN Manager(s) ELSE @]
           new(q) == [type |-> q.type, role |-> q.role, label |-> q.label,
                      risk |-> q.risk, owner |-> Owner(s), manager |-> Manager(s)]
<1>1. \A d : Declares(s, d) <=> \E r \in s.resources : SameResource(d, r)
  BY SameResources DEF Declares
<1>2. add = {d \in next.resources : \A r \in s.resources : ~SameResource(d, r)}
            \cup {led(d) : d \in {d \in next.resources : \E r \in s.resources : SameResource(d, r)}}
            \cup {new(q) : q \in {r \in s.resources : \A d \in next.resources : ~SameResource(d, r)}}
  BY DEF Add
<1> HIDE DEF led, new
<1>3. \A r : r \in add <=>
               \/ r \in next.resources /\ ~Declares(s, r)
               \/ \E d \in next.resources : Declares(s, d) /\ r = led(d)
               \/ \E q \in s.resources :
                      (\A d \in next.resources : ~SameResource(d, q)) /\ r = new(q)
  BY <1>1, <1>2
<1> QED
  BY <1>3 DEF led, new

LEMMA ResourceOfNames ==
    ASSUME NEW S, NEW s, NEW q, NEW r, r = ResourceOf(S, s, q)
    PROVE  /\ SameResource(r, q) /\ r.owner = Owner(s) /\ r.manager = ManagerIn(S, q)
           /\ \A v : [r EXCEPT !.manager = v] =
                  [type |-> q.type, role |-> q.role, label |-> q.label, risk |-> q.risk,
                   owner |-> Owner(s), manager |-> v]
<1>1. r = [type |-> q.type, role |-> q.role, label |-> q.label, risk |-> q.risk,
           owner |-> Owner(s), manager |-> ManagerIn(S, q)]
  BY DEF ResourceOf
<1>2. \A v : [r EXCEPT !.manager = v] =
                  [type |-> q.type, role |-> q.role, label |-> q.label, risk |-> q.risk,
                   owner |-> Owner(s), manager |-> v]
  BY <1>1
<1> QED
  BY <1>1, <1>2 DEF SameResource

LEMMA DeclaresSame ==
    ASSUME NEW s, NEW q, NEW r, SameResource(q, r)
    PROVE  Declares(s, q) <=> Declares(s, r)
BY DEF Declares, SameResource

LEMMA ManagerOfSame ==
    ASSUME NEW S, NEW q, NEW r, SameResource(q, r)
    PROVE  ManagerIn(S, q) = ManagerIn(S, r)
<1>1. \A s : Declares(s, q) <=> Declares(s, r)
  BY DeclaresSame
<1>2. Managers(S, q) = Managers(S, r)
  BY <1>1 DEF Managers
<1> QED
  BY <1>2 DEF ManagerIn

LEMMA LastHolds ==
    ASSUME NEW S, InLine(S), NEW l, Last(S, l), Merge(S).fault = None,
           NEW R, R = S \ {l}, ResourcesMade(R)
    PROVE  ResourcesMade(S)
<1>1. /\ InLine(R) /\ S = R \cup {l} /\ l \notin R
      /\ Merge(S).next = Add(Merge(R).next, l) /\ Fits(Merge(R).next, l)
      /\ \A s \in R : Below(S, s) = Below(R, s)
      /\ Below(S, l) = R
  BY LastAdds
<1>2. PICK next : next = Merge(R).next
  OBVIOUS
<1>3. PICK add : add = Add(next, l).resources
  OBVIOUS
<1>4. Merge(S).next.resources = add
  BY <1>1, <1>2, <1>3
<1>5. \A r : r \in next.resources <=> \E s, q : Holds(R, s, q) /\ r = ResourceOf(R, s, q)
  BY <1>2 DEF ResourcesMade
<1>6. ResourcesFit(next, l)
  BY <1>1, <1>2 DEF Fits
<1> DEFINE Led(r) ==
               IF Declares(l, r)
               THEN [r EXCEPT !.manager = IF @ = None THEN Manager(l) ELSE @]
               ELSE r
           New(q) == [type |-> q.type, role |-> q.role, label |-> q.label,
                      risk |-> q.risk, owner |-> Owner(l), manager |-> Manager(l)]
<1>7. \A r : r \in add <=> \/ \E d \in next.resources : r = Led(d)
                           \/ \E q \in l.resources :
                                 (\A d \in next.resources : ~SameResource(d, q)) /\ r = New(q)
  <2>1. \A r : r \in add <=>
               \/ r \in next.resources /\ ~Declares(l, r)
               \/ \E d \in next.resources :
                      /\ Declares(l, d)
                      /\ r = [d EXCEPT !.manager = IF @ = None THEN Manager(l) ELSE @]
               \/ \E q \in l.resources :
                      (\A d \in next.resources : ~SameResource(d, q)) /\ r = New(q)
    BY <1>3, AddResources
  <2>2. \A d : Declares(l, d) =>
            Led(d) = [d EXCEPT !.manager = IF @ = None THEN Manager(l) ELSE @]
    OBVIOUS
  <2>3. \A d : ~Declares(l, d) => Led(d) = d
    OBVIOUS
  <2> HIDE DEF Led, New
  <2> QED
    BY <2>1, <2>2, <2>3
\* A resource held before is led by the last if it declares it.
<1>8. ASSUME NEW s, NEW q, Holds(R, s, q)
      PROVE  Holds(S, s, q) /\ Led(ResourceOf(R, s, q)) = ResourceOf(S, s, q)
  <2>1. PICK d : d = ResourceOf(R, s, q)
    OBVIOUS
  <2>2. /\ SameResource(d, q) /\ d.manager = ManagerIn(R, q)
        /\ \A v : [d EXCEPT !.manager = v] =
               [type |-> q.type, role |-> q.role, label |-> q.label, risk |-> q.risk,
                owner |-> Owner(s), manager |-> v]
    BY <2>1, ResourceOfNames
  <2>3. d \in next.resources
    BY <1>5, <1>8, <2>1
  <2>4. Declares(l, d) <=> Declares(l, q)
    BY <2>2, DeclaresSame
  <2>5. Holds(S, s, q)
    BY <1>1, <1>8 DEF Holds
  <2>6. CASE ~Declares(l, q)
    <3>1. ManagerIn(S, q) = ManagerIn(R, q)
      BY <1>1, <2>6, ManagerGrows
    <3>2. ResourceOf(S, s, q) = ResourceOf(R, s, q)
      BY <3>1 DEF ResourceOf
    <3> QED
      BY <2>1, <2>4, <2>5, <2>6, <3>2
  <2>7. CASE Declares(l, q)
    <3>1. d.manager = None \/ Manager(l) = None
      <4>1. PICK r \in l.resources : SameResource(d, r)
        BY <2>4, <2>7, SameResources DEF Declares
      <4> QED
        BY <1>6, <2>3, <4>1 DEF ResourcesFit
    <3>2. ManagerIn(S, q) = IF d.manager = None THEN Manager(l) ELSE d.manager
      BY <1>1, <2>2, <2>7, <3>1, ManagerGrows
    <3>3. Led(d) = [d EXCEPT !.manager = ManagerIn(S, q)]
      <4>1. Led(d) = [d EXCEPT !.manager = IF d.manager = None THEN Manager(l) ELSE d.manager]
        BY <2>4, <2>7
      <4> QED
        BY <3>2, <4>1
    <3>4. Led(d) = ResourceOf(S, s, q)
      <4> HIDE DEF Led
      <4> QED
        BY <2>2, <3>3 DEF ResourceOf
    <3> HIDE DEF Led
    <3> QED
      BY <2>1, <2>5, <3>4
  <2> QED
    BY <2>6, <2>7
\* One that nobody held is the last one's.
<1>9. ASSUME NEW q \in l.resources
      PROVE  (\A d \in next.resources : ~SameResource(d, q)) <=> Holds(S, l, q)
  <2>1. ASSUME NEW d \in next.resources, SameResource(d, q)
        PROVE  ~Holds(S, l, q)
    <3>1. PICK s, t : Holds(R, s, t) /\ d = ResourceOf(R, s, t)
      BY <1>5
    <3>2. SameResource(t, q)
      BY <2>1, <3>1, ResourceOfNames, SameResources
    <3>3. s \in R /\ Declares(s, q)
      BY <3>1, <3>2 DEF Holds, Declares
    <3> QED
      BY <1>1, <3>3 DEF Holds
  <2>2. ASSUME ~Holds(S, l, q)
        PROVE  \E d \in next.resources : SameResource(d, q)
    <3>1. PICK t \in R : Declares(t, q)
      BY <1>1, <2>2 DEF Holds
    <3>2. PICK s, k : Holds(R, s, k) /\ SameResource(k, q)
      BY <1>1, <3>1, HolderExists
    <3>3. PICK d : d = ResourceOf(R, s, k)
      OBVIOUS
    <3>4. d \in next.resources
      BY <1>5, <3>2, <3>3
    <3>5. SameResource(d, q)
      BY <3>2, <3>3, ResourceOfNames, SameResources
    <3> QED
      BY <3>4, <3>5
  <2> QED
    BY <2>1, <2>2
<1>10. ASSUME NEW q, Holds(S, l, q)
       PROVE  New(q) = ResourceOf(S, l, q) /\ q \in l.resources
  <2>1. q \in l.resources /\ \A t \in R : ~Declares(t, q)
    BY <1>1, <1>10 DEF Holds
  <2>2. ManagerIn(R, q) = None
    <3>1. Managers(R, q) = {}
      BY <2>1 DEF Managers
    <3> QED
      BY <3>1 DEF ManagerIn, AnyOrNone
  <2>3. Declares(l, q)
    BY <2>1, SameResources DEF Declares
  <2>4. ManagerIn(S, q) = Manager(l)
    BY <1>1, <2>2, <2>3, ManagerGrows
  <2> QED
    BY <2>1, <2>4 DEF ResourceOf
<1>11. ASSUME NEW s, NEW q, Holds(S, s, q)
       PROVE  Holds(R, s, q) \/ s = l
  BY <1>1, <1>11 DEF Holds
<1> HIDE DEF Led, New
<1>12. ASSUME NEW r \in add
       PROVE  \E s, q : Holds(S, s, q) /\ r = ResourceOf(S, s, q)
  <2>1. CASE \E d \in next.resources : r = Led(d)
    <3>1. PICK d \in next.resources : r = Led(d)
      BY <2>1
    <3>2. PICK s, q : Holds(R, s, q) /\ d = ResourceOf(R, s, q)
      BY <1>5
    <3> QED
      BY <1>8, <3>1, <3>2
  <2>2. CASE \E q \in l.resources : (\A d \in next.resources : ~SameResource(d, q)) /\ r = New(q)
    <3>1. PICK q \in l.resources : (\A d \in next.resources : ~SameResource(d, q)) /\ r = New(q)
      BY <2>2
    <3>2. Holds(S, l, q)
      BY <1>9, <3>1
    <3> QED
      BY <1>10, <3>1, <3>2
  <2> QED
    BY <1>7, <2>1, <2>2
<1>13. ASSUME NEW s, NEW q, Holds(S, s, q)
       PROVE  ResourceOf(S, s, q) \in add
  <2>1. CASE Holds(R, s, q)
    <3>1. ResourceOf(R, s, q) \in next.resources
      BY <1>5, <2>1
    <3>2. Led(ResourceOf(R, s, q)) \in add
      BY <1>7, <3>1
    <3> QED
      BY <1>8, <2>1, <3>2
  <2>2. CASE s = l
    <3>1. q \in l.resources /\ New(q) = ResourceOf(S, l, q)
      BY <1>10, <1>13, <2>2
    <3>2. \A d \in next.resources : ~SameResource(d, q)
      BY <1>9, <1>13, <2>2, <3>1
    <3>3. New(q) \in add
      BY <1>7, <3>1, <3>2
    <3> QED
      BY <2>2, <3>1, <3>3
  <2> QED
    BY <1>11, <1>13, <2>1, <2>2
<1>14. \A r : r \in add <=> \E s, q : Holds(S, s, q) /\ r = ResourceOf(S, s, q)
  BY <1>12, <1>13
<1> QED
  BY <1>4, <1>14 DEF ResourcesMade

LEMMA ResourcesAreMade ==
    ASSUME NEW U, InLine(U), Merge(U).fault = None
    PROVE  ResourcesMade(U)
<1> DEFINE T == {n \in Nat : \E S \in SUBSET U :
                    Cardinality(S) = n /\ Merge(S).fault = None /\ ~ResourcesMade(S)}
<1>1. ASSUME T # {}
      PROVE  FALSE
  <2>1. PICK m \in T : \A k \in T : m <= k
    BY <1>1, LeastNumber
  <2>2. PICK S \in SUBSET U :
          Cardinality(S) = m /\ Merge(S).fault = None /\ ~ResourcesMade(S)
    BY <2>1
  <2>3. InLine(S)
    BY PartInLine
  <2>4. CASE S = {}
    <3>1. Merge(S).next.resources = {}
      BY <2>4, MergeOfNone DEF Start, Empty
    <3>2. \A s, q : ~Holds(S, s, q)
      BY <2>4 DEF Holds
    <3> QED
      BY <2>2, <3>1, <3>2 DEF ResourcesMade
  <2>5. CASE S # {}
    <3>1. PICK l : Last(S, l)
      BY <2>3, <2>5, LastExists
    <3>2. PICK R : R = S \ {l}
      OBVIOUS
    <3>3. Cardinality(R) \in Nat /\ Cardinality(R) < m /\ Merge(R).fault = None
      BY <2>2, <2>3, <3>1, <3>2, LastAdds
    <3>4. ResourcesMade(R)
      <4>1. Cardinality(R) \notin T /\ R \in SUBSET U
        BY <2>1, <3>2, <3>3
      <4> QED
        BY <3>3, <4>1
    <3> QED
      BY <2>2, <2>3, <3>1, <3>2, <3>4, LastHolds
  <2> QED
    BY <2>4, <2>5
<1>2. PICK n \in Nat : n = Cardinality(U)
  BY FS_CardinalityType DEF InLine
<1>3. n \notin T
  BY <1>1
<1> QED
  BY <1>2, <1>3

----------------------------------------------------------------------------
(***************************************************************************)
(* A change of one app.  A membership of another package is the same in the *)
(* merge with it as in the merge without it, an interface unless the app    *)
(* owns it in either, and a resource always: two packages never manage one, *)
(* and no app manages one of a reserved type, as the kernel's are.          *)
(***************************************************************************)
DifferInApp(U, V, pkg) ==
    \A s \in U \cup V : ~(s \in U /\ s \in V) => s.class = "app" /\ s.pkg = pkg

Managed(S) ==
    \A s \in S : IF s.class = "kernel"
                 THEN \A q \in s.resources : Standard \in Namespace[q.type]
                 ELSE Manager(s) # None

LEMMA DiskIsManaged ==
    ASSUME NEW D, OnDisk(D)
    PROVE  Managed(Bootstrap \cup D)
<1>1. ASSUME NEW s \in Bootstrap
      PROVE  s.class = "kernel" /\ \A q \in s.resources : Standard \in Namespace[q.type]
  BY BuilderAssumption, SourceAssumption
<1>2. ASSUME NEW s \in D
      PROVE  s.class # "kernel" /\ Manager(s) # None
  <2>1. s.class # "kernel"
    BY CatalogAssumption DEF OnDisk, Source
  <2>2. Owner(s) # None
    BY SourceAssumption DEF OnDisk, Source
  <2> QED
    BY <2>1, <2>2 DEF Manager
<1> QED
  BY <1>1, <1>2 DEF Managed

LEMMA AcceptedNames ==
    ASSUME NEW U, InLine(U), Merge(U).fault = None, NEW s \in U
    PROVE  /\ \A i, j \in s.interfaces : SameInterface(i, j) => i = j
           /\ \A q \in s.resources : s.class = "app" => Standard \notin Namespace[q.type]
<1>1. Accepted(s, Below(U, s))
  BY MergeBlames
<1>2. PICK next : next = Merge(Below(U, s)).next
  OBVIOUS
<1>3. InterfacesFit(next, s) /\ ResourcesFit(next, s)
  BY <1>1, <1>2 DEF Accepted, Fits
<1>4. ASSUME NEW q \in s.resources, s.class = "app"
      PROVE  Standard \notin Namespace[q.type]
  <2>1. PICK known : MayManage(s, known, q)
    BY <1>3 DEF ResourcesFit
  <2> QED
    BY <1>4, <2>1 DEF MayManage, PlatformRelease, OEMService
<1>5. \A i, j \in s.interfaces : SameInterface(i, j) => i = j
  BY <1>3 DEF InterfacesFit, SameInterface
<1> QED
  BY <1>4, <1>5

LEMMA OneManager ==
    ASSUME NEW U, InLine(U), Merge(U).fault = None,
           NEW s \in U, NEW t \in U, Before(s, t), NEW q, Declares(s, q), Declares(t, q),
           Manager(s) # None, Manager(t) # None
    PROVE  FALSE
<1>1. PICK R : R = Below(U, t)
  OBVIOUS
<1>2. R \in SUBSET U /\ s \in R
  BY <1>1 DEF Below
<1>3. Accepted(t, R)
  BY <1>1, MergeBlames
<1>4. InLine(R)
  BY <1>2, PartInLine
<1>5. ResourcesMade(R)
  BY <1>3, <1>4, ResourcesAreMade DEF Accepted
<1>6. PICK h, p : Holds(R, h, p) /\ SameResource(p, q)
  BY <1>2, <1>4, HolderExists
<1>7. PICK d : d = ResourceOf(R, h, p)
  OBVIOUS
<1>8. d \in Merge(R).next.resources
  BY <1>5, <1>6, <1>7 DEF ResourcesMade
<1>9. SameResource(d, p) /\ d.manager = ManagerIn(R, q)
  BY <1>6, <1>7, ResourceOfNames, ManagerOfSame
<1>10. ManagerIn(R, q) # None
  <2>1. Manager(s) \in Managers(R, q)
    BY <1>2 DEF Managers
  <2>2. (CHOOSE m \in Managers(R, q) : TRUE) \in Managers(R, q)
    BY <2>1
  <2>3. ManagerIn(R, q) = CHOOSE m \in Managers(R, q) : TRUE
    BY <2>1 DEF ManagerIn, AnyOrNone
  <2>4. \A m \in Managers(R, q) : m # None
    BY DEF Managers
  <2> QED
    BY <2>2, <2>3, <2>4
<1>11. PICK u \in t.resources : SameResource(u, q)
  BY DEF Declares
<1>12. SameResource(d, u)
  BY <1>6, <1>9, <1>11 DEF SameResource
<1>13. ResourcesFit(Merge(R).next, t)
  BY <1>3 DEF Accepted, Fits
<1>14. d.manager = None \/ Manager(t) = None
  BY <1>8, <1>11, <1>12, <1>13 DEF ResourcesFit
<1> QED
  BY <1>9, <1>10, <1>14

LEMMA OthersInterfaces ==
    ASSUME NEW U, InLine(U), Merge(U).fault = None,
           NEW V, InLine(V), Merge(V).fault = None,
           NEW pkg, DifferInApp(U, V, pkg),
           NEW d \in Merge(U).next.interfaces, d.owner.pkg # pkg,
           \A e \in Merge(V).next.interfaces : SameInterface(e, d) => e.owner.pkg # pkg
    PROVE  d \in Merge(V).next.interfaces
<1>1. PICK s, i : Defines(U, s, i) /\ d = InterfaceOf(s, i)
  BY InterfacesAreMade DEF InterfacesMade
<1>2. s.pkg # pkg
  <2>1. d.owner = Owner(s)
    BY <1>1, InterfaceOfNames
  <2> QED
    BY <2>1 DEF Owner
<1>3. s \in U /\ s \in V /\ i \in s.interfaces
  BY <1>1, <1>2 DEF Defines, DifferInApp
<1>4. PICK t, j : Defines(V, t, j) /\ SameInterface(j, i)
  BY <1>3, DefinerExists
<1>5. t \in V /\ j \in t.interfaces
  BY <1>4 DEF Defines
<1>6. ASSUME Before(t, s)
      PROVE  FALSE
  <2>1. CASE t \in U
    BY <1>1, <1>4, <1>5, <1>6, <2>1 DEF Defines, Below
  <2>2. CASE t \notin U
    <3>1. t.pkg = pkg
      BY <1>5, <2>2 DEF DifferInApp
    <3>2. PICK e : e = InterfaceOf(t, j)
      OBVIOUS
    <3>3. e \in Merge(V).next.interfaces
      BY <1>4, <3>2, InterfacesAreMade DEF InterfacesMade
    <3>4. SameInterface(e, j) /\ SameInterface(d, i) /\ e.owner = Owner(t)
      BY <1>1, <3>2, InterfaceOfNames
    <3>5. SameInterface(e, d)
      BY <1>4, <3>4 DEF SameInterface
    <3> QED
      BY <3>1, <3>3, <3>4, <3>5 DEF Owner
  <2> QED
    BY <2>1, <2>2
<1>7. ASSUME Before(s, t)
      PROVE  FALSE
  <2>1. s \in Below(V, t) /\ SameInterface(i, j)
    BY <1>3, <1>4, <1>7 DEF Below, SameInterface
  <2> QED
    BY <1>3, <1>4, <2>1 DEF Defines
<1>8. t = s
  BY <1>3, <1>5, <1>6, <1>7, BeforeOrders
<1>9. j = i
  BY <1>3, <1>4, <1>5, <1>8, AcceptedNames
<1> QED
  BY <1>1, <1>4, <1>8, <1>9, InterfacesAreMade DEF InterfacesMade

LEMMA OthersProviders ==
    ASSUME NEW U, InLine(U), Merge(U).fault = None,
           NEW V, InLine(V), Merge(V).fault = None,
           NEW pkg, DifferInApp(U, V, pkg),
           NEW p \in Merge(U).next.providers, p.owner.pkg # pkg
    PROVE  p \in Merge(V).next.providers
<1>1. PICK s, i : Exports(U, s, i) /\ p = MembershipOf(s, i)
  BY ProvidersAreMade DEF ProvidersMade
<1>2. s.pkg # pkg
  BY <1>1 DEF MembershipOf, Owner
<1>3. Exports(V, s, i)
  BY <1>1, <1>2 DEF Exports, DifferInApp
<1> QED
  BY <1>1, <1>3, ProvidersAreMade DEF ProvidersMade

LEMMA OthersResources ==
    ASSUME NEW U, InLine(U), Merge(U).fault = None,
           NEW V, InLine(V), Merge(V).fault = None,
           NEW pkg, DifferInApp(U, V, pkg), Managed(U), Managed(V),
           NEW r \in Merge(U).next.resources, r.owner.pkg # pkg
    PROVE  r \in Merge(V).next.resources
<1>1. PICK s, q : Holds(U, s, q) /\ r = ResourceOf(U, s, q)
  BY ResourcesAreMade DEF ResourcesMade
<1>2. s.pkg # pkg
  <2>1. r.owner = Owner(s)
    BY <1>1, ResourceOfNames
  <2> QED
    BY <2>1 DEF Owner
<1>3. s \in U /\ s \in V /\ q \in s.resources
  BY <1>1, <1>2 DEF Holds, DifferInApp
<1>4. ASSUME NEW W, InLine(W), Merge(W).fault = None, Managed(W), s \in W,
             NEW t \in W, Declares(t, q), t.class = "app", t.pkg = pkg
      PROVE  FALSE
  <2>1. PICK u \in t.resources : SameResource(u, q)
    BY <1>4 DEF Declares
  <2>2. u.type = q.type
    BY <2>1 DEF SameResource
  <2>3. Standard \notin Namespace[q.type]
    BY <1>4, <2>2, AcceptedNames
  <2>4. Manager(s) # None /\ Manager(t) # None
    BY <1>3, <1>4, <2>3 DEF Managed
  <2>5. Declares(s, q)
    BY <1>3, SameResources DEF Declares
  <2>6. Before(s, t) \/ Before(t, s)
    BY <1>2, <1>4, BeforeOrders
  <2> QED
    BY <1>4, <2>4, <2>5, <2>6, OneManager
<1>5. ASSUME NEW t \in U \cup V, Declares(t, q)
      PROVE  t \in U /\ t \in V
  BY <1>3, <1>4, <1>5 DEF DifferInApp
<1>6. Managers(U, q) = Managers(V, q)
  BY <1>5 DEF Managers
<1>7. Holds(V, s, q)
  BY <1>1, <1>3, <1>5 DEF Holds, Below
<1>8. ResourceOf(V, s, q) = r
  BY <1>1, <1>6 DEF ResourceOf, ManagerIn
<1> QED
  BY <1>7, <1>8, ResourcesAreMade DEF ResourcesMade

(***************************************************************************)
(* The catalog of a merge, and the next one.                               *)
(***************************************************************************)
Pictures(snap, next) ==
    /\ \A d \in snap.interfaces : Meaning(d) \in next.interfaces
    /\ \A r \in snap.resources : Meaning(r) \in next.resources
    /\ \A p \in snap.providers :
           /\ Meaning(p) \in next.providers
           /\ \E d \in snap.interfaces : SameInterface(d, p) /\ p.definition = d.generation

LEMMA AllUnstamped ==
    Unstamped(InterfaceFields) /\ Unstamped(ResourceFields) /\ Unstamped(ProviderFields)
BY DEF Unstamped, InterfaceFields, ResourceFields, ProviderFields

LEMMA AssignPictures ==
    ASSUME NEW previous, Good(previous),
           NEW next, AllPlain(next), Implemented(next),
           NEW new, new = Assign(previous, next)
    PROVE  Pictures(new, next)
<1>1. /\ new.interfaces = {Stamped(previous, previous.interfaces, i) : i \in next.interfaces}
      /\ new.providers = {StampedProvider(previous, new.interfaces, p) : p \in next.providers}
      /\ new.resources = {Stamped(previous, previous.resources, r) : r \in next.resources}
  BY DEF Assign
<1>2. ASSUME NEW i \in next.interfaces, NEW d, d = Stamped(previous, previous.interfaces, i)
      PROVE  Meaning(d) = i /\ SameInterface(d, i)
  <2>1. Formed(i, InterfaceFields)
    BY DEF AllPlain
  <2>2. Meaning(d) = i /\ \A f \in InterfaceFields : d[f] = i[f]
    BY <1>2, <2>1, AllUnstamped, WithIsWhole DEF Stamped
  <2> QED
    BY <2>2 DEF SameInterface, InterfaceFields
<1>3. ASSUME NEW t \in next.resources, NEW r, r = Stamped(previous, previous.resources, t)
      PROVE  Meaning(r) = t
  <2>1. Formed(t, ResourceFields)
    BY DEF AllPlain
  <2> QED
    BY <1>3, <2>1, AllUnstamped, WithIsWhole DEF Stamped
<1>4. ASSUME NEW q \in next.providers, NEW p, p = StampedProvider(previous, new.interfaces, q)
      PROVE  /\ Meaning(p) = q
             /\ \E d \in new.interfaces : SameInterface(d, p) /\ p.definition = d.generation
  <2>1. Formed(q, ProviderFields)
    BY DEF AllPlain
  <2>2. PICK d : d = CHOOSE e \in Defining(new.interfaces, q) : TRUE
    OBVIOUS
  <2>3. PICK g : p = With(With(q, "definition", d.generation), "generation", g)
    BY <1>4, <2>2 DEF StampedProvider
  <2>4. /\ Meaning(p) = q /\ p.definition = d.generation
        /\ \A f \in ProviderFields : p[f] = q[f]
    BY <2>1, <2>3, AllUnstamped, WithBothIsWhole
  <2>5. SameInterface(q, p)
    BY <2>4 DEF SameInterface, ProviderFields
  <2>6. PICK i \in next.interfaces : SameInterface(i, q)
    BY DEF Implemented
  <2>7. PICK e : e = Stamped(previous, previous.interfaces, i)
    OBVIOUS
  <2>8. e \in new.interfaces /\ SameInterface(e, i)
    BY <1>1, <1>2, <2>7
  <2>9. e \in Defining(new.interfaces, q)
    BY <2>6, <2>8 DEF Defining, SameInterface
  <2>10. d \in Defining(new.interfaces, q)
    BY <2>2, <2>9
  <2>11. d \in new.interfaces /\ SameInterface(d, p)
    BY <2>5, <2>10 DEF Defining, SameInterface
  <2> QED
    BY <2>4, <2>11
<1> QED
  BY <1>1, <1>2, <1>3, <1>4 DEF Pictures

\* A definition that means the same stays as it is.
LEMMA StampKeeps ==
    ASSUME NEW previous, NEW olds,
           NEW d \in olds, Whole(d), \A old \in olds : Meaning(old) = Meaning(d) => old = d
    PROVE  Stamped(previous, olds, Meaning(d)) = d
<1>1. (CHOOSE old \in olds : Meaning(old) = Meaning(d)) = d
  OBVIOUS
<1>2. Generation(previous, olds, Meaning(d)) = d.generation
  BY <1>1 DEF Generation
<1> QED
  BY <1>2 DEF Stamped, Whole

LEMMA AssignKeeps ==
    ASSUME NEW previous, Good(previous),
           NEW next, AllPlain(next), Unique(next), Implemented(next),
           NEW new, new = Assign(previous, next)
    PROVE  /\ \A d \in previous.interfaces :
                  Meaning(d) \in next.interfaces => d \in new.interfaces
           /\ \A r \in previous.resources :
                  Meaning(r) \in next.resources => r \in new.resources
           /\ \A p \in previous.providers, d \in new.interfaces :
                  /\ Meaning(p) \in next.providers
                  /\ SameInterface(d, p) /\ p.definition = d.generation
                  => p \in new.providers
<1>1. /\ new.interfaces = {Stamped(previous, previous.interfaces, i) : i \in next.interfaces}
      /\ new.providers = {StampedProvider(previous, new.interfaces, p) : p \in next.providers}
      /\ new.resources = {Stamped(previous, previous.resources, r) : r \in next.resources}
  BY DEF Assign
<1>2. ASSUME NEW x, NEW fields, DOMAIN x \ {"generation", "definition"} = fields
      PROVE  \A f \in fields : f \in DOMAIN Meaning(x) /\ Meaning(x)[f] = x[f]
  BY <1>2 DEF Meaning, Restrict
<1>3. ASSUME NEW d \in previous.interfaces, Meaning(d) \in next.interfaces
      PROVE  d \in new.interfaces
  <2>1. ASSUME NEW e \in previous.interfaces
        PROVE  Whole(e) /\ Meaning(e).id = e.id /\ Meaning(e).major = e.major
    <3>1. Whole(e) /\ Generated(e, InterfaceFields)
      BY DEF Good
    <3>2. DOMAIN e \ {"generation", "definition"} = InterfaceFields
      BY <3>1, AllUnstamped DEF Generated, Unstamped
    <3> QED
      BY <1>2, <3>1, <3>2 DEF InterfaceFields
  <2>2. ASSUME NEW e \in previous.interfaces, Meaning(e) = Meaning(d)
        PROVE  e = d
    <3>1. SameInterface(e, d)
      BY <2>1, <2>2 DEF SameInterface
    <3> QED
      BY <3>1 DEF Good, Unique
  <2>3. Stamped(previous, previous.interfaces, Meaning(d)) = d
    BY <2>1, <2>2, StampKeeps
  <2> QED
    BY <1>1, <1>3, <2>3
<1>4. ASSUME NEW r \in previous.resources, Meaning(r) \in next.resources
      PROVE  r \in new.resources
  <2>1. ASSUME NEW e \in previous.resources
        PROVE  Whole(e) /\ Meaning(e).type = e.type /\ Meaning(e).role = e.role
    <3>1. Whole(e) /\ Generated(e, ResourceFields)
      BY DEF Good
    <3>2. DOMAIN e \ {"generation", "definition"} = ResourceFields
      BY <3>1, AllUnstamped DEF Generated, Unstamped
    <3> QED
      BY <1>2, <3>1, <3>2 DEF ResourceFields
  <2>2. ASSUME NEW e \in previous.resources, Meaning(e) = Meaning(r)
        PROVE  e = r
    <3>1. SameResource(e, r)
      BY <2>1, <2>2 DEF SameResource
    <3> QED
      BY <3>1 DEF Good, Unique
  <2>3. Stamped(previous, previous.resources, Meaning(r)) = r
    BY <2>1, <2>2, StampKeeps
  <2> QED
    BY <1>1, <1>4, <2>3
<1>5. ASSUME NEW p \in previous.providers, NEW d \in new.interfaces,
             Meaning(p) \in next.providers, SameInterface(d, p), p.definition = d.generation
      PROVE  p \in new.providers
  <2>1. ASSUME NEW e \in previous.providers
        PROVE  /\ WholeProvider(e) /\ Meaning(e).id = e.id /\ Meaning(e).major = e.major
               /\ Meaning(e).pkg = e.pkg
    <3>1. WholeProvider(e) /\ GeneratedBy(e, ProviderFields)
      BY DEF Good
    <3>2. DOMAIN e \ {"generation", "definition"} = ProviderFields
      BY <3>1, AllUnstamped DEF GeneratedBy, Unstamped
    <3> QED
      BY <1>2, <3>1, <3>2 DEF ProviderFields
  <2>2. ASSUME NEW e \in previous.providers, Meaning(e) = Meaning(p)
        PROVE  e = p
    <3>1. SameProvider(e, p)
      BY <2>1, <2>2 DEF SameProvider
    <3> QED
      BY <3>1 DEF Good, Unique
  <2>3. PICK q : q = Meaning(p)
    OBVIOUS
  <2>4. \A e \in Defining(new.interfaces, q) : e = d
    <3>1. \A e \in new.interfaces : SameInterface(e, d) => e = d
      <4>1. ASSUME NEW i \in next.interfaces, NEW e, e = Stamped(previous, previous.interfaces, i)
            PROVE  SameInterface(e, i)
        <5>1. Formed(i, InterfaceFields)
          BY DEF AllPlain
        <5>2. \A f \in InterfaceFields : e[f] = i[f]
          BY <4>1, <5>1, AllUnstamped, WithIsWhole DEF Stamped
        <5> QED
          BY <5>2 DEF SameInterface, InterfaceFields
      <4>2. ASSUME NEW e \in new.interfaces, SameInterface(e, d)
            PROVE  e = d
        <5>1. PICK i \in next.interfaces : e = Stamped(previous, previous.interfaces, i)
          BY <1>1
        <5>2. PICK j \in next.interfaces : d = Stamped(previous, previous.interfaces, j)
          BY <1>1
        <5>3. SameInterface(e, i) /\ SameInterface(d, j)
          BY <4>1, <5>1, <5>2
        <5>4. SameInterface(i, j)
          BY <4>2, <5>3 DEF SameInterface
        <5>5. i = j
          BY <5>4 DEF Unique
        <5> QED
          BY <5>1, <5>2, <5>5
      <4> QED
        BY <4>2
    <3>2. q.id = p.id /\ q.major = p.major
      BY <2>1, <2>3
    <3> QED
      BY <1>5, <3>1, <3>2 DEF Defining, SameInterface
  <2>5. d \in Defining(new.interfaces, q)
    BY <1>5, <2>1, <2>3 DEF Defining, SameInterface
  <2>6. (CHOOSE e \in Defining(new.interfaces, q) : TRUE).generation = p.definition
    <3>1. (CHOOSE e \in Defining(new.interfaces, q) : TRUE) \in Defining(new.interfaces, q)
      BY <2>5
    <3> QED
      BY <1>5, <2>4, <3>1
  <2>7. PICK kept : kept = {old \in previous.providers :
                               Meaning(old) = q /\ old.definition = p.definition}
    OBVIOUS
  <2>8. p \in kept /\ \A old \in kept : old = p
    BY <2>2, <2>3, <2>7
  <2>9. Generation(previous, kept, q) = p.generation
    <3>1. (CHOOSE old \in kept : Meaning(old) = q) = p
      BY <2>3, <2>8
    <3> QED
      BY <2>3, <2>8, <3>1 DEF Generation
  <2>10. StampedProvider(previous, new.interfaces, q)
             = With(With(q, "definition", p.definition), "generation", Generation(previous, kept, q))
    BY <2>6, <2>7 DEF StampedProvider
  <2>11. StampedProvider(previous, new.interfaces, q) = p
    BY <2>1, <2>3, <2>9, <2>10 DEF WholeProvider
  <2> QED
    BY <1>1, <1>5, <2>3, <2>11
<1> QED
  BY <1>3, <1>4, <1>5

----------------------------------------------------------------------------
(***************************************************************************)
(* The registry's current catalog is that of the active packages, and a    *)
(* candidate based on it is that of the active packages after the change.  *)
(***************************************************************************)
Merged(S) == Merge(Bootstrap \cup S)
Shows(snap, S) ==
    /\ OnDisk(S) /\ Merged(S).fault = None /\ Good(snap) /\ Pictures(snap, Merged(S).next)
After(new) == Changed(new.active, new.pkg, new.source)
Sourced(new) == new.source = None \/ (new.source \in App /\ new.source.pkg = new.pkg)

PreparedFor(new) ==
    /\ OnDisk(new.active) /\ OnDisk(After(new)) /\ Good(new.base)
    /\ new.snapshot = Assign(new.base, Merged(After(new)).next)
    /\ Shows(new.snapshot, After(new))
    /\ new.snapshot.revision = new.base.revision + 1
    /\ Sourced(new) /\ \A t \in new.active : t.pkg = new.pkg => Installed(t)

LocalInv ==
    /\ OnDisk(disk) /\ DOMAIN candidate = Caller
    /\ current.revision \in Nat
    /\ current = Nothing \/ Shows(current, active)
    /\ phase = "up" => Shows(current, active)
    /\ phase # "up" => \A c \in Caller : candidate[c] = None
    /\ \A c \in Caller : candidate[c] # None =>
           /\ PreparedFor(candidate[c])
           /\ candidate[c].base.revision <= current.revision
           /\ candidate[c].base = current => candidate[c].active = active

LEMMA ReplacedOnDisk ==
    ASSUME NEW D, OnDisk(D), NEW pkg, NEW s, s = None \/ (s \in App /\ s.pkg = pkg)
    PROVE  OnDisk(Changed(D, pkg, s))
<1> DEFINE rest == {t \in D : t.pkg # pkg}
           new == IF s = None THEN {} ELSE {s}
<1>1. IsFiniteSet(rest) /\ rest \subseteq D /\ \A t \in rest : t.pkg # pkg
  BY FS_Subset DEF OnDisk
<1>2. IsFiniteSet(new) /\ \A t \in new : t \in App /\ t.pkg = pkg
  BY FS_EmptySet, FS_Singleton
<1>3. \A t, u \in new : t = u
  OBVIOUS
<1>4. Changed(D, pkg, s) = rest \cup new
  BY DEF Changed
<1> HIDE DEF rest, new
<1>5. IsFiniteSet(rest \cup new)
  BY <1>1, <1>2, FS_Union
<1>6. ASSUME NEW t \in rest \cup new, NEW u \in rest \cup new, SameEntry(t, u)
      PROVE  t = u
  BY <1>1, <1>2, <1>3, <1>6 DEF OnDisk, SameEntry
<1> QED
  BY <1>1, <1>2, <1>4, <1>5, <1>6 DEF OnDisk, Source

LEMMA BuildShows ==
    ASSUME NEW previous, Good(previous), NEW S, OnDisk(S),
           NEW made, made = Build(previous, Bootstrap \cup S), made.fault = None
    PROVE  /\ made.snapshot = Assign(previous, Merged(S).next)
           /\ Shows(made.snapshot, S)
           /\ made.snapshot.revision = previous.revision + 1
<1>1. PICK U : U = Bootstrap \cup S
  OBVIOUS
<1>2. InLine(U)
  BY <1>1, DiskInLine
<1>3. IsFiniteSet(U) /\ \A s \in U : s.pkg # None
  BY <1>2 DEF InLine
<1>4. PICK m : m = Merge(U)
  OBVIOUS
<1>5. MergeOK(m)
  BY <1>3, <1>4, MergeKeeps
<1>6. made = Build(previous, U)
  BY <1>1
<1>7. \A s \in U : s.intact
  BY <1>2, <1>6, BuildAccepts
<1>8. m.fault = None /\ made.snapshot = Assign(previous, m.next)
  <2>1. CASE m.fault # None
    BY <1>4, <1>6, <1>7, <2>1 DEF Build, Failed
  <2>2. CASE m.fault = None
    <3>1. Unnamed # None
      BY BuilderAssumption
    <3> QED
      BY <1>4, <1>6, <1>7, <2>2, <3>1 DEF Build, Failed
  <2> QED
    BY <2>1, <2>2
<1>9. Good(made.snapshot) /\ Follows(previous, made.snapshot)
  BY <1>3, <1>6, BuildFollows
<1>10. Pictures(made.snapshot, m.next)
  BY <1>5, <1>8, AssignPictures DEF MergeOK
<1>11. Merged(S) = m
  BY <1>1, <1>4 DEF Merged
<1> QED
  BY <1>8, <1>9, <1>10, <1>11 DEF Shows, Follows

LEMMA NothingIsEmpty ==
    Nothing.revision = 0 /\ Nothing.providers = {} /\ Nothing.resources = {}
BY DEF Nothing

LEMMA LocalStarts == CatalogInit => LocalInv
<1> SUFFICES ASSUME CatalogInit PROVE LocalInv
  OBVIOUS
<1>1. OnDisk(disk)
  BY DiskStarts DEF DiskInv
<1> QED
  BY <1>1, NothingIsEmpty DEF CatalogInit, LocalInv

LEMMA BootShows ==
    ASSUME LocalInv, Boot
    PROVE  LocalInv'
<1>1. PICK result : result = Quarantine(First, disk)
  OBVIOUS
<1>2. /\ phase = "down" /\ UNCHANGED <<disk, candidate>> /\ OnDisk(disk)
      /\ \A c \in Caller : candidate[c] = None
  BY DEF Boot, LocalInv
<1>3. OnDisk(disk)' /\ DOMAIN candidate' = Caller /\ \A c \in Caller : candidate'[c] = None
  BY <1>2 DEF LocalInv, OnDisk
<1>4. CASE result.built.fault = None
  <2>1. /\ phase' = "up" /\ active' = result.kept /\ current' = result.built.snapshot
    BY <1>1, <1>4 DEF Boot
  <2>2. PICK kept \in SUBSET disk : result = Outcome(First, kept)
    BY <1>1, <1>2, QuarantineBuilds DEF OnDisk
  <2>3. result.kept = kept /\ result.built = Build(First, Bootstrap \cup kept)
    BY <2>2 DEF Outcome
  <2>4. OnDisk(kept)
    BY <1>2, FS_Subset DEF OnDisk
  <2>5. Good(First)
    BY NothingIsGood, BuildIsGood, BuilderAssumption DEF First
  <2>6. Shows(result.built.snapshot, kept)
    BY <1>4, <2>3, <2>4, <2>5, BuildShows
  <2>7. Shows(current', active') /\ current'.revision \in Nat
    BY <2>1, <2>3, <2>6 DEF Shows, Good
  <2>8. Shows(current, active)'
    BY <2>7 DEF Shows, OnDisk
  <2> QED
    BY <1>3, <2>1, <2>7, <2>8 DEF LocalInv
<1>5. CASE result.built.fault # None
  <2>1. phase' = "failed" /\ UNCHANGED <<active, current>>
    BY <1>1, <1>5 DEF Boot
  <2>2. current' = Nothing \/ Shows(current, active)'
    BY <2>1 DEF LocalInv, Shows, OnDisk
  <2> QED
    BY <1>3, <2>1, <2>2 DEF LocalInv
<1> QED
  BY <1>4, <1>5

LEMMA PrepareShows ==
    ASSUME LocalInv, NEW c \in Caller, NEW s \in App, NEW source, source \in {s, None},
           Prepare(c, s.pkg, source)
    PROVE  LocalInv'
<1>1. PICK new : new = Candidate(s.pkg, source)
  OBVIOUS
<1>2. /\ phase = "up" /\ new.fault = None
      /\ candidate' = [candidate EXCEPT ![c] = new]
      /\ UNCHANGED <<phase, disk, active, current>>
      /\ \A t \in active : t.pkg = s.pkg => Installed(t)
  BY <1>1 DEF Prepare
<1>3. Shows(current, active)
  BY <1>2 DEF LocalInv
<1>4. PICK T : T = Changed(active, s.pkg, source)
  OBVIOUS
<1>5. OnDisk(active) /\ Good(current)
  BY <1>3 DEF Shows
<1>6. OnDisk(T)
  BY <1>4, <1>5, ReplacedOnDisk
<1>7. PICK made : made = Build(current, Bootstrap \cup T)
  OBVIOUS
<1>8. /\ new.fault = made.fault /\ new.snapshot = made.snapshot /\ new.base = current
      /\ new.active = active /\ new.pkg = s.pkg /\ new.source = source
  BY <1>1, <1>4, <1>7 DEF Candidate
<1>9. /\ made.snapshot = Assign(current, Merged(T).next)
      /\ Shows(made.snapshot, T)
      /\ made.snapshot.revision = current.revision + 1
  <2>1. made.fault = None
    BY <1>2, <1>8
  <2> QED
    BY <2>1, <1>5, <1>6, <1>7, BuildShows
<1>10. After(new) = T
  BY <1>4, <1>8 DEF After
<1>11. PreparedFor(new)
  BY <1>2, <1>5, <1>6, <1>8, <1>9, <1>10 DEF PreparedFor, Sourced
<1>12. OnDisk(disk)' /\ Shows(current, active)' /\ current'.revision \in Nat
  BY <1>2, <1>3 DEF LocalInv, OnDisk, Shows
<1>13. ASSUME NEW d \in Caller, candidate'[d] # None
       PROVE  /\ PreparedFor(candidate'[d])
              /\ candidate'[d].base.revision <= current'.revision
              /\ candidate'[d].base = current' => candidate'[d].active = active'
  <2>1. CASE d = c
    <3>1. candidate'[d] = new
      BY <1>2, <2>1 DEF LocalInv
    <3>2. current.revision <= current.revision
      BY DEF LocalInv
    <3> QED
      BY <1>2, <1>8, <1>11, <3>1, <3>2
  <2>2. CASE d # c
    <3>1. candidate'[d] = candidate[d]
      BY <1>2, <2>2 DEF LocalInv
    <3> QED
      BY <1>2, <1>13, <3>1 DEF LocalInv
  <2> QED
    BY <2>1, <2>2
<1>14. DOMAIN candidate' = Caller /\ phase' = "up"
  BY <1>2 DEF LocalInv
<1>15. \A d \in Caller : candidate'[d] # None => PreparedFor(candidate[d])'
  BY <1>13 DEF PreparedFor, Shows, OnDisk, After
<1> QED
  BY <1>12, <1>13, <1>14, <1>15 DEF LocalInv

LEMMA PublishShows ==
    ASSUME LocalInv, NEW c \in Caller, Publish(c)
    PROVE  LocalInv'
<1>1. PICK new : new = candidate[c]
  OBVIOUS
<1>2. /\ candidate[c] # None /\ candidate' = [candidate EXCEPT ![c] = None]
      /\ phase' = phase
  BY DEF Publish
<1>3. PreparedFor(new) /\ DOMAIN candidate = Caller /\ phase = "up"
  BY <1>1, <1>2 DEF LocalInv
<1>4. \A d \in Caller : candidate'[d] = None \/ candidate'[d] = candidate[d]
  BY <1>2, <1>3
<1>5. CASE Fresh(c)
  <2>1. /\ current' = new.snapshot /\ active' = After(new)
        /\ disk' = {t \in disk : ~Installed(t)}
                       \cup Changed({t \in disk : Installed(t)}, new.pkg, new.source)
        /\ new.base = current
    BY <1>1, <1>5 DEF Publish, Fresh, After
  <2>2. Shows(current', active') /\ current'.revision = current.revision + 1
    BY <1>3, <2>1 DEF PreparedFor
  <2>3. current.revision \in Nat /\ current'.revision \in Nat
    BY <2>2 DEF LocalInv
  <2>4. OnDisk(disk')
    <3>1. Sourced(new)
      BY <1>3 DEF PreparedFor, Sourced
    <3> QED
      BY <2>1, <3>1, ChangedOnDisk DEF LocalInv, Sourced
  <2>5. ASSUME NEW d \in Caller, candidate'[d] # None
        PROVE  /\ PreparedFor(candidate'[d])
               /\ candidate'[d].base.revision <= current'.revision
               /\ candidate'[d].base # current'
    <3>1. candidate'[d] = candidate[d]
      BY <1>4, <2>5
    <3>2. PreparedFor(candidate'[d]) /\ candidate'[d].base.revision <= current.revision
      BY <2>5, <3>1 DEF LocalInv
    <3>3. candidate'[d].base.revision \in Nat
      BY <3>2 DEF PreparedFor, Good
    <3> QED
      BY <2>2, <2>3, <3>2, <3>3
  <2>6. Shows(current, active)' /\ OnDisk(disk)'
    BY <2>2, <2>4 DEF Shows, OnDisk
  <2>7. \A d \in Caller : candidate'[d] # None => PreparedFor(candidate[d])'
    BY <2>5 DEF PreparedFor, Shows, OnDisk, After
  <2> QED
    BY <1>2, <1>3, <2>3, <2>5, <2>6, <2>7 DEF LocalInv
<1>6. CASE ~Fresh(c)
  <2>1. UNCHANGED <<current, active, disk>>
    BY <1>6 DEF Publish
  <2>2. Shows(current, active)' /\ OnDisk(disk)' /\ current'.revision \in Nat
    BY <1>3, <2>1 DEF LocalInv, Shows, OnDisk
  <2>3. ASSUME NEW d \in Caller, candidate'[d] # None
        PROVE  /\ PreparedFor(candidate'[d])
               /\ candidate'[d].base.revision <= current'.revision
               /\ candidate'[d].base = current' => candidate'[d].active = active'
    <3>1. candidate'[d] = candidate[d]
      BY <1>4, <2>3
    <3> QED
      BY <2>1, <2>3, <3>1 DEF LocalInv
  <2>4. \A d \in Caller : candidate'[d] # None => PreparedFor(candidate[d])'
    BY <2>3 DEF PreparedFor, Shows, OnDisk, After
  <2> QED
    BY <1>2, <1>3, <2>2, <2>3, <2>4 DEF LocalInv
<1> QED
  BY <1>5, <1>6

LEMMA LocalStep == LocalInv /\ [CatalogNext]_catalogVars => LocalInv'
<1> SUFFICES ASSUME LocalInv, [CatalogNext]_catalogVars PROVE LocalInv'
  OBVIOUS
<1>1. CASE Change
  <2>1. PICK c \in Caller, s \in App : Prepare(c, s.pkg, s) \/ Prepare(c, s.pkg, None)
    BY <1>1 DEF Change
  <2> QED
    BY <2>1, PrepareShows
<1>2. ASSUME NEW image \in Image, Restart(image)
      PROVE  LocalInv'
  <2>1. OnDisk(disk')
    BY <1>2, RestartedOnDisk DEF LocalInv, Restart
  <2>2. /\ phase' = "down" /\ current' = Nothing
        /\ candidate' = [c \in Caller |-> None]
    BY <1>2 DEF Restart
  <2>3. OnDisk(disk)' /\ current'.revision \in Nat
    BY <2>1, <2>2, NothingIsEmpty DEF OnDisk
  <2> QED
    BY <2>2, <2>3 DEF LocalInv
<1>3. CASE UNCHANGED catalogVars
  <2>1. UNCHANGED <<phase, disk, active, current, candidate>>
    BY <1>3 DEF catalogVars
  <2>2. OnDisk(disk)' /\ (Shows(current, active) => Shows(current, active)')
    BY <2>1 DEF LocalInv, OnDisk, Shows
  <2>3. \A c \in Caller : candidate[c] # None => PreparedFor(candidate[c])'
    BY <2>1 DEF LocalInv, PreparedFor, Shows, OnDisk, After
  <2> QED
    BY <2>1, <2>2, <2>3 DEF LocalInv
<1> QED
  BY <1>1, <1>2, <1>3, BootShows, PublishShows DEF CatalogNext

\* A change of one app leaves what does not touch it.
LEMMA ChangeLeaves ==
    ASSUME NEW old, NEW S, Shows(old, S), NEW new, PreparedFor(new),
           new.base = old, new.active = S,
           NEW d \in old.providers \cup old.resources,
           ~Touches(d, new.pkg, old, new.snapshot)
    PROVE  d \in new.snapshot.providers \cup new.snapshot.resources
<1>1. PICK T : T = After(new)
  OBVIOUS
<1>2. PICK U, V : U = Bootstrap \cup S /\ V = Bootstrap \cup T
  OBVIOUS
<1>4. OnDisk(S) /\ OnDisk(T) /\ InLine(U) /\ InLine(V)
  BY <1>1, <1>2, DiskInLine DEF Shows, PreparedFor
<1>3. Managed(U) /\ Managed(V)
  BY <1>2, <1>4, DiskIsManaged
<1>5. /\ Merge(U).fault = None /\ Merge(V).fault = None
      /\ Good(old) /\ Pictures(old, Merge(U).next)
      /\ new.snapshot = Assign(old, Merge(V).next)
  BY <1>1, <1>2 DEF Shows, PreparedFor, Merged
<1>6. DifferInApp(U, V, new.pkg)
  <2>1. T = {t \in S : t.pkg # new.pkg} \cup (IF new.source = None THEN {} ELSE {new.source})
    BY <1>1 DEF After, Changed
  <2>2. ASSUME NEW s \in S, s \notin T
        PROVE  s.class = "app" /\ s.pkg = new.pkg
    <3>1. s.pkg = new.pkg
      BY <2>1, <2>2
    <3> QED
      BY <2>2, <3>1 DEF PreparedFor, Installed
  <2>3. ASSUME NEW s \in T, s \notin S
        PROVE  s.class = "app" /\ s.pkg = new.pkg
    <3>1. s = new.source /\ s # None
      BY <2>1, <2>3
    <3> QED
      BY <3>1, CatalogAssumption DEF PreparedFor, Sourced
  <2> QED
    BY <1>2, <2>2, <2>3 DEF DifferInApp
<1>7. MergeOK(Merge(V))
  BY <1>4, MergeKeeps DEF InLine
<1>8. PICK next : next = Merge(V).next
  OBVIOUS
<1>9. AllPlain(next) /\ Unique(next) /\ Implemented(next)
  BY <1>7, <1>8 DEF MergeOK
<1>10. PICK after : after = new.snapshot /\ after = Assign(old, next)
  BY <1>5, <1>8
<1>11. /\ \A e \in old.interfaces : Meaning(e) \in next.interfaces => e \in after.interfaces
       /\ \A r \in old.resources : Meaning(r) \in next.resources => r \in after.resources
       /\ \A p \in old.providers, e \in after.interfaces :
              /\ Meaning(p) \in next.providers
              /\ SameInterface(e, p) /\ p.definition = e.generation
              => p \in after.providers
  BY <1>5, <1>9, <1>10, AssignKeeps
<1>12. ASSUME NEW x, NEW fields, "owner" \in fields, Unstamped(fields),
              Generated(x, fields) \/ GeneratedBy(x, fields)
       PROVE  Meaning(x).owner = x.owner
  <2>1. DOMAIN x \ {"generation", "definition"} = fields
    BY <1>12 DEF Generated, GeneratedBy, Unstamped
  <2> QED
    BY <1>12, <2>1 DEF Meaning, Restrict
<1>13. d.owner.pkg # new.pkg
  BY DEF Touches
<1>14. CASE d \in old.resources
  <2>1. Meaning(d).owner = d.owner
    <3>1. Generated(d, ResourceFields) /\ "owner" \in ResourceFields
      BY <1>5, <1>14 DEF Good, ResourceFields
    <3> QED
      BY <1>12, <3>1, AllUnstamped
  <2>2. Meaning(d) \in Merge(U).next.resources
    BY <1>5, <1>14 DEF Pictures
  <2>3. Meaning(d) \in next.resources
    BY <1>3, <1>4, <1>5, <1>6, <1>8, <1>13, <2>1, <2>2, OthersResources
  <2> QED
    BY <1>10, <1>11, <1>14, <2>3
<1>15. CASE d \in old.providers
  <2>1. GeneratedBy(d, ProviderFields) /\ "owner" \in ProviderFields
    BY <1>5, <1>15 DEF Good, ProviderFields
  <2>2. Meaning(d).owner = d.owner
    BY <1>12, <2>1, AllUnstamped
  <2>3. PICK e \in old.interfaces : SameInterface(e, d) /\ d.definition = e.generation
    BY <1>5, <1>15 DEF Pictures
  <2>4. Meaning(d) \in next.providers
    <3>1. Meaning(d) \in Merge(U).next.providers
      BY <1>5, <1>15 DEF Pictures
    <3> QED
      BY <1>4, <1>5, <1>6, <1>8, <1>13, <2>2, <3>1, OthersProviders
  <2>5. e.owner.pkg # new.pkg
    <3>1. "definition" \in DOMAIN d
      BY <2>1 DEF GeneratedBy
    <3>2. e \in InterfaceIn(old, d.id, d.major)
      BY <2>3 DEF InterfaceIn, SameInterface
    <3> QED
      BY <3>1, <3>2 DEF Touches
  <2>6. Meaning(e).owner = e.owner
    <3>1. Generated(e, InterfaceFields) /\ "owner" \in InterfaceFields
      BY <1>5 DEF Good, InterfaceFields
    <3> QED
      BY <1>12, <3>1, AllUnstamped
  <2>7. Meaning(e) \in next.interfaces
    <3>1. Meaning(e) \in Merge(U).next.interfaces
      BY <1>5 DEF Pictures
    <3>2. ASSUME NEW x \in next.interfaces, SameInterface(x, Meaning(e))
          PROVE  x.owner.pkg # new.pkg
      <4>1. PICK g : g = Stamped(old, old.interfaces, x)
        OBVIOUS
      <4>2. g \in new.snapshot.interfaces
        BY <1>10, <3>2, <4>1 DEF Assign
      <4>3. Formed(x, InterfaceFields)
        BY <1>9, <3>2 DEF AllPlain
      <4>4. g.owner = x.owner /\ g.id = x.id /\ g.major = x.major
        BY <4>1, <4>3 DEF Stamped, With, Formed, InterfaceFields
      <4>5. Meaning(e).id = d.id /\ Meaning(e).major = d.major
        <5>1. Generated(e, InterfaceFields)
          BY <1>5 DEF Good
        <5>2. DOMAIN e \ {"generation", "definition"} = InterfaceFields
          BY <5>1, AllUnstamped DEF Generated, Unstamped
        <5>3. Meaning(e).id = e.id /\ Meaning(e).major = e.major
          BY <5>2 DEF Meaning, Restrict, InterfaceFields
        <5> QED
          BY <2>3, <5>3 DEF SameInterface
      <4>6. g \in InterfaceIn(new.snapshot, d.id, d.major)
        BY <3>2, <4>2, <4>4, <4>5 DEF InterfaceIn, SameInterface
      <4>7. "definition" \in DOMAIN d
        BY <2>1 DEF GeneratedBy
      <4> QED
        BY <4>4, <4>6, <4>7 DEF Touches
    <3> QED
      BY <1>4, <1>5, <1>6, <1>8, <2>5, <2>6, <3>1, <3>2, OthersInterfaces
  <2>8. e \in after.interfaces
    BY <1>11, <2>7
  <2>9. d \in after.providers
    BY <1>11, <1>15, <2>3, <2>4, <2>8
  <2> QED
    BY <1>10, <2>9
<1> QED
  BY <1>14, <1>15

\* Installing, replacing or removing an app ends only what touches it: every
\* other membership and resource is in the next catalog as it was, of the same
\* generation (Builder.addArtifacts, assignDefinitionGenerations and
\* Registry.Publish), whatever the packages and whoever publishes.
THEOREM ChangesAreLocal == CatalogSpec => ChangeIsLocal
<1> DEFINE Local == \A c \in Caller :
               candidate[c] # None /\ candidate'[c] = None /\ current' # current /\ phase' = "up" =>
                   \A d \in current.providers \cup current.resources :
                       Touches(d, candidate[c].pkg, current, current')
                       \/ d \in current'.providers \cup current'.resources
<1>1. LocalInv /\ [CatalogNext]_catalogVars => [Local]_catalogVars
  <2> SUFFICES ASSUME LocalInv, CatalogNext,
                      NEW c \in Caller, candidate[c] # None, candidate'[c] = None,
                      current' # current, phase' = "up",
                      NEW d \in current.providers \cup current.resources,
                      ~Touches(d, candidate[c].pkg, current, current')
               PROVE  d \in current'.providers \cup current'.resources
    OBVIOUS
  <2>1. CASE Boot
    BY <2>1 DEF LocalInv, Boot
  <2>2. CASE Change
    BY <2>2 DEF Change, Prepare
  <2>3. CASE \E image \in Image : Restart(image)
    BY <2>3 DEF Restart
  <2>4. ASSUME NEW e \in Caller, Publish(e)
        PROVE  d \in current'.providers \cup current'.resources
    <3>1. candidate' = [candidate EXCEPT ![e] = None] /\ phase' = phase
      BY <2>4 DEF Publish
    <3>2. e = c
      BY <3>1 DEF LocalInv
    <3>3. PICK new : new = candidate[c]
      OBVIOUS
    <3>4. current' = new.snapshot /\ new.base = current
      BY <2>4, <3>2, <3>3 DEF Publish, Fresh
    <3>5. PreparedFor(new) /\ new.active = active /\ Shows(current, active)
      BY <3>1, <3>3, <3>4 DEF LocalInv
    <3>6. d \in new.snapshot.providers \cup new.snapshot.resources
      BY <3>3, <3>4, <3>5, ChangeLeaves
    <3> QED
      BY <3>4, <3>6
  <2> QED
    BY <2>1, <2>2, <2>3, <2>4 DEF CatalogNext
<1> HIDE DEF Local
<1>2. CatalogSpec => [][Local]_catalogVars
  BY <1>1, LocalStarts, LocalStep, PTL DEF CatalogSpec
<1> QED
  BY <1>2 DEF ChangeIsLocal, Local

----------------------------------------------------------------------------
(***************************************************************************)
(* Two catalogs of one boot agree when no generation of the one stands for *)
(* another meaning in the other.                                           *)
(***************************************************************************)
Agree(a, b) ==
    /\ \A d \in a.interfaces, e \in b.interfaces :
           SameInterface(d, e) /\ d.generation = e.generation => d = e
    /\ \A p \in a.providers, q \in b.providers :
           SameProvider(p, q) /\ p.generation = q.generation => p = q
    /\ \A r \in a.resources, t \in b.resources :
           r.role = t.role /\ r.generation = t.generation => r = t

LEMMA AgreesWithItself ==
    ASSUME NEW a, Good(a)
    PROVE  Agree(a, a)
BY DEF Good, Unique, Agree

LEMMA AgreesWithNext ==
    ASSUME NEW a, Good(a), NEW old, Good(old), NEW new, Follows(old, new),
           a.revision <= old.revision, Agree(a, old)
    PROVE  Agree(a, new) /\ a.revision <= new.revision
<1>1. PICK n \in Nat, m \in Nat : n = a.revision /\ m = old.revision
  BY DEF Good
<1>2. \A g \in 1..n : g # new.revision
  BY <1>1 DEF Follows
<1>3. /\ \A d \in a.interfaces : d.generation # new.revision
      /\ \A p \in a.providers : p.generation # new.revision
      /\ \A r \in a.resources : r.generation # new.revision
  BY <1>1, <1>2 DEF Good, Stamps
<1>4. \A d \in a.interfaces, e \in new.interfaces :
          SameInterface(d, e) /\ d.generation = e.generation => d = e
  BY <1>3 DEF Follows, Agree
<1>5. \A p \in a.providers, q \in new.providers :
          SameProvider(p, q) /\ p.generation = q.generation => p = q
  BY <1>3 DEF Follows, Agree
<1>6. \A r \in a.resources, t \in new.resources :
          r.role = t.role /\ r.generation = t.generation => r = t
  BY <1>3 DEF Follows, Agree
<1>7. a.revision <= new.revision
  BY <1>1 DEF Follows
<1> QED
  BY <1>4, <1>5, <1>6, <1>7 DEF Agree

(***************************************************************************)
(* What a registration holds of the catalog is of a catalog that has been  *)
(* published; and what a binding was made for is what its generations      *)
(* stand for.                                                              *)
(***************************************************************************)
Dated(snap, r) ==
    /\ r.definition \in Stamps(snap) /\ r.provider \in Stamps(snap)
    /\ r.resource # NoResource => r.resource[2] \in Stamps(snap)

Kept(snap, b) ==
    LET r == b.target
    IN  /\ \A d \in InterfaceIn(snap, r.iface, r.major) :
               d.generation = r.definition => b.meant.interface = {Meaning(d)}
        /\ \A p \in ProviderIn(snap, r.pkg, r.iface, r.major) :
               p.generation = r.provider => b.meant.provider = {Meaning(p)}
        /\ r.resource = NoResource => b.meant.resource = {}
        /\ r.resource # NoResource =>
               \A t \in ByHandle(snap, r.resource[1]) :
                   t.generation = r.resource[2] => b.meant.resource = {Meaning(t)}

LEMMA DatedStays ==
    ASSUME NEW old, Good(old), NEW new, Follows(old, new), NEW r, Dated(old, r)
    PROVE  Dated(new, r)
BY StampsGrow DEF Dated

LEMMA KeptStays ==
    ASSUME NEW old, Good(old), NEW new, Follows(old, new),
           NEW b, Dated(old, b.target), Kept(old, b)
    PROVE  Kept(new, b)
<1>1. PICK r : r = b.target
  OBVIOUS
<1>2. new.revision \notin Stamps(old)
  BY StampsGrow
<1>3. ASSUME NEW d \in InterfaceIn(new, r.iface, r.major), d.generation = r.definition
      PROVE  b.meant.interface = {Meaning(d)}
  <2>1. d \in InterfaceIn(old, r.iface, r.major)
    BY <1>1, <1>2, <1>3 DEF InterfaceIn, Follows, Dated
  <2> QED
    BY <1>1, <1>3, <2>1 DEF Kept
<1>4. ASSUME NEW p \in ProviderIn(new, r.pkg, r.iface, r.major), p.generation = r.provider
      PROVE  b.meant.provider = {Meaning(p)}
  <2>1. p \in ProviderIn(old, r.pkg, r.iface, r.major)
    BY <1>1, <1>2, <1>4 DEF ProviderIn, Follows, Dated
  <2> QED
    BY <1>1, <1>4, <2>1 DEF Kept
<1>5. ASSUME r.resource # NoResource,
             NEW t \in ByHandle(new, r.resource[1]), t.generation = r.resource[2]
      PROVE  b.meant.resource = {Meaning(t)}
  <2>1. t \in ByHandle(old, r.resource[1])
    BY <1>1, <1>2, <1>5 DEF ByHandle, Follows, Dated
  <2> QED
    BY <1>1, <1>5, <2>1 DEF Kept
<1>6. r.resource = NoResource => b.meant.resource = {}
  BY <1>1 DEF Kept
<1> QED
  BY <1>1, <1>3, <1>4, <1>5, <1>6 DEF Kept

\* A claim and a choice are of a resource of the catalog.
LEMMA ClaimIsDated ==
    ASSUME NEW snap, Good(snap), NEW def, NEW handle, NEW claim \in Claimed(snap, def, handle)
    PROVE  claim = NoResource \/ claim[2] \in Stamps(snap)
BY DEF Claimed, ByHandle, Good

LEMMA ChosenIsHeld ==
    ASSUME NEW snap, Good(snap), NEW def, NEW sel, NEW choice \in Chosen(snap, def, sel),
           choice # NoResource
    PROVE  \E r \in snap.resources : choice = <<r.role, r.generation>>
<1>1. Select(snap, sel) \subseteq snap.resources
  BY DEF Select, Filter
<1>2. ResourceIn(snap, def.default.type, def.default.role) \subseteq snap.resources
  BY DEF ResourceIn
<1> HIDE DEF Select, ResourceIn
<1> QED
  BY <1>1, <1>2 DEF Chosen

\* What a candidate is bound for, in the snapshot of the resolution.
LEMMA MeantIsKept ==
    ASSUME NEW a, Good(a), NEW snap, Good(snap), Agree(a, snap),
           NEW r, NEW def \in InSnapshot(a, r), NEW sel, r.resource \in Chosen(a, def, sel),
           NEW b, b.target = r, b.meant = Meant(a, r)
    PROVE  Kept(snap, b)
<1>1. /\ def \in a.interfaces /\ def.id = r.iface /\ def.major = r.major
      /\ def.generation = r.definition
  BY DEF InSnapshot, InterfaceIn
<1>2. PICK p \in a.providers : /\ p.pkg = r.pkg /\ p.id = r.iface /\ p.major = r.major
                               /\ p.generation = r.provider
  BY DEF InSnapshot, ProviderIn
<1>3. InterfaceIn(a, r.iface, r.major) = {def}
  BY <1>1 DEF InterfaceIn, Good, Unique, SameInterface
<1>4. ProviderIn(a, r.pkg, r.iface, r.major) = {p}
  BY <1>2 DEF ProviderIn, Good, Unique, SameProvider
<1>5. /\ b.meant.interface = {Meaning(d) : d \in InterfaceIn(a, r.iface, r.major)}
      /\ b.meant.provider = {Meaning(q) : q \in ProviderIn(a, r.pkg, r.iface, r.major)}
      /\ b.meant.resource = IF r.resource = NoResource THEN {}
                            ELSE {Meaning(d) : d \in ByHandle(a, r.resource[1])}
  BY DEF Meant
<1>6. b.meant.interface = {Meaning(def)} /\ b.meant.provider = {Meaning(p)}
  BY <1>3, <1>4, <1>5
<1>7. ASSUME NEW d \in InterfaceIn(snap, r.iface, r.major), d.generation = r.definition
      PROVE  d = def
  BY <1>1, <1>7 DEF Agree, InterfaceIn, SameInterface
<1>8. ASSUME NEW q \in ProviderIn(snap, r.pkg, r.iface, r.major), q.generation = r.provider
      PROVE  q = p
  BY <1>2, <1>8 DEF Agree, ProviderIn, SameProvider
<1>9. ASSUME r.resource # NoResource,
             NEW t \in ByHandle(snap, r.resource[1]), t.generation = r.resource[2]
      PROVE  b.meant.resource = {Meaning(t)}
  <2>1. PICK x \in a.resources : r.resource = <<x.role, x.generation>>
    BY <1>9, ChosenIsHeld
  <2>2. ByHandle(a, r.resource[1]) = {x}
    BY <2>1 DEF ByHandle, Good
  <2>3. t = x
    BY <1>9, <2>1 DEF Agree, ByHandle
  <2> QED
    BY <1>5, <1>9, <2>2, <2>3
<1> QED
  BY <1>5, <1>6, <1>7, <1>8, <1>9 DEF Kept

----------------------------------------------------------------------------
(***************************************************************************)
(* The inductive invariant of the endpoint registry.                       *)
(***************************************************************************)
CatalogsOK ==
    /\ Good(snapshot) /\ packages \in Catalogs
    /\ packages # built => Build(snapshot, Bootstrap \cup packages).fault = None

ShapesOK ==
    /\ conn \in [Conn -> Component \cup {None, Closed}]
    /\ handles \in [Conn -> [registration : Nat, binding : Nat]]
    /\ pending \in [Component -> SUBSET Conn]
    /\ DOMAIN bindings = Conn /\ DOMAIN request = Conn

\* Who holds it has registered no more than its handles say.
Counted(r) ==
    \/ r.conn = None
    \/ r.conn \in Conn /\ r.id \in Nat /\ r.id <= handles[r.conn].registration

RegistrationsOK ==
    \A r \in live : /\ Dated(snapshot, r) /\ Counted(r)
                    /\ r.conn # None => conn[r.conn] \in Component

ResolveFields == {"op", "iface", "majors", "sel", "snap", "attempted", "component", "woken"}
Pinned(q) == Good(q.snap) /\ q.snap.revision <= snapshot.revision /\ Agree(q.snap, snapshot)
Resolution(q) ==
    /\ DOMAIN q = ResolveFields /\ q.op \in {"look", "authorize", "start", "wait"}
    /\ q.op \in {"start", "wait"} => q.component \in Component /\ q.attempted
    /\ q.op = "authorize" \/ (q.op = "look" /\ ~q.attempted) => ~q.woken
    /\ Pinned(q)
Registering(q) == q.op = "register" /\ Dated(snapshot, q)

RequestsOK ==
    \A c \in Conn :
        \/ request[c] = NoRequest
        \/ conn[c] \in Component /\ (Registering(request[c]) \/ Resolution(request[c]))

BindingOK(b) ==
    /\ Dated(snapshot, b.target) /\ Counted(b.target)
    /\ b.resource = b.target.resource /\ Kept(snapshot, b)
    /\ \E i, p, r : b.meant = [interface |-> i, provider |-> p, resource |-> r]
BindingsOK ==
    \A c \in Conn : \A b \in bindings[c] : conn[c] \in Component /\ BindingOK(b)

EndpointInv ==
    /\ CatalogsOK /\ ShapesOK /\ RegistrationsOK
    /\ RequestsOK /\ BindingsOK /\ QueueIsExact

LEMMA CatalogSources ==
    ASSUME NEW sources \in Catalogs
    PROVE  /\ IsFiniteSet(Bootstrap \cup sources)
           /\ \A s \in Bootstrap \cup sources : s.pkg # None
<1>1. IsFiniteSet(Bootstrap) /\ \A s \in Bootstrap : s.pkg # None
  BY BuilderAssumption
<1>2. IsFiniteSet(sources) /\ \A s \in sources : s.pkg # None
  BY EndpointAssumption
<1>3. IsFiniteSet(Bootstrap \cup sources)
  BY <1>1, <1>2, FS_Union
<1> QED
  BY <1>1, <1>2, <1>3

LEMMA ComponentsOfCatalogs ==
    ASSUME NEW sources \in Catalogs
    PROVE  ComponentsOf(sources) \subseteq Component
BY DEF Component

LEMMA EndpointStarts == Init => EndpointInv
<1> SUFFICES ASSUME Init PROVE EndpointInv
  OBVIOUS
<1>1. PICK first : first = Build(Nothing, Bootstrap).snapshot
  OBVIOUS
<1>2. Good(first)
  BY <1>1, NothingIsGood, BuildIsGood, BuilderAssumption
<1>3. /\ packages \in Catalogs /\ packages = built
      /\ Build(first, Bootstrap \cup packages).fault = None
      /\ snapshot = Build(first, Bootstrap \cup packages).snapshot
  BY <1>1 DEF Init
<1>4. Good(snapshot)
  BY <1>2, <1>3, BuildFollows, CatalogSources
<1>5. CatalogsOK
  BY <1>3, <1>4 DEF CatalogsOK
<1>6. ShapesOK
  BY DEF Init, ShapesOK
<1>7. RegistrationsOK /\ RequestsOK /\ BindingsOK
  BY DEF Init, RegistrationsOK, RequestsOK, BindingsOK
<1>8. QueueIsExact
  BY DEF Init, QueueIsExact, NoRequest
<1> QED
  BY <1>5, <1>6, <1>7, <1>8 DEF EndpointInv

\* The catalog changes under what is held of it.
LEMMA CatalogFollows ==
    ASSUME EndpointInv, PublishCatalog
    PROVE  Good(snapshot) /\ Good(snapshot') /\ Follows(snapshot, snapshot')
<1>1. /\ Good(snapshot) /\ packages \in Catalogs
      /\ Build(snapshot, Bootstrap \cup packages).fault = None
      /\ snapshot' = Build(snapshot, Bootstrap \cup packages).snapshot
  BY DEF EndpointInv, CatalogsOK, PublishCatalog
<1> QED
  BY <1>1, CatalogSources, BuildFollows

LEMMA PublishCatalogKeeps ==
    ASSUME EndpointInv, PublishCatalog
    PROVE  EndpointInv'
<1>1. Good(snapshot) /\ Good(snapshot') /\ Follows(snapshot, snapshot')
  BY CatalogFollows
<1>2. UNCHANGED <<packages, conn, live, handles, bindings, pending, request>> /\ built' = packages'
  BY DEF PublishCatalog, routes
<1>3. CatalogsOK'
  BY <1>1, <1>2 DEF EndpointInv, CatalogsOK
<1>4. ShapesOK'
  BY <1>2 DEF EndpointInv, ShapesOK
<1>5. RegistrationsOK'
  BY <1>1, <1>2, DatedStays DEF EndpointInv, RegistrationsOK, Counted
<1>6. RequestsOK'
  <2> SUFFICES ASSUME NEW c \in Conn
               PROVE  \/ request[c] = NoRequest
                      \/ conn[c] \in Component /\ (Registering(request[c])' \/ Resolution(request[c])')
    BY <1>2 DEF RequestsOK
  <2>1. CASE request[c] = NoRequest
    BY <2>1
  <2>2. CASE conn[c] \in Component /\ Registering(request[c])
    BY <1>1, <1>2, <2>2, DatedStays DEF Registering
  <2>3. CASE conn[c] \in Component /\ Resolution(request[c])
    <3>1. PICK q : q = request[c]
      OBVIOUS
    <3>2. Pinned(q)
      BY <2>3, <3>1 DEF Resolution
    <3>3. Pinned(q)'
      BY <1>1, <3>2, AgreesWithNext DEF Pinned
    <3>4. Resolution(request[c])'
      BY <1>2, <2>3, <3>1, <3>3 DEF Resolution
    <3> QED
      BY <2>3, <3>4
  <2> QED
    BY <2>1, <2>2, <2>3 DEF EndpointInv, RequestsOK
<1>7. BindingsOK'
  <2> SUFFICES ASSUME NEW c \in Conn, NEW b \in bindings[c]
               PROVE  conn[c] \in Component /\ BindingOK(b)'
    BY <1>2 DEF BindingsOK
  <2>1. conn[c] \in Component /\ BindingOK(b)
    BY DEF EndpointInv, BindingsOK
  <2>2. Dated(snapshot', b.target) /\ Kept(snapshot', b)
    BY <1>1, <2>1, DatedStays, KeptStays DEF BindingOK
  <2> QED
    BY <1>2, <2>1, <2>2 DEF BindingOK, Counted
<1>8. QueueIsExact'
  BY <1>2 DEF EndpointInv, QueueIsExact
<1> QED
  BY <1>3, <1>4, <1>5, <1>6, <1>7, <1>8 DEF EndpointInv

\* The other steps of the environment.
LEMMA AroundKeeps ==
    ASSUME EndpointInv, UNCHANGED <<snapshot, conn, live, handles, bindings, pending, request>>,
           CatalogsOK'
    PROVE  EndpointInv'
<1>1. ShapesOK' /\ RegistrationsOK' /\ QueueIsExact'
  BY DEF EndpointInv, ShapesOK, RegistrationsOK, Counted, QueueIsExact
<1>2. RequestsOK' /\ BindingsOK'
  BY DEF EndpointInv, RequestsOK, BindingsOK, BindingOK, Counted, Registering, Resolution, Pinned
<1> QED
  BY <1>1, <1>2 DEF EndpointInv

LEMMA EnvironmentKeeps ==
    ASSUME EndpointInv, Environment
    PROVE  EndpointInv'
<1>1. ASSUME NEW sources \in Catalogs, ReplaceEntries(sources)
      PROVE  EndpointInv'
  <2>1. /\ packages' = sources /\ Build(snapshot, Bootstrap \cup sources).fault = None
        /\ UNCHANGED <<snapshot, conn, live, handles, bindings, pending, request>>
    BY <1>1 DEF ReplaceEntries, routes
  <2>2. CatalogsOK'
    BY <2>1 DEF EndpointInv, CatalogsOK
  <2> QED
    BY <2>1, <2>2, AroundKeeps
<1>2. CASE PublishCatalog
  BY <1>2, PublishCatalogKeeps
<1>3. ASSUME NEW g, SetConsent(g) \/ SetEnabled(g)
      PROVE  EndpointInv'
  <2>1. UNCHANGED <<packages, built, snapshot, conn, live, handles, bindings, pending, request>>
    BY <1>3 DEF SetConsent, SetEnabled, routes
  <2>2. CatalogsOK'
    BY <2>1 DEF EndpointInv, CatalogsOK
  <2> QED
    BY <2>1, <2>2, AroundKeeps
<1> QED
  BY <1>1, <1>2, <1>3 DEF Environment

\* A handler of c goes on: its request becomes x.
LEMMA HandlerKeeps ==
    ASSUME EndpointInv, NEW c \in Conn, NEW x,
           UNCHANGED <<packages, built, snapshot, conn, live, handles, bindings>>,
           request' = [request EXCEPT ![c] = x],
           x = NoRequest \/ (conn[c] \in Component /\ (Registering(x) \/ Resolution(x))),
           pending' \in [Component -> SUBSET Conn],
           \A k \in Component, d \in Conn \ {c} : d \in pending'[k] <=> d \in pending[k],
           \A k \in Component :
               c \in pending'[k] <=> x.op \in {"start", "wait"} /\ x.component = k /\ ~x.woken
    PROVE  EndpointInv'
<1>1. DOMAIN request = Conn
  BY DEF EndpointInv, ShapesOK
<1>2. request'[c] = x /\ \A d \in Conn \ {c} : request'[d] = request[d]
  BY <1>1
<1>3. CatalogsOK' /\ RegistrationsOK'
  BY DEF EndpointInv, CatalogsOK, RegistrationsOK, Counted
<1>4. ShapesOK'
  BY <1>1 DEF EndpointInv, ShapesOK
<1>5. BindingsOK'
  <2>1. \A b : BindingOK(b)' <=> BindingOK(b)
    BY DEF BindingOK, Counted
  <2> QED
    BY <2>1 DEF EndpointInv, BindingsOK
<1>6. RequestsOK'
  <2>1. ASSUME NEW d \in Conn \ {c}
        PROVE  \/ request'[d] = NoRequest
               \/ conn'[d] \in Component /\ (Registering(request[d]) \/ Resolution(request[d]))'
    BY <1>2 DEF EndpointInv, RequestsOK, Registering, Resolution, Pinned
  <2>2. \/ request'[c] = NoRequest
        \/ conn'[c] \in Component /\ (Registering(request[c])' \/ Resolution(request[c])')
    BY <1>2 DEF Registering, Resolution, Pinned
  <2> QED
    BY <2>1, <2>2 DEF RequestsOK
<1>7. QueueIsExact'
  <2>1. \A r \in live' : r.conn # None => conn'[r.conn] \in Component
    BY DEF EndpointInv, QueueIsExact
  <2>2. ASSUME NEW k \in Component, NEW d \in Conn
        PROVE  d \in pending'[k] <=> /\ request'[d].op \in {"start", "wait"}
                                     /\ request'[d].component = k /\ ~request'[d].woken
    <3>1. CASE d = c
      BY <1>2, <3>1
    <3>2. CASE d # c
      BY <1>2, <3>2 DEF EndpointInv, QueueIsExact
    <3> QED
      BY <3>1, <3>2
  <2> QED
    BY <2>1, <2>2 DEF QueueIsExact
<1> QED
  BY <1>3, <1>4, <1>5, <1>6, <1>7 DEF EndpointInv

LEMMA FieldsKept ==
    ASSUME NEW q, DOMAIN q = ResolveFields, NEW s, NEW x, x = [q EXCEPT !.op = s]
    PROVE  /\ DOMAIN x = ResolveFields /\ x.op = s
           /\ x.snap = q.snap /\ x.component = q.component
           /\ x.attempted = q.attempted /\ x.woken = q.woken
BY DEF ResolveFields

LEMMA ResolvingNow ==
    ASSUME EndpointInv, NEW c \in Conn,
           request[c].op \in {"look", "authorize", "start", "wait"}
    PROVE  conn[c] \in Component /\ Resolution(request[c])
BY DEF EndpointInv, RequestsOK, NoRequest, Registering

LEMMA QueueNow ==
    ASSUME EndpointInv, NEW c \in Conn
    PROVE  /\ pending \in [Component -> SUBSET Conn] /\ DOMAIN request = Conn
           /\ \A k \in Component :
                  c \in pending[k] <=> /\ request[c].op \in {"start", "wait"}
                                       /\ request[c].component = k /\ ~request[c].woken
BY DEF EndpointInv, ShapesOK, QueueIsExact

LEMMA CheckRegistrationKeeps ==
    ASSUME EndpointInv, NEW c \in Conn, NEW id, NEW major, NEW handle,
           CheckRegistration(c, id, major, handle)
    PROVE  EndpointInv'
<1>0. PICK p \in ProviderIn(snapshot, conn[c][1], id, major),
           d \in InterfaceIn(snapshot, id, major) :
          \E claim \in Claimed(snapshot, d, handle) :
              request' = [request EXCEPT ![c] =
                  [op |-> "register", iface |-> id, major |-> major, resource |-> claim,
                   definition |-> p.definition, provider |-> p.generation]]
  BY DEF CheckRegistration
<1>1. PICK claim \in Claimed(snapshot, d, handle) :
          request' = [request EXCEPT ![c] =
              [op |-> "register", iface |-> id, major |-> major, resource |-> claim,
               definition |-> p.definition, provider |-> p.generation]]
  BY <1>0
<1>2. PICK x : x = [op |-> "register", iface |-> id, major |-> major, resource |-> claim,
                    definition |-> p.definition, provider |-> p.generation]
  OBVIOUS
<1>3. /\ conn[c] \in Component /\ request[c] = NoRequest
      /\ UNCHANGED <<packages, built, snapshot, conn, live, handles, bindings, pending>>
  BY DEF CheckRegistration, Idle, catalog, routes
<1>4. Good(snapshot)
  BY DEF EndpointInv, CatalogsOK
<1>5. claim = NoResource \/ claim[2] \in Stamps(snapshot)
  BY <1>4, ClaimIsDated
<1>6. p.definition \in Stamps(snapshot) /\ p.generation \in Stamps(snapshot)
  BY <1>4 DEF ProviderIn, Good
<1>7. Registering(x)
  BY <1>2, <1>5, <1>6 DEF Registering, Dated
<1>8. x.op = "register" /\ request' = [request EXCEPT ![c] = x]
  BY <1>1, <1>2
<1>9. \A k \in Component :
          c \in pending'[k] <=> x.op \in {"start", "wait"} /\ x.component = k /\ ~x.woken
  BY <1>3, <1>8, QueueNow DEF NoRequest
<1>10. /\ pending' \in [Component -> SUBSET Conn]
       /\ \A k \in Component, e \in Conn \ {c} : e \in pending'[k] <=> e \in pending[k]
  BY <1>3, QueueNow
<1> QED
  BY <1>3, <1>7, <1>8, <1>9, <1>10, HandlerKeeps

LEMMA ResolveEndpointKeeps ==
    ASSUME EndpointInv, NEW c \in Conn, NEW id, NEW majors, NEW sel,
           ResolveEndpoint(c, id, majors, sel)
    PROVE  EndpointInv'
<1>1. PICK x : x = [op |-> "look", iface |-> id, majors |-> majors, sel |-> sel,
                    snap |-> snapshot, attempted |-> FALSE, component |-> None,
                    woken |-> FALSE]
  OBVIOUS
<1>2. /\ conn[c] \in Component /\ request[c] = NoRequest
      /\ UNCHANGED <<packages, built, snapshot, conn, live, handles, bindings, pending>>
      /\ request' = [request EXCEPT ![c] = x]
  BY <1>1 DEF ResolveEndpoint, Idle, catalog, routes
<1>3. Good(snapshot) /\ Agree(snapshot, snapshot) /\ snapshot.revision <= snapshot.revision
  BY AgreesWithItself DEF EndpointInv, CatalogsOK, Good
<1>4. /\ DOMAIN x = ResolveFields /\ x.op = "look" /\ x.snap = snapshot
      /\ x.woken = FALSE
  BY <1>1 DEF ResolveFields
<1>5. Resolution(x)
  BY <1>3, <1>4 DEF Resolution, Pinned
<1>6. \A k \in Component : c \notin pending[k]
  BY <1>2, QueueNow DEF NoRequest
<1> QED
  BY <1>2, <1>4, <1>5, <1>6, QueueNow, HandlerKeeps

\* The request of c ends, and with it its wait.
LEMMA AnswerKeeps ==
    ASSUME EndpointInv, NEW c \in Conn, Answer(c),
           UNCHANGED <<packages, built, snapshot, conn, live, handles, bindings>>,
           \/ /\ request[c].op \in {"look", "authorize"} /\ pending' = pending
           \/ /\ request[c].op \in {"start", "wait"} /\ RemoveWaiter(c)
    PROVE  EndpointInv'
<1>1. Resolution(request[c])
  BY ResolvingNow
<1>0. ASSUME pending' \in [Component -> SUBSET Conn],
             \A k \in Component : c \notin pending'[k],
             \A k \in Component, d \in Conn \ {c} : d \in pending'[k] <=> d \in pending[k]
      PROVE  EndpointInv'
  <2>1. PICK x : x = NoRequest
    OBVIOUS
  <2>2. request' = [request EXCEPT ![c] = x] /\ x.op = "none"
    BY <2>1 DEF Answer, NoRequest
  <2>3. \A k \in Component :
            c \in pending'[k] <=> x.op \in {"start", "wait"} /\ x.component = k /\ ~x.woken
    BY <1>0, <2>2
  <2> QED
    BY <1>0, <2>1, <2>2, <2>3, HandlerKeeps
<1>2. CASE request[c].op \in {"look", "authorize"} /\ pending' = pending
  <2>1. \A k \in Component : c \notin pending[k]
    BY <1>2, QueueNow
  <2> QED
    BY <1>0, <1>2, <2>1, QueueNow
<1>3. CASE request[c].op \in {"start", "wait"} /\ RemoveWaiter(c)
  <2>1. PICK k \in Component : k = request[c].component
    BY <1>1, <1>3 DEF Resolution
  <2>2. /\ pending' = [pending EXCEPT ![k] = @ \ {c}]
        /\ \A j \in Component \ {k} : c \notin pending[j]
        /\ pending \in [Component -> SUBSET Conn]
    BY <1>3, <2>1, QueueNow DEF RemoveWaiter
  <2>3. /\ pending' \in [Component -> SUBSET Conn]
        /\ \A j \in Component : c \notin pending'[j]
        /\ \A j \in Component, d \in Conn \ {c} : d \in pending'[j] <=> d \in pending[j]
    BY <2>2
  <2> QED
    BY <1>0, <2>3
<1> QED
  BY <1>2, <1>3

\* The request of c goes on to its next step.
LEMMA GotoKeeps ==
    ASSUME EndpointInv, NEW c \in Conn, NEW from, Resolving(c, from), NEW to, Goto(c, to),
           UNCHANGED <<packages, built, snapshot, conn, live, handles, bindings, pending>>,
           \/ from = "look" /\ to = "authorize" /\ ~request[c].attempted
           \/ from = "start" /\ to = "wait"
           \/ from = "wait" /\ to = "look" /\ request[c].woken /\ request[c].attempted
    PROVE  EndpointInv'
<1>1. PICK q : q = request[c]
  OBVIOUS
<1>2. PICK x : x = [q EXCEPT !.op = to]
  OBVIOUS
<1>3. conn[c] \in Component /\ Resolution(q) /\ q.op = from
  BY <1>1, ResolvingNow DEF Resolving
<1>4. /\ DOMAIN x = ResolveFields /\ x.op = to
      /\ x.snap = q.snap /\ x.component = q.component
      /\ x.attempted = q.attempted /\ x.woken = q.woken
  BY <1>2, <1>3, FieldsKept DEF Resolution
<1>5. Resolution(x)
  BY <1>1, <1>3, <1>4 DEF Resolution, Pinned
<1>6. \A k \in Component :
          c \in pending[k] <=> x.op \in {"start", "wait"} /\ x.component = k /\ ~x.woken
  BY <1>1, <1>3, <1>4, QueueNow
<1>7. request' = [request EXCEPT ![c] = x]
  BY <1>1, <1>2 DEF Goto
<1>8. /\ pending' \in [Component -> SUBSET Conn]
      /\ \A k \in Component, d \in Conn \ {c} : d \in pending'[k] <=> d \in pending[k]
      /\ \A k \in Component :
             c \in pending'[k] <=> x.op \in {"start", "wait"} /\ x.component = k /\ ~x.woken
  <2>1. pending' = pending
    OBVIOUS
  <2> QED
    BY <1>6, <2>1, QueueNow
<1> QED
  BY <1>3, <1>5, <1>7, <1>8, HandlerKeeps

LEMMA StartableExists ==
    ASSUME EndpointInv, NEW c \in Conn, Cardinality(Startable(c, request[c])) = 1
    PROVE  (CHOOSE k \in Startable(c, request[c]) : TRUE) \in Component
<1>1. PICK q : q = request[c]
  OBVIOUS
<1>2. Startable(c, q) # {}
  BY <1>1, FS_EmptySet
<1>3. ASSUME NEW k \in Startable(c, q)
      PROVE  k \in ComponentsOf(packages)
  <2>1. PICK p : k = <<p.pkg, p.component>> /\ <<p.pkg, p.component, q.iface>> \in KeysOf(packages)
    BY DEF Startable
  <2>2. PICK key \in KeysOf(packages) : k = <<key[1], key[2]>>
    BY <2>1
  <2> QED
    BY <2>2 DEF ComponentsOf
<1>4. ComponentsOf(packages) \subseteq Component
  BY ComponentsOfCatalogs DEF EndpointInv, CatalogsOK
<1> QED
  BY <1>1, <1>2, <1>3, <1>4

LEMMA AwaitKeeps ==
    ASSUME EndpointInv, NEW c \in Conn, Await(c)
    PROVE  EndpointInv'
<1>1. PICK q : q = request[c]
  OBVIOUS
<1>2. /\ conn[c] \in Component /\ Resolution(q) /\ q.op = "authorize"
      /\ UNCHANGED <<packages, built, snapshot, conn, live, handles, bindings>>
  BY <1>1, ResolvingNow DEF Await, Resolving, catalog, routes
<1>3. CASE Cardinality(Startable(c, q)) = 1
  <2>1. PICK k \in Component :
          /\ pending' = [pending EXCEPT ![k] = @ \cup {c}]
          /\ request' = [request EXCEPT ![c].op = "start", ![c].component = k,
                                        ![c].attempted = TRUE]
    BY <1>1, <1>3, StartableExists DEF Await
  <2>2. PICK x : x = [q EXCEPT !.op = "start", !.component = k, !.attempted = TRUE]
    OBVIOUS
  <2>3. request' = [request EXCEPT ![c] = x]
    BY <1>1, <2>1, <2>2
  <2>4. /\ DOMAIN x = ResolveFields /\ x.op = "start" /\ x.component = k
        /\ x.snap = q.snap /\ x.woken = q.woken /\ x.attempted = TRUE
    BY <1>2, <2>2 DEF Resolution, ResolveFields
  <2>5. Resolution(x)
    BY <1>2, <2>4 DEF Resolution, Pinned
  <2>6. ~x.woken
    BY <1>2, <2>4 DEF Resolution
  <2>7. /\ pending \in [Component -> SUBSET Conn]
        /\ \A j \in Component : c \notin pending[j]
    BY <1>1, <1>2, QueueNow
  <2>8. /\ pending' \in [Component -> SUBSET Conn]
        /\ \A j \in Component, d \in Conn \ {c} : d \in pending'[j] <=> d \in pending[j]
        /\ \A j \in Component : c \in pending'[j] <=> k = j
    BY <2>1, <2>7
  <2>9. \A j \in Component :
            c \in pending'[j] <=> x.op \in {"start", "wait"} /\ x.component = j /\ ~x.woken
    BY <2>4, <2>6, <2>8
  <2> QED
    BY <1>2, <2>3, <2>5, <2>8, <2>9, HandlerKeeps
<1>4. CASE Cardinality(Startable(c, q)) # 1
  <2>1. Answer(c) /\ pending' = pending
    BY <1>1, <1>4 DEF Await
  <2> QED
    BY <1>1, <1>2, <2>1, AnswerKeeps
<1> QED
  BY <1>3, <1>4

LEMMA BindKeeps ==
    ASSUME EndpointInv, NEW c \in Conn, Resolving(c, "look"), Answer(c),
           NEW r \in Candidates(c, request[c]), Bind(c, r),
           UNCHANGED <<packages, built, snapshot, conn, pending>>
    PROVE  EndpointInv'
<1>1. PICK q : q = request[c]
  OBVIOUS
<1>2. conn[c] \in Component /\ Pinned(q)
  BY <1>1, ResolvingNow DEF Resolving, Resolution
<1>3. PICK def \in InSnapshot(q.snap, r) : r.resource \in Chosen(q.snap, def, q.sel)
  BY <1>1 DEF Candidates
<1>4. r \in live
  BY DEF Candidates, Visible
<1>5. Dated(snapshot, r) /\ Counted(r)
  BY <1>4 DEF EndpointInv, RegistrationsOK
<1>6. PICK b : /\ b = [id |-> handles[c].binding + 1, pkg |-> conn[c][1], target |-> r,
                      definition |-> r.definition, provider |-> r.provider,
                      resource |-> r.resource, meant |-> Meant(q.snap, r)]
  OBVIOUS
<1>7. b.target = r /\ b.resource = r.resource /\ b.meant = Meant(q.snap, r)
  BY <1>6
<1>8. Kept(snapshot, b)
  BY <1>2, <1>3, <1>7, MeantIsKept DEF EndpointInv, CatalogsOK, Pinned
<1>9. /\ bindings' = [bindings EXCEPT ![c] = @ \cup {b}]
      /\ handles' = [handles EXCEPT ![c].binding = @ + 1]
      /\ UNCHANGED live
  BY <1>1, <1>6 DEF Bind
<1>10. /\ ShapesOK /\ DOMAIN bindings = Conn
       /\ handles \in [Conn -> [registration : Nat, binding : Nat]]
  BY DEF EndpointInv, ShapesOK
<1>11. /\ handles' \in [Conn -> [registration : Nat, binding : Nat]]
       /\ \A d \in Conn : handles'[d].registration = handles[d].registration
  BY <1>9, <1>10
<1>12. \A t : Counted(t)' <=> Counted(t)
  BY <1>11 DEF Counted
<1>13. request'[c] = NoRequest /\ \A d \in Conn \ {c} : request'[d] = request[d]
  BY <1>10 DEF ShapesOK, Answer
<1>14. CatalogsOK'
  BY DEF EndpointInv, CatalogsOK
<1>15. ShapesOK'
  BY <1>9, <1>10, <1>11 DEF ShapesOK, Answer
<1>16. RegistrationsOK'
  BY <1>9, <1>12 DEF EndpointInv, RegistrationsOK
<1>17. RequestsOK'
  BY <1>13 DEF EndpointInv, RequestsOK, Registering, Resolution, Pinned
<1>18. BindingsOK'
  <2> SUFFICES ASSUME NEW d \in Conn, NEW a \in bindings'[d]
               PROVE  conn[d] \in Component /\ BindingOK(a)'
    BY DEF BindingsOK
  <2>1. CASE a \in bindings[d]
    BY <1>12, <2>1 DEF EndpointInv, BindingsOK, BindingOK
  <2>2. CASE a \notin bindings[d]
    <3>1. d = c /\ a = b
      BY <1>9, <1>10, <2>2
    <3>2. BindingOK(b)'
      BY <1>5, <1>7, <1>8, <1>12 DEF BindingOK, Meant
    <3> QED
      BY <1>2, <3>1, <3>2
  <2> QED
    BY <2>1, <2>2
<1>19. QueueIsExact'
  <2>1. \A k \in Component : c \notin pending[k]
    BY QueueNow DEF Resolving
  <2>2. ASSUME NEW k \in Component, NEW d \in Conn
        PROVE  d \in pending[k] <=> /\ request'[d].op \in {"start", "wait"}
                                    /\ request'[d].component = k /\ ~request'[d].woken
    <3>1. CASE d = c
      BY <1>13, <2>1, <3>1 DEF NoRequest
    <3>2. CASE d # c
      BY <1>13, <3>2, QueueNow
    <3> QED
      BY <3>1, <3>2
  <2> QED
    BY <1>9, <2>2 DEF EndpointInv, QueueIsExact
<1> QED
  BY <1>14, <1>15, <1>16, <1>17, <1>18, <1>19 DEF EndpointInv

LEMMA ResolveKeeps ==
    ASSUME EndpointInv, NEW c \in Conn, Resolve(c)
    PROVE  EndpointInv'
<1>1. CASE Look(c)
  <2>1. /\ Resolving(c, "look")
        /\ UNCHANGED <<packages, built, snapshot, conn, pending>>
    BY <1>1 DEF Look, catalog
  <2>2. CASE \E r \in Candidates(c, request[c]) : Bind(c, r) /\ Answer(c)
    BY <2>1, <2>2, BindKeeps
  <2>3. CASE ~request[c].attempted /\ Goto(c, "authorize") /\ UNCHANGED routes
    <3>1. UNCHANGED <<live, handles, bindings>>
      BY <2>3 DEF routes
    <3> QED
      BY <2>1, <2>3, <3>1, GotoKeeps
  <2>4. CASE Answer(c) /\ UNCHANGED routes
    <3>1. UNCHANGED <<live, handles, bindings>>
      BY <2>4 DEF routes
    <3>2. request[c].op = "look"
      BY <2>1 DEF Resolving
    <3> QED
      BY <2>1, <2>4, <3>1, <3>2, AnswerKeeps
  <2> QED
    BY <1>1, <2>2, <2>3, <2>4 DEF Look
<1>2. CASE EnsureStarted(c)
  <2>1. /\ Resolving(c, "start")
        /\ UNCHANGED <<packages, built, snapshot, conn, live, handles, bindings>>
    BY <1>2 DEF EnsureStarted, routes
  <2>2. CASE Goto(c, "wait") /\ UNCHANGED pending
    BY <2>1, <2>2, GotoKeeps
  <2>3. CASE RemoveWaiter(c) /\ Answer(c)
    <3>1. request[c].op = "start"
      BY <2>1 DEF Resolving
    <3> QED
      BY <2>1, <2>3, <3>1, AnswerKeeps
  <2> QED
    BY <1>2, <2>2, <2>3 DEF EnsureStarted
<1>3. CASE Wake(c)
  <2>1. /\ Resolving(c, "wait") /\ request[c].woken /\ Goto(c, "look")
        /\ UNCHANGED <<packages, built, snapshot, conn, live, handles, bindings, pending>>
    BY <1>3 DEF Wake, catalog, routes
  <2>2. request[c].attempted
    BY <2>1, ResolvingNow DEF Resolving, Resolution
  <2> QED
    BY <2>1, <2>2, GotoKeeps
<1>4. CASE Timeout(c)
  <2>1. /\ request[c].op = "wait" /\ RemoveWaiter(c) /\ Answer(c)
        /\ UNCHANGED <<packages, built, snapshot, conn, live, handles, bindings>>
    BY <1>4 DEF Timeout, Resolving, catalog, routes
  <2> QED
    BY <2>1, AnswerKeeps
<1> QED
  BY <1>1, <1>2, <1>3, <1>4, AwaitKeeps DEF Resolve

\* The registration of c, and with it the waiters of its component.
LEMMA CommitShape ==
    ASSUME EndpointInv, NEW c \in Conn, CommitRegistration(c)
    PROVE  /\ conn[c] \in Component /\ Registering(request[c])
           /\ request'[c] = NoRequest
           /\ \A d \in Conn \ {c} :
                  request'[d] = IF d \in pending[conn[c]]
                                THEN [request[d] EXCEPT !.woken = TRUE] ELSE request[d]
           /\ pending' = [pending EXCEPT ![conn[c]] = {}]
           /\ DOMAIN request' = Conn
           /\ UNCHANGED <<packages, built, snapshot, conn, bindings>>
<1>1. request[c].op = "register"
  BY DEF CommitRegistration
<1>2. conn[c] \in Component /\ Registering(request[c])
  BY <1>1 DEF EndpointInv, RequestsOK, NoRequest, Resolution
<1>3. request' = [d \in Conn |->
                IF d = c THEN NoRequest
                ELSE IF d \in pending[conn[c]] THEN [request[d] EXCEPT !.woken = TRUE]
                ELSE request[d]]
  BY DEF CommitRegistration
<1> QED
  BY <1>2, <1>3 DEF CommitRegistration, catalog

LEMMA CommitCounts ==
    ASSUME EndpointInv, NEW c \in Conn, CommitRegistration(c)
    PROVE  /\ handles' \in [Conn -> [registration : Nat, binding : Nat]]
           /\ \A t : Counted(t) => Counted(t)'
           /\ \A r \in live' : \/ r \in live
                               \/ /\ r.conn = c /\ r.id = handles[c].registration + 1
                                  /\ Dated(snapshot, r) /\ Counted(r)'
<1>1. handles \in [Conn -> [registration : Nat, binding : Nat]]
  BY DEF EndpointInv, ShapesOK
<1>2. handles' = [handles EXCEPT ![c].registration = @ + 1]
  BY DEF CommitRegistration
<1>3. /\ handles' \in [Conn -> [registration : Nat, binding : Nat]]
      /\ handles'[c].registration = handles[c].registration + 1
      /\ \A d \in Conn \ {c} : handles'[d].registration = handles[d].registration
  BY <1>1, <1>2
<1>4. \A d \in Conn : /\ handles[d].registration \in Nat /\ handles'[d].registration \in Nat
                      /\ handles[d].registration <= handles'[d].registration
  BY <1>1, <1>3
<1>5. \A t : Counted(t) => Counted(t)'
  BY <1>4 DEF Counted
<1>6. PICK q : q = request[c]
  OBVIOUS
<1>7. PICK r : r = [conn |-> c, id |-> handles[c].registration + 1, pkg |-> conn[c][1],
                  component |-> conn[c][2], iface |-> q.iface, major |-> q.major,
                  resource |-> q.resource,
                  generation |-> generations[<<conn[c][1], conn[c][2], q.iface>>] + 1,
                  definition |-> q.definition, provider |-> q.provider]
  OBVIOUS
<1>8. live' = live \cup {r}
  BY <1>6, <1>7 DEF CommitRegistration
<1>9. /\ r.conn = c /\ r.id = handles[c].registration + 1 /\ r.resource = q.resource
      /\ r.definition = q.definition /\ r.provider = q.provider
  BY <1>7
<1>10. Dated(snapshot, r)
  BY <1>6, <1>9, CommitShape DEF Registering, Dated
<1>11. Counted(r)'
  BY <1>3, <1>4, <1>9 DEF Counted
<1> QED
  BY <1>3, <1>5, <1>8, <1>9, <1>10, <1>11

LEMMA WokenStays ==
    ASSUME NEW q, Resolution(q), q.op \in {"start", "wait"},
           NEW x, x = [q EXCEPT !.woken = TRUE]
    PROVE  Resolution(x) /\ x.op = q.op /\ x.component = q.component /\ x.woken
<1>1. /\ DOMAIN x = ResolveFields /\ x.op = q.op /\ x.component = q.component
      /\ x.attempted = q.attempted /\ x.snap = q.snap /\ x.woken = TRUE
  BY DEF Resolution, ResolveFields
<1> QED
  BY <1>1 DEF Resolution, Pinned

LEMMA CommitRegistrationKeeps ==
    ASSUME EndpointInv, NEW c \in Conn, CommitRegistration(c)
    PROVE  EndpointInv'
<1>1. PICK k : k = conn[c]
  OBVIOUS
<1>2. /\ k \in Component /\ request[c].op = "register"
      /\ request'[c] = NoRequest /\ request'[c].op = "none"
      /\ DOMAIN request' = Conn
      /\ UNCHANGED <<packages, built, snapshot, conn, bindings>>
  BY <1>1, CommitShape DEF Registering, NoRequest
<1>3. ASSUME NEW d \in Conn \ {c}, d \in pending[k]
      PROVE  /\ Resolution(request'[d]) /\ conn[d] \in Component
             /\ request'[d].op = request[d].op
             /\ request'[d].component = k /\ request[d].component = k
             /\ request'[d].woken
  <2>1. /\ request[d].op \in {"start", "wait"} /\ request[d].component = k
    BY <1>2, <1>3, QueueNow
  <2>2. Resolution(request[d]) /\ conn[d] \in Component
    BY <2>1, ResolvingNow
  <2>3. request'[d] = [request[d] EXCEPT !.woken = TRUE]
    BY <1>1, <1>3, CommitShape
  <2>4. PICK q, x : q = request[d] /\ x = request'[d]
    OBVIOUS
  <2> QED
    BY <2>1, <2>2, <2>3, <2>4, WokenStays
<1>4. \A d \in Conn \ {c} : d \notin pending[k] => request'[d] = request[d]
  BY <1>1, CommitShape
<1>5. CatalogsOK'
  BY <1>2 DEF EndpointInv, CatalogsOK
<1>6. /\ pending \in [Component -> SUBSET Conn]
      /\ pending' \in [Component -> SUBSET Conn] /\ pending'[k] = {}
      /\ \A j \in Component \ {k} : pending'[j] = pending[j]
  BY <1>1, <1>2, CommitShape, QueueNow
<1>7. ShapesOK'
  BY <1>2, <1>6, CommitCounts DEF EndpointInv, ShapesOK
<1>8. RegistrationsOK' /\ \A r \in live' : r.conn # None => conn'[r.conn] \in Component
  <2>1. ASSUME NEW r \in live'
        PROVE  /\ Dated(snapshot, r)' /\ Counted(r)'
               /\ r.conn # None => conn'[r.conn] \in Component
    <3>1. CASE r \in live
      BY <1>2, <3>1, CommitCounts DEF EndpointInv, RegistrationsOK
    <3>2. CASE r \notin live
      BY <1>1, <1>2, <3>2, CommitCounts
    <3> QED
      BY <3>1, <3>2
  <2> QED
    BY <2>1 DEF RegistrationsOK
<1>9. RequestsOK'
  <2>1. ASSUME NEW d \in Conn
        PROVE  \/ request'[d] = NoRequest
               \/ conn[d] \in Component /\ (Registering(request'[d]) \/ Resolution(request'[d]))
    BY <1>2, <1>3, <1>4 DEF EndpointInv, RequestsOK
  <2> QED
    BY <1>2, <2>1 DEF RequestsOK, Registering, Resolution, Pinned
<1>10. BindingsOK'
  <2>1. ASSUME NEW b, BindingOK(b) PROVE BindingOK(b)'
    BY <1>2, <2>1, CommitCounts DEF BindingOK
  <2> QED
    BY <1>2, <2>1 DEF EndpointInv, BindingsOK
<1>11. QueueIsExact'
  <2>1. ASSUME NEW j \in Component, NEW d \in Conn
        PROVE  d \in pending'[j] <=> /\ request'[d].op \in {"start", "wait"}
                                     /\ request'[d].component = j /\ ~request'[d].woken
    <3>1. CASE d = c
      <4>1. c \notin pending[j]
        BY <1>2, QueueNow
      <4> QED
        BY <1>2, <1>6, <3>1, <4>1
    <3>2. CASE d # c /\ d \in pending[k]
      <4>1. request'[d].component = k /\ request'[d].woken /\ request[d].component = k
        BY <1>3, <3>2
      <4>2. j # k => d \notin pending[j]
        BY <4>1, QueueNow
      <4> QED
        BY <1>6, <4>1, <4>2
    <3>3. CASE d # c /\ d \notin pending[k]
      BY <1>2, <1>4, <1>6, <3>3, QueueNow
    <3> QED
      BY <3>1, <3>2, <3>3
  <2> QED
    BY <1>8, <2>1 DEF QueueIsExact
<1> QED
  BY <1>5, <1>7, <1>8, <1>9, <1>10, <1>11 DEF EndpointInv

\* Steps that touch the registrations and no handler.
LEMMA RegistrationsKeep ==
    ASSUME EndpointInv, RegistrationsOK',
           UNCHANGED <<packages, built, snapshot, conn, handles, bindings, pending, request>>
    PROVE  EndpointInv'
<1>1. CatalogsOK' /\ ShapesOK'
  BY DEF EndpointInv, CatalogsOK, ShapesOK
<1>2. RequestsOK' /\ BindingsOK'
  BY DEF EndpointInv, RequestsOK, BindingsOK, BindingOK, Counted, Registering, Resolution, Pinned
<1>3. QueueIsExact'
  BY DEF EndpointInv, QueueIsExact, RegistrationsOK
<1> QED
  BY <1>1, <1>2, <1>3 DEF EndpointInv

LEMMA RegisterBuiltinKeeps ==
    ASSUME EndpointInv, NEW id, NEW major, RegisterBuiltin(id, major)
    PROVE  EndpointInv'
<1>1. UNCHANGED <<packages, built, snapshot, conn, handles, bindings, pending, request>>
  BY DEF RegisterBuiltin, catalog
<1>2. PICK p \in ProviderIn(snapshot, Kernel, id, major) :
          live' = live \cup
            {[conn |-> None, id |-> Cardinality(live) + 1, pkg |-> Kernel,
              component |-> p.component, iface |-> id, major |-> major,
              resource |-> NoResource, generation |-> 1,
              definition |-> p.definition, provider |-> p.generation]}
  BY DEF RegisterBuiltin
<1>3. p.definition \in Stamps(snapshot) /\ p.generation \in Stamps(snapshot)
  BY DEF EndpointInv, CatalogsOK, ProviderIn, Good
<1>4. ASSUME NEW r \in live'
      PROVE  Dated(snapshot, r) /\ Counted(r) /\ (r.conn # None => conn[r.conn] \in Component)
  <2>1. CASE r \in live
    BY <2>1 DEF EndpointInv, RegistrationsOK
  <2>2. CASE r \notin live
    BY <1>2, <1>3, <2>2 DEF Dated, Counted
  <2> QED
    BY <2>1, <2>2
<1>5. RegistrationsOK'
  BY <1>1, <1>4 DEF RegistrationsOK, Counted
<1> QED
  BY <1>1, <1>5, RegistrationsKeep

LEMMA UnregisterEndpointKeeps ==
    ASSUME EndpointInv, NEW c \in Conn, NEW r, UnregisterEndpoint(c, r)
    PROVE  EndpointInv'
<1>1. /\ live' \subseteq live
      /\ UNCHANGED <<packages, built, snapshot, conn, handles, bindings, pending, request>>
  BY DEF UnregisterEndpoint, catalog
<1>2. RegistrationsOK'
  BY <1>1 DEF EndpointInv, RegistrationsOK, Counted
<1> QED
  BY <1>1, <1>2, RegistrationsKeep

LEMMA OpenKeeps ==
    ASSUME EndpointInv, NEW c \in Conn, NEW k, Open(c, k)
    PROVE  EndpointInv'
<1>1. /\ conn[c] = None /\ k \in ComponentsOf(packages) \cup Plain
      /\ conn' = [conn EXCEPT ![c] = k]
      /\ UNCHANGED <<packages, built, snapshot, live, handles, bindings, pending, request>>
  BY DEF Open, catalog, routes
<1>2. k \in Component
  <2>1. ComponentsOf(packages) \subseteq Component
    BY ComponentsOfCatalogs DEF EndpointInv, CatalogsOK
  <2> QED
    BY <1>1, <2>1 DEF Component
<1>3. conn \in [Conn -> Component \cup {None, Closed}]
  BY DEF EndpointInv, ShapesOK
<1>4. \A d \in Conn : conn[d] \in Component => conn'[d] \in Component
  BY <1>1, <1>2, <1>3
<1>5. CatalogsOK'
  BY <1>1 DEF EndpointInv, CatalogsOK
<1>6. ShapesOK'
  BY <1>1, <1>2 DEF EndpointInv, ShapesOK
<1>7. RegistrationsOK'
  BY <1>1, <1>4 DEF EndpointInv, RegistrationsOK, Counted
<1>8. RequestsOK'
  BY <1>1, <1>4 DEF EndpointInv, RequestsOK, Registering, Resolution, Pinned
<1>9. BindingsOK'
  BY <1>1, <1>4 DEF EndpointInv, BindingsOK, BindingOK, Counted
<1>10. QueueIsExact'
  BY <1>1, <1>7 DEF EndpointInv, QueueIsExact, RegistrationsOK
<1> QED
  BY <1>5, <1>6, <1>7, <1>8, <1>9, <1>10 DEF EndpointInv

LEMMA ConnClosedKeeps ==
    ASSUME EndpointInv, NEW c \in Conn, ConnClosed(c)
    PROVE  EndpointInv'
<1>1. /\ request[c] = NoRequest
      /\ conn' = [conn EXCEPT ![c] = Closed] /\ live' = {r \in live : r.conn # c}
      /\ bindings' = [bindings EXCEPT ![c] = {}]
      /\ UNCHANGED <<packages, built, snapshot, handles, pending, request>>
  BY DEF ConnClosed, Idle, catalog
<1>2. conn \in [Conn -> Component \cup {None, Closed}] /\ DOMAIN bindings = Conn
  BY DEF EndpointInv, ShapesOK
<1>3. \A d \in Conn \ {c} : conn'[d] = conn[d] /\ bindings'[d] = bindings[d]
  BY <1>1, <1>2
<1>4. CatalogsOK'
  BY <1>1 DEF EndpointInv, CatalogsOK
<1>5. ShapesOK'
  BY <1>1 DEF EndpointInv, ShapesOK
<1>6. RegistrationsOK'
  BY <1>1, <1>3 DEF EndpointInv, RegistrationsOK, Counted
<1>7. RequestsOK'
  <2>1. ASSUME NEW d \in Conn
        PROVE  \/ request[d] = NoRequest
               \/ conn'[d] \in Component /\ (Registering(request[d]) \/ Resolution(request[d]))
    BY <1>1, <1>3 DEF EndpointInv, RequestsOK
  <2> QED
    BY <1>1, <2>1 DEF RequestsOK, Registering, Resolution, Pinned
<1>8. BindingsOK'
  <2>1. bindings'[c] = {}
    BY <1>1, <1>2
  <2>2. ASSUME NEW d \in Conn, NEW b \in bindings'[d]
        PROVE  conn'[d] \in Component /\ BindingOK(b)
    BY <1>3, <2>1, <2>2 DEF EndpointInv, BindingsOK
  <2> QED
    BY <1>1, <2>2 DEF BindingsOK, BindingOK, Counted
<1>9. QueueIsExact'
  BY <1>1, <1>6 DEF EndpointInv, QueueIsExact, RegistrationsOK
<1> QED
  BY <1>4, <1>5, <1>6, <1>7, <1>8, <1>9 DEF EndpointInv

LEMMA EndpointStep == EndpointInv /\ [Next]_vars => EndpointInv'
<1> SUFFICES ASSUME EndpointInv, [Next]_vars PROVE EndpointInv'
  OBVIOUS
<1>1. CASE Environment
  BY <1>1, EnvironmentKeeps
<1>2. CASE Builtins
  BY <1>2, RegisterBuiltinKeeps DEF Builtins
<1>3. ASSUME NEW c \in Conn, Provide(c)
      PROVE  EndpointInv'
  BY <1>3, CheckRegistrationKeeps, CommitRegistrationKeeps, UnregisterEndpointKeeps DEF Provide
<1>4. ASSUME NEW c \in Conn, Ask(c)
      PROVE  EndpointInv'
  BY <1>4, ResolveEndpointKeeps DEF Ask
<1>5. ASSUME NEW c \in Conn, Resolve(c)
      PROVE  EndpointInv'
  BY <1>5, ResolveKeeps
<1>6. ASSUME NEW c \in Conn, ConnClosed(c)
      PROVE  EndpointInv'
  BY <1>6, ConnClosedKeeps
<1>7. ASSUME NEW c \in Conn, NEW k \in Component, Open(c, k)
      PROVE  EndpointInv'
  BY <1>7, OpenKeeps
<1>8. CASE UNCHANGED vars
  <2>1. UNCHANGED <<packages, built, snapshot, conn, live, handles, bindings, pending, request>>
    BY <1>8 DEF vars, catalog, routes
  <2>2. CatalogsOK'
    BY <2>1 DEF EndpointInv, CatalogsOK
  <2> QED
    BY <2>1, <2>2, AroundKeeps
<1> QED
  BY <1>1, <1>2, <1>3, <1>4, <1>5, <1>6, <1>7, <1>8 DEF Next

LEMMA EndpointInvariant == Spec => []EndpointInv
<1>1. Init => EndpointInv
  BY EndpointStarts
<1>2. EndpointInv /\ [Next]_vars => EndpointInv'
  BY EndpointStep
<1> QED
  BY <1>1, <1>2, PTL DEF Spec

----------------------------------------------------------------------------
\* The definition and the membership that a route is found by, in the one
\* snapshot.
LEMMA InSnapshotIs ==
    ASSUME NEW snap, Good(snap), NEW r, NEW d \in InSnapshot(snap, r)
    PROVE  /\ r \in live /\ InterfaceIn(snap, r.iface, r.major) = {d}
           /\ d.generation = r.definition
           /\ \E p : /\ ProviderIn(snap, r.pkg, r.iface, r.major) = {p}
                     /\ p.generation = r.provider
<1>1. /\ d \in InterfaceIn(snap, r.iface, r.major) /\ d.generation = r.definition /\ r \in live
  BY DEF InSnapshot
<1>2. PICK p \in ProviderIn(snap, r.pkg, r.iface, r.major) : p.generation = r.provider
  BY DEF InSnapshot
<1>3. InterfaceIn(snap, r.iface, r.major) = {d}
  BY <1>1 DEF InterfaceIn, Good, Unique, SameInterface
<1>4. ProviderIn(snap, r.pkg, r.iface, r.major) = {p}
  BY <1>2 DEF ProviderIn, Good, Unique, SameProvider
<1> QED
  BY <1>1, <1>2, <1>3, <1>4

LEMMA BoundKeepsMeaning ==
    ASSUME Good(snapshot), NEW b, BindingOK(b), Bound(b)
    PROVE  /\ Meant(snapshot, b.target).interface = b.meant.interface
           /\ Meant(snapshot, b.target).provider = b.meant.provider
<1>1. PICK r : r = b.target
  OBVIOUS
<1>2. PICK d : d \in InSnapshot(snapshot, r)
  BY <1>1 DEF Bound
<1>3. /\ InterfaceIn(snapshot, r.iface, r.major) = {d} /\ d.generation = r.definition
  BY <1>2, InSnapshotIs
<1>4. PICK p : /\ ProviderIn(snapshot, r.pkg, r.iface, r.major) = {p}
               /\ p.generation = r.provider
  BY <1>2, InSnapshotIs
<1>5. b.meant.interface = {Meaning(d)} /\ b.meant.provider = {Meaning(p)}
  BY <1>1, <1>3, <1>4 DEF BindingOK, Kept
<1>6. /\ Meant(snapshot, r).interface =
            {Meaning(x) : x \in InterfaceIn(snapshot, r.iface, r.major)}
      /\ Meant(snapshot, r).provider =
            {Meaning(x) : x \in ProviderIn(snapshot, r.pkg, r.iface, r.major)}
  BY DEF Meant
<1> QED
  BY <1>1, <1>3, <1>4, <1>5, <1>6

LEMMA ResourceKeepsMeaning ==
    ASSUME Good(snapshot), NEW b, BindingOK(b), ResourceHolds(b)
    PROVE  Meant(snapshot, b.target).resource = b.meant.resource
<1>1. PICK r : r = b.target
  OBVIOUS
<1>2. b.resource = r.resource
  BY <1>1 DEF BindingOK
<1>3. Meant(snapshot, r).resource =
          IF r.resource = NoResource THEN {}
          ELSE {Meaning(d) : d \in ByHandle(snapshot, r.resource[1])}
  BY DEF Meant
<1>4. CASE r.resource = NoResource
  BY <1>1, <1>3, <1>4 DEF BindingOK, Kept
<1>5. CASE r.resource # NoResource
  <2>1. PICK d : r.resource \in Claimed(snapshot, d, r.resource[1])
    BY <1>1, <1>2, <1>5 DEF ResourceHolds
  <2>2. PICK t \in ByHandle(snapshot, r.resource[1]) : r.resource[2] = t.generation
    BY <1>5, <2>1 DEF Claimed
  <2>3. ByHandle(snapshot, r.resource[1]) = {t}
    BY <2>2 DEF ByHandle, Good
  <2>4. b.meant.resource = {Meaning(t)}
    BY <1>1, <1>5, <2>2 DEF BindingOK, Kept
  <2> QED
    BY <1>1, <1>3, <1>5, <2>3, <2>4
<1> QED
  BY <1>4, <1>5

\* A route leads where the binding was made for (Module.Route and
\* Module.RouteEvent): whatever packages come, go and return, a binding that
\* routes has the contract, the provider, the resource and the manager of the
\* moment it was resolved, to an open connection, and its own package has what
\* the interface asks of it.
THEOREM RoutesKeepContracts == Spec => []RouteKeepsContract
<1>1. EndpointInv => RouteKeepsContract
  <2> SUFFICES ASSUME EndpointInv, NEW c \in Conn, NEW b \in bindings[c]
               PROVE  /\ Route(b) =>
                          /\ Meant(snapshot, b.target) = b.meant
                          /\ b.target.conn = None \/ conn[b.target.conn] \in Component
                          /\ \A d \in InterfaceIn(snapshot, b.target.iface, b.target.major) :
                                Allowed(snapshot, b.pkg, d.requires \cup d.calls)
                      /\ RouteEvent(b) =>
                          /\ Meant(snapshot, b.target).interface = b.meant.interface
                          /\ Meant(snapshot, b.target).provider = b.meant.provider
    BY DEF RouteKeepsContract
  <2>1. Good(snapshot) /\ BindingOK(b)
    BY DEF EndpointInv, CatalogsOK, BindingsOK
  <2>2. ASSUME RouteEvent(b)
        PROVE  /\ Meant(snapshot, b.target).interface = b.meant.interface
               /\ Meant(snapshot, b.target).provider = b.meant.provider
    BY <2>1, <2>2, BoundKeepsMeaning DEF RouteEvent
  <2>3. ASSUME Route(b)
        PROVE  /\ Meant(snapshot, b.target) = b.meant
               /\ b.target.conn = None \/ conn[b.target.conn] \in Component
               /\ \A d \in InterfaceIn(snapshot, b.target.iface, b.target.major) :
                     Allowed(snapshot, b.pkg, d.requires \cup d.calls)
    <3>1. PICK d \in InSnapshot(snapshot, b.target) : Allowed(snapshot, b.pkg, d.requires)
      BY <2>3 DEF Route, Bound
    <3>2. /\ b.target \in live
          /\ InterfaceIn(snapshot, b.target.iface, b.target.major) = {d}
      BY <2>1, <3>1, InSnapshotIs
    <3>3. Allowed(snapshot, b.pkg, d.calls)
      <4>1. PICK e \in InSnapshot(snapshot, b.target) : Allowed(snapshot, b.pkg, e.calls)
        BY <2>3 DEF Route
      <4>2. e = d
        BY <3>2, <4>1 DEF InSnapshot
      <4> QED
        BY <4>1, <4>2
    <3>4. Allowed(snapshot, b.pkg, d.requires \cup d.calls)
      BY <3>1, <3>3 DEF Allowed
    <3>5. b.target.conn = None \/ conn[b.target.conn] \in Component
      BY <3>2 DEF EndpointInv, RegistrationsOK
    <3>6. Meant(snapshot, b.target) = b.meant
      <4>1. /\ Meant(snapshot, b.target).interface = b.meant.interface
            /\ Meant(snapshot, b.target).provider = b.meant.provider
            /\ Meant(snapshot, b.target).resource = b.meant.resource
        BY <2>1, <2>3, BoundKeepsMeaning, ResourceKeepsMeaning DEF Route
      <4>2. \E i, p, r : b.meant = [interface |-> i, provider |-> p, resource |-> r]
        BY <2>1 DEF BindingOK
      <4> QED
        BY <4>1, <4>2 DEF Meant
    <3> QED
      BY <3>2, <3>4, <3>5, <3>6
  <2> QED
    BY <2>2, <2>3
<1> QED
  BY <1>1, EndpointInvariant, PTL

\* Every waiter of a start is in the queue of its component exactly until it
\* is woken or gives up, whoever registers, closes or times out
\* (tryOnDemandStart, RegisterEndpoint, removeWaiterLocked), and no
\* registration outlives its connection (Module.ConnClosed).
THEOREM QueuesAreExact == Spec => []QueueIsExact
<1>1. EndpointInv => QueueIsExact
  BY DEF EndpointInv
<1> QED
  BY <1>1, EndpointInvariant, PTL

LEMMA TargetsDoNotReturn ==
    ASSUME EndpointInv, [Next]_vars, NEW c \in Conn, NEW b \in bindings[c],
           b.target \in live'
    PROVE  b.target \in live
<1>1. conn[c] \in Component /\ Counted(b.target)
  BY DEF EndpointInv, BindingsOK, BindingOK
<1>2. CASE live' \subseteq live
  BY <1>2
<1>3. ASSUME NEW d \in Conn, CommitRegistration(d)
      PROVE  b.target \in live
  <2>1. handles[d].registration \in Nat
    BY DEF EndpointInv, ShapesOK
  <2>2. ASSUME b.target.conn = d, b.target.id = handles[d].registration + 1
        PROVE  FALSE
    BY <1>1, <2>1, <2>2, EndpointAssumption DEF Counted
  <2> QED
    BY <1>3, <2>2, CommitCounts
<1>4. ASSUME NEW id, NEW major, RegisterBuiltin(id, major)
      PROVE  FALSE
  <2>1. conn[c] = None
    BY <1>4 DEF RegisterBuiltin
  <2> QED
    BY <1>1, <2>1, ComponentAssumption
<1>5. CASE UNCHANGED vars
  BY <1>5 DEF vars, routes
<1>6. CASE Environment
  BY <1>6 DEF Environment, ReplaceEntries, PublishCatalog, SetConsent, SetEnabled, routes
<1>7. ASSUME NEW d \in Conn, Provide(d)
      PROVE  b.target \in live
  BY <1>3, <1>7 DEF Provide, CheckRegistration, UnregisterEndpoint, routes
<1>8. ASSUME NEW d \in Conn, Ask(d) \/ ConnClosed(d)
      PROVE  b.target \in live
  BY <1>8 DEF Ask, ResolveEndpoint, ConnClosed, routes
<1>9. ASSUME NEW d \in Conn, Resolve(d)
      PROVE  b.target \in live
  <2>1. UNCHANGED live
    BY <1>9 DEF Resolve, Look, Bind, Await, EnsureStarted, Wake, Timeout, routes
  <2> QED
    BY <2>1
<1>10. ASSUME NEW d \in Conn, NEW k \in Component, Open(d, k)
       PROVE  b.target \in live
  BY <1>10 DEF Open, routes
<1> QED
  BY <1>4, <1>5, <1>6, <1>7, <1>8, <1>9, <1>10 DEF Next, Builtins

LEMMA SnapshotSteps ==
    ASSUME EndpointInv, [Next]_vars
    PROVE  snapshot' = snapshot \/ Follows(snapshot, snapshot')
<1>1. CASE PublishCatalog
  BY <1>1, CatalogFollows
<1>2. CASE Environment /\ ~PublishCatalog
  BY <1>2 DEF Environment, ReplaceEntries, SetConsent, SetEnabled
<1>3. CASE UNCHANGED vars
  BY <1>3 DEF vars, catalog
<1>4. CASE Builtins
  BY <1>4 DEF Builtins, RegisterBuiltin, catalog
<1>5. ASSUME NEW d \in Conn, Provide(d)
      PROVE  snapshot' = snapshot
  BY <1>5 DEF Provide, CheckRegistration, CommitRegistration, UnregisterEndpoint, catalog
<1>6. ASSUME NEW d \in Conn, Ask(d) \/ ConnClosed(d)
      PROVE  snapshot' = snapshot
  BY <1>6 DEF Ask, ResolveEndpoint, ConnClosed, catalog
<1>7. ASSUME NEW d \in Conn, Resolve(d)
      PROVE  snapshot' = snapshot
  BY <1>7 DEF Resolve, Look, Await, EnsureStarted, Wake, Timeout, catalog
<1>8. ASSUME NEW d \in Conn, NEW k \in Component, Open(d, k)
      PROVE  snapshot' = snapshot
  BY <1>8 DEF Open, catalog
<1> QED
  BY <1>1, <1>2, <1>3, <1>4, <1>5, <1>6, <1>7, <1>8 DEF Next

\* What is found for a registration later was there before.
LEMMA FoundBefore ==
    ASSUME EndpointInv, [Next]_vars, NEW c \in Conn, NEW b \in bindings[c],
           NEW d \in InSnapshot(snapshot, b.target)'
    PROVE  d \in InSnapshot(snapshot, b.target)
<1>1. PICK r : r = b.target
  OBVIOUS
<1>2. d \in InSnapshot(snapshot, r)'
  BY <1>1
<1>3. /\ d \in InterfaceIn(snapshot', r.iface, r.major) /\ r \in live'
      /\ d.generation = r.definition
  BY <1>2 DEF InSnapshot
<1>4. PICK p \in ProviderIn(snapshot', r.pkg, r.iface, r.major) :
          p.component = r.component /\ p.generation = r.provider /\ p.definition = r.definition
  BY <1>2 DEF InSnapshot
<1>5. r \in live
  BY <1>1, <1>3, TargetsDoNotReturn
<1>6. Dated(snapshot, r) /\ Good(snapshot)
  BY <1>1 DEF EndpointInv, BindingsOK, BindingOK, CatalogsOK
<1>7. /\ d \in InterfaceIn(snapshot, r.iface, r.major)
      /\ p \in ProviderIn(snapshot, r.pkg, r.iface, r.major)
  <2>1. CASE snapshot' = snapshot
    BY <1>3, <1>4, <2>1
  <2>2. CASE Follows(snapshot, snapshot')
    <3>1. snapshot'.revision \notin Stamps(snapshot)
      BY <1>6, <2>2, StampsGrow
    <3> QED
      BY <1>3, <1>4, <1>6, <2>2, <3>1 DEF Follows, Dated, InterfaceIn, ProviderIn
  <2> QED
    BY <2>1, <2>2, SnapshotSteps
<1> QED
  BY <1>1, <1>3, <1>4, <1>5, <1>7 DEF InSnapshot

\* A binding that has lost its provider, its contract or its resource has lost
\* it for good: neither a new registration of the same interface nor the return
\* of the package's first version makes it route again
\* (registrationInSnapshot's comparison of generations).
THEOREM LostForGood == Spec => LostStaysLost
<1>1. ASSUME EndpointInv, [Next]_vars
      PROVE  \A c \in Conn : \A b \in bindings[c] \cap bindings'[c] : Lost(b) => Lost(b)'
  <2> SUFFICES ASSUME NEW c \in Conn, NEW b \in bindings[c], ~Lost(b)'
               PROVE  ~Lost(b)
    OBVIOUS
  <2>1. PICK d : /\ d \in InSnapshot(snapshot, b.target)'
                 /\ IF b.resource = NoResource THEN d.types = {}
                    ELSE b.resource \in Claimed(snapshot', d, b.resource[1])
    BY DEF Lost, ResourceHolds
  <2>2. d \in InSnapshot(snapshot, b.target)
    BY <1>1, <2>1, FoundBefore
  <2>3. /\ Good(snapshot)
        /\ b.resource # NoResource => b.resource[2] \in Stamps(snapshot)
    BY <1>1 DEF EndpointInv, CatalogsOK, BindingsOK, BindingOK, Dated
  <2>4. ASSUME b.resource # NoResource
        PROVE  b.resource \in Claimed(snapshot, d, b.resource[1])
    <3>1. CASE snapshot' = snapshot
      BY <2>1, <2>4, <3>1
    <3>2. CASE Follows(snapshot, snapshot')
      <4>1. PICK t \in ByHandle(snapshot', b.resource[1]) :
                /\ t.type \in d.types /\ b.resource = <<b.resource[1], t.generation>>
                /\ b.resource[1] # None
        BY <2>1, <2>4 DEF Claimed
      <4>2. snapshot'.revision \notin Stamps(snapshot)
        BY <2>3, <3>2, StampsGrow
      <4>3. t \in ByHandle(snapshot, b.resource[1])
        BY <2>3, <2>4, <3>2, <4>1, <4>2 DEF Follows, ByHandle
      <4> QED
        BY <4>1, <4>3 DEF Claimed
    <3> QED
      BY <1>1, <3>1, <3>2, SnapshotSteps
  <2> QED
    BY <2>1, <2>2, <2>4 DEF Lost, ResourceHolds
<1> QED
  BY <1>1, EndpointInvariant, PTL DEF Spec, LostStaysLost
=============================================================================
