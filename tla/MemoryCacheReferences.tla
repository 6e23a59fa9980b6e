------------------------ MODULE MemoryCacheReferences ------------------------
(***************************************************************************)
(* Proofs about who refers to whom in MemoryCache: the map and m_inCache   *)
(* agree, nobody refers to what was deleted, and clients are told.         *)
(***************************************************************************)
EXTENDS MemoryCacheProofs, FiniteSetTheorems

(***************************************************************************)
(* Heaps with fewer references.  What is deleted on the way is not needed. *)
(***************************************************************************)
Less(m, n) ==
    /\ n.at = m.at
    /\ n.inCache \subseteq m.inCache
    /\ n.error \subseteq m.error /\ n.loading \subseteq m.loading
    /\ \A u \in URLs : n.map[u] \in {m.map[u], None}
    /\ \A d \in Documents, u \in URLs : n.handle[d][u] \in {m.handle[d][u], None}
    /\ \A d \in Documents : n.preloads[d] \subseteq m.preloads[d]
    /\ \A r \in Resources :
          /\ n.clients[r] \subseteq m.clients[r]
          /\ n.request[r] \in {m.request[r], None}
          /\ n.revalidates[r] \in {m.revalidates[r], None}
          /\ n.proxy[r] \in {m.proxy[r], None}
          /\ n.response[r] \in {m.response[r], "none"}
          /\ r \in m.loading \ n.loading => CanDelete(n, r)
          /\ \/ n.life[r] = m.life[r]
             \/ n.life[r] = "deleted" /\ CanDelete(n, r) /\ r \notin n.inCache

SameMap(m, n) == n.at = m.at /\ n.map = m.map /\ n.inCache = m.inCache

LEMMA LessCanDelete ==
    ASSUME NEW m, NEW n, Less(m, n), NEW r \in Resources, CanDelete(m, r)
    PROVE  CanDelete(n, r)
<1>1. /\ n.clients[r] = {} /\ n.request[r] = None /\ n.revalidates[r] = None
      /\ n.proxy[r] = None
  BY DEF Less, CanDelete
<1>2. ~Preloaded(n, r)
  BY DEF Less, CanDelete, Preloaded
<1>3. ~HasHandles(n, r)
  BY NoneAssumption DEF Less, CanDelete, HasHandles
<1> QED  BY <1>1, <1>2, <1>3 DEF CanDelete

LEMMA LessTransitive ==
    ASSUME NEW m, NEW n, NEW k, Less(m, n), Less(n, k)
    PROVE  Less(m, k)
<1>1. \A r \in Resources : CanDelete(n, r) => CanDelete(k, r)
  BY LessCanDelete
<1>2. /\ k.at = m.at /\ k.inCache \subseteq m.inCache
      /\ k.error \subseteq m.error /\ k.loading \subseteq m.loading
      /\ \A u \in URLs : k.map[u] \in {m.map[u], None}
      /\ \A d \in Documents, u \in URLs : k.handle[d][u] \in {m.handle[d][u], None}
      /\ \A d \in Documents : k.preloads[d] \subseteq m.preloads[d]
  BY DEF Less
<1>3. ASSUME NEW r \in Resources
      PROVE  /\ k.clients[r] \subseteq m.clients[r]
             /\ k.request[r] \in {m.request[r], None}
             /\ k.revalidates[r] \in {m.revalidates[r], None}
             /\ k.proxy[r] \in {m.proxy[r], None}
             /\ k.response[r] \in {m.response[r], "none"}
             /\ r \in m.loading \ k.loading => CanDelete(k, r)
  BY <1>1 DEF Less
<1>4. ASSUME NEW r \in Resources
      PROVE  \/ k.life[r] = m.life[r]
             \/ k.life[r] = "deleted" /\ CanDelete(k, r) /\ r \notin k.inCache
  BY <1>1 DEF Less
<1> QED  BY <1>2, <1>3, <1>4 DEF Less

\* A heap that differs in what `Drops' compares has fewer references.
Drops(m, n) ==
    /\ SameMap(m, n)
    /\ n.life = m.life /\ n.loading = m.loading /\ n.error = m.error
    /\ n.response = m.response
    /\ \A d \in Documents, u \in URLs : n.handle[d][u] \in {m.handle[d][u], None}
    /\ \A d \in Documents : n.preloads[d] \subseteq m.preloads[d]
    /\ \A r \in Resources :
          /\ n.clients[r] \subseteq m.clients[r]
          /\ n.request[r] \in {m.request[r], None}
          /\ n.revalidates[r] \in {m.revalidates[r], None}
          /\ n.proxy[r] \in {m.proxy[r], None}

LEMMA DropsLess ==
    ASSUME NEW m, NEW n, Drops(m, n)
    PROVE  Less(m, n)
BY DEF Drops, Less, SameMap

\* What is needed, or not in S, is left as it was.
Spared(m, n, S) ==
    \A r \in Resources : r \notin S \/ ~CanDelete(m, r) =>
        /\ n.life[r] = m.life[r] /\ n.response[r] = m.response[r]
        /\ r \in n.loading <=> r \in m.loading
        /\ r \in n.error <=> r \in m.error

(***************************************************************************)
(* The operations that delete.                                             *)
(***************************************************************************)
LEMMA DeleteLess ==
    ASSUME NEW m \in Memory, NEW S,
           \A r \in Resources : r \in S => CanDelete(m, r) /\ r \notin m.inCache
    PROVE  LET d == Delete(m, S) IN Less(m, d) /\ SameMap(m, d)
<1> DEFINE d == Delete(m, S)
<1>1. /\ SameReasons(m, d) /\ d.inCache = m.inCache /\ d.map = m.map /\ d.at = m.at
      /\ d.life = [r \in Resources |-> IF r \in S THEN "deleted" ELSE m.life[r]]
  BY DeleteEffect
<1>2. /\ d.loading = m.loading \ S /\ d.error = m.error \ S
      /\ d.response = [r \in Resources |-> IF r \in S THEN "none" ELSE m.response[r]]
  BY DEF Delete, Memory
<1> HIDE DEF d
<1>3. \A r \in Resources : CanDelete(d, r) = CanDelete(m, r)
  BY <1>1, SameCanDelete
<1>4. ASSUME NEW r \in Resources
      PROVE  /\ d.response[r] \in {m.response[r], "none"}
             /\ r \in m.loading \ d.loading => CanDelete(d, r)
             /\ \/ d.life[r] = m.life[r]
                \/ d.life[r] = "deleted" /\ CanDelete(d, r) /\ r \notin d.inCache
  BY <1>1, <1>2, <1>3
<1>5. Less(m, d)
  BY <1>1, <1>2, <1>4 DEF Less, SameReasons
<1> QED  BY <1>1, <1>5 DEF SameMap, d

LEMMA DeleteIfPossibleLess ==
    ASSUME NEW m \in Memory, NEW S
    PROVE  LET d == DeleteIfPossible(m, S)
           IN /\ d \in Memory /\ Less(m, d) /\ SameMap(m, d) /\ SameReasons(m, d)
              /\ Spared(m, d, S)
<1> DEFINE gone == {r \in S \ m.inCache : CanDelete(m, r)}
<1>1. \A r \in Resources : r \in gone => CanDelete(m, r) /\ r \notin m.inCache
  OBVIOUS
<1>2. DeleteIfPossible(m, S) = Delete(m, gone)
  BY DEF DeleteIfPossible
<1>s. \A r \in gone : r \in S /\ CanDelete(m, r)
  OBVIOUS
<1> HIDE DEF gone
<1>3. Less(m, Delete(m, gone)) /\ SameMap(m, Delete(m, gone))
  BY <1>1, DeleteLess
<1>4. Delete(m, gone) \in Memory /\ SameReasons(m, Delete(m, gone))
  BY DeleteEffect
<1>5. Spared(m, Delete(m, gone), S)
  BY <1>s DEF Delete, Memory, Spared
<1> QED  BY <1>2, <1>3, <1>4, <1>5

\* evict takes the entries of the evicted resources' URLs from the map.
Unmapped(m, S, u) == \E r \in S \cap m.inCache : m.at[r] = u

LEMMA EvictLess ==
    ASSUME NEW m \in Memory, NEW S
    PROVE  LET d == Evict(m, S)
           IN /\ d \in Memory /\ Less(m, d) /\ SameReasons(m, d) /\ Spared(m, d, S)
              /\ d.inCache = m.inCache \ S
              /\ \A u \in URLs : d.map[u] = IF Unmapped(m, S, u) THEN None ELSE m.map[u]
<1> DEFINE out == S \cap m.inCache
           names == [u \in URLs |-> IF \E r \in out : m.at[r] = u THEN None ELSE m.map[u]]
           m1 == [m EXCEPT !.inCache = @ \ out, !.map = names]
           gone == {r \in S : CanDelete(m1, r)}
<1>0. /\ names \in [URLs -> Resources \cup {None}]
      /\ \A u \in URLs : names[u] = IF Unmapped(m, S, u) THEN None ELSE m.map[u]
  BY DEF Memory, Unmapped
<1>2. Evict(m, S) = Delete(m1, gone)
  BY DEF Evict
<1> HIDE DEF names
<1>1. /\ m1 \in Memory /\ SameReasons(m, m1) /\ m1.inCache = m.inCache \ S
      /\ m1.life = m.life /\ m1.at = m.at /\ m1.loading = m.loading
      /\ m1.error = m.error /\ m1.response = m.response
      /\ \A u \in URLs : m1.map[u] = IF Unmapped(m, S, u) THEN None ELSE m.map[u]
  BY <1>0 DEF Memory, SameReasons
<1> HIDE DEF m1
<1>3. Less(m, m1)
  BY <1>1 DEF Less, SameReasons
<1>4. \A r \in Resources : r \in gone => CanDelete(m1, r) /\ r \notin m1.inCache
  BY <1>1
<1>s. \A r \in Resources : r \in gone => r \in S /\ CanDelete(m, r)
  BY <1>1, SameCanDelete
<1> HIDE DEF gone
<1>5. Less(m1, Delete(m1, gone)) /\ SameMap(m1, Delete(m1, gone))
  BY <1>1, <1>4, DeleteLess
<1>6. Delete(m1, gone) \in Memory /\ SameReasons(m1, Delete(m1, gone))
  BY <1>1, DeleteEffect
<1>7. Less(m, Delete(m1, gone))
  BY <1>3, <1>5, LessTransitive
<1>8. Spared(m1, Delete(m1, gone), S)
  BY <1>1, <1>s, SameCanDelete DEF Delete, Memory, Spared
<1>9. Spared(m, Delete(m1, gone), S)
  BY <1>1, <1>8, SameCanDelete DEF Spared
<1> QED  BY <1>1, <1>2, <1>5, <1>6, <1>7, <1>9 DEF SameMap, SameReasons

LEMMA EndRequestLess ==
    ASSUME NEW m \in Memory, NEW r \in Resources
    PROVE  LET d == EndRequest(m, r)
           IN /\ d \in Memory /\ Less(m, d) /\ SameMap(m, d)
              /\ d.request = [m.request EXCEPT ![r] = None]
              /\ d.clients = m.clients /\ d.handle = m.handle /\ d.preloads = m.preloads
              /\ d.revalidates = m.revalidates /\ d.proxy = m.proxy
<1> DEFINE a == [m EXCEPT !.request[r] = None]
<1>1. /\ a \in Memory /\ Drops(m, a)
      /\ a.request = [m.request EXCEPT ![r] = None]
      /\ a.clients = m.clients /\ a.handle = m.handle /\ a.preloads = m.preloads
      /\ a.revalidates = m.revalidates /\ a.proxy = m.proxy
  BY DEF Memory, Drops, SameMap
<1> HIDE DEF a
<1> DEFINE d == DeleteIfPossible(a, {r})
<1>2. d \in Memory /\ Less(a, d) /\ SameMap(a, d) /\ SameReasons(a, d)
  BY <1>1, DeleteIfPossibleLess
<1>3. EndRequest(m, r) = d
  BY DEF EndRequest, a
<1> HIDE DEF d
<1>4. Less(m, d)
  BY <1>1, <1>2, DropsLess, LessTransitive
<1>5. SameMap(m, d)
  BY <1>1, <1>2 DEF SameMap, Drops
<1> QED  BY <1>1, <1>2, <1>3, <1>4, <1>5 DEF SameReasons

LEMMA ClearRevalidationLess ==
    ASSUME NEW m \in Memory, NEW n \in Resources, m.revalidates[n] # None
    PROVE  LET d == ClearRevalidation(m, n)
               r == m.revalidates[n]
           IN /\ d \in Memory /\ Less(m, d) /\ SameMap(m, d)
              /\ d.request = m.request
              /\ d.clients = m.clients /\ d.handle = m.handle /\ d.preloads = m.preloads
              /\ d.revalidates = [m.revalidates EXCEPT ![n] = None]
              /\ d.proxy = IF m.proxy[r] = n THEN [m.proxy EXCEPT ![r] = None] ELSE m.proxy
<1> DEFINE r == m.revalidates[n]
           a == [m EXCEPT !.proxy[r] = None]
           m1 == IF m.proxy[r] = n THEN DeleteIfPossible(a, {r}) ELSE m
           b == [m1 EXCEPT !.revalidates[n] = None]
           d == DeleteIfPossible(b, {n})
<1>0. r \in Resources
  BY DEF Memory
<1>1. /\ a \in Memory /\ Drops(m, a)
      /\ a.request = m.request
      /\ a.clients = m.clients /\ a.handle = m.handle /\ a.preloads = m.preloads
      /\ a.revalidates = m.revalidates /\ a.proxy = [m.proxy EXCEPT ![r] = None]
  <2> HIDE DEF r
  <2> QED  BY <1>0 DEF Memory, Drops, SameMap
<1> HIDE DEF a
<1>2. LET x == DeleteIfPossible(a, {r})
      IN x \in Memory /\ Less(a, x) /\ SameMap(a, x) /\ SameReasons(a, x)
  BY <1>1, DeleteIfPossibleLess
<1>3. LET x == DeleteIfPossible(a, {r}) IN Less(m, x)
  BY <1>1, <1>2, DropsLess, LessTransitive
<1>l. Less(m, m)
  BY DEF Less
<1>4. /\ m1 \in Memory /\ Less(m, m1) /\ SameMap(m, m1)
      /\ m1.request = m.request
      /\ m1.clients = m.clients /\ m1.handle = m.handle /\ m1.preloads = m.preloads
      /\ m1.revalidates = m.revalidates
      /\ m1.proxy = IF m.proxy[r] = n THEN [m.proxy EXCEPT ![r] = None] ELSE m.proxy
  BY <1>1, <1>2, <1>3, <1>l DEF SameReasons, SameMap, Drops
<1> HIDE DEF m1
<1>5. /\ b \in Memory /\ Drops(m1, b)
      /\ b.request = m1.request
      /\ b.clients = m1.clients /\ b.handle = m1.handle /\ b.preloads = m1.preloads
      /\ b.proxy = m1.proxy /\ b.revalidates = [m1.revalidates EXCEPT ![n] = None]
  BY <1>4 DEF Memory, Drops, SameMap
<1> HIDE DEF b
<1>6. d \in Memory /\ Less(b, d) /\ SameMap(b, d) /\ SameReasons(b, d)
  BY <1>5, DeleteIfPossibleLess
<1>7. ClearRevalidation(m, n) = d
  BY DEF ClearRevalidation, a, m1, b
<1> HIDE DEF d
<1>8. Less(m, d)
  BY <1>4, <1>5, <1>6, DropsLess, LessTransitive
<1>9. SameMap(m, d)
  BY <1>4, <1>5, <1>6 DEF SameMap, Drops
<1> HIDE DEF r
<1>a. /\ d.request = m.request
      /\ d.clients = m.clients /\ d.handle = m.handle /\ d.preloads = m.preloads
      /\ d.revalidates = [m.revalidates EXCEPT ![n] = None]
      /\ d.proxy = IF m.proxy[r] = n THEN [m.proxy EXCEPT ![r] = None] ELSE m.proxy
  BY <1>4, <1>5, <1>6 DEF SameReasons
<1> QED  BY <1>6, <1>7, <1>8, <1>9, <1>a DEF r

LEMMA RevalidationFailedLess ==
    ASSUME NEW m \in Memory, NEW n \in Resources
    PROVE  LET d == RevalidationFailed(m, n)
           IN /\ d \in Memory /\ Less(m, d) /\ SameMap(m, d)
              /\ d.request = m.request
              /\ d.clients = m.clients /\ d.handle = m.handle /\ d.preloads = m.preloads
              /\ d.revalidates = [m.revalidates EXCEPT ![n] = None]
              /\ m.revalidates[n] = None => d = m
<1>1. CASE m.revalidates[n] # None
  BY <1>1, ClearRevalidationLess DEF RevalidationFailed
<1>2. CASE m.revalidates[n] = None
  <2>1. Less(m, m) /\ SameMap(m, m)
    BY DEF Less, SameMap
  <2>2. m.revalidates = [m.revalidates EXCEPT ![n] = None]
    BY <1>2 DEF Memory
  <2> QED  BY <1>2, <2>1, <2>2 DEF RevalidationFailed
<1> QED  BY <1>1, <1>2

LEMMA WithoutPreloadsLess ==
    ASSUME NEW m \in Memory, NEW d \in Documents
    PROVE  \E k \in Memory, G \in SUBSET Resources :
              /\ Less(m, k) /\ SameMap(m, k)
              /\ k.request = m.request /\ k.clients = m.clients /\ k.handle = m.handle
              /\ k.revalidates = m.revalidates /\ k.proxy = m.proxy
              /\ G \subseteq m.preloads[d]
              /\ WithoutPreloads(m, d) = Evict(k, G)
<1> DEFINE S == m.preloads[d]
           a == [m EXCEPT !.preloads[d] = {}]
           k == DeleteIfPossible(a, S)
           G == {r \in S : k.life[r] = "alive" /\ r \notin m.referenced}
<1>1. /\ a \in Memory /\ Drops(m, a)
      /\ a.request = m.request /\ a.clients = m.clients /\ a.handle = m.handle
      /\ a.revalidates = m.revalidates /\ a.proxy = m.proxy
  BY DEF Memory, Drops, SameMap
<1>2. WithoutPreloads(m, d) = Evict(k, G) /\ G \subseteq m.preloads[d]
  BY DEF WithoutPreloads
<1> HIDE DEF a, S
<1>3. k \in Memory /\ Less(a, k) /\ SameMap(a, k) /\ SameReasons(a, k)
  BY <1>1, DeleteIfPossibleLess
<1> HIDE DEF k, G
<1>4. Less(m, k)
  BY <1>1, <1>3, DropsLess, LessTransitive
<1>5. /\ SameMap(m, k)
      /\ k.request = m.request /\ k.clients = m.clients /\ k.handle = m.handle
      /\ k.revalidates = m.revalidates /\ k.proxy = m.proxy
  BY <1>1, <1>3 DEF Drops, SameMap, SameReasons
<1>6. G \subseteq m.preloads[d] /\ m.preloads[d] \subseteq Resources
  BY <1>2 DEF Memory
<1> QED  BY <1>2, <1>3, <1>4, <1>5, <1>6

(***************************************************************************)
(* Heaps with more references to one resource.                             *)
(***************************************************************************)
Reasons(m, n, r) ==
    /\ n.request = m.request /\ n.revalidates = m.revalidates /\ n.proxy = m.proxy
    /\ \A d \in Documents, u \in URLs : n.handle[d][u] \in {m.handle[d][u], r, None}
    /\ \A d \in Documents : n.preloads[d] \subseteq m.preloads[d] \cup {r}
    /\ \A x \in Resources \ {r} : n.clients[x] \subseteq m.clients[x]

Wants(m, n, r) ==
    /\ SameMap(m, n)
    /\ n.life = m.life /\ n.loading = m.loading /\ n.error = m.error
    /\ n.response = m.response
    /\ Reasons(m, n, r)

LEMMA ReasonsCanDelete ==
    ASSUME NEW m, NEW n, NEW r, Reasons(m, n, r), NEW x \in Resources \ {r}, CanDelete(m, x)
    PROVE  CanDelete(n, x)
<1>1. /\ n.clients[x] = {} /\ n.request[x] = None /\ n.revalidates[x] = None
      /\ n.proxy[x] = None
  BY DEF Reasons, CanDelete
<1>2. ~Preloaded(n, x)
  BY DEF Reasons, CanDelete, Preloaded
<1>3. ~HasHandles(n, x)
  BY NoneAssumption DEF Reasons, CanDelete, HasHandles
<1> QED  BY <1>1, <1>2, <1>3 DEF CanDelete

LEMMA GiveWants ==
    ASSUME NEW m \in Memory, NEW d \in Documents, NEW u \in URLs, NEW r \in Resources,
           NEW preload
    PROVE  LET g == Give(m, d, u, r, preload)
           IN /\ g \in Memory
              /\ \E a : Wants(m, a, r) /\ Less(a, g)
              /\ SameMap(m, g)
              /\ g.request = m.request /\ g.clients = m.clients
              /\ g.revalidates = m.revalidates /\ g.proxy = m.proxy
              /\ \A x \in Resources : Preloaded(g, x) => Preloaded(m, x) \/ (preload /\ x = r)
<1> DEFINE h == [m EXCEPT !.handle[d][u] = r]
           old == m.handle[d][u]
           S == {old} \ {None, r}
           m1 == DeleteIfPossible(h, S)
           more == [m1.preloads EXCEPT ![d] = @ \cup {r}]
           e == [m1 EXCEPT !.preloads[d] = @ \cup {r}]
           k == [h EXCEPT !.preloads[d] = @ \cup {r}]
<1>1. /\ h \in Memory /\ Wants(m, h, r)
      /\ h.clients = m.clients /\ h.preloads = m.preloads
  <2>1. [m.handle EXCEPT ![d][u] = r] \in [Documents -> [URLs -> Resources \cup {None}]]
    BY DEF Memory
  <2>2. /\ h \in Memory /\ h.clients = m.clients /\ h.preloads = m.preloads
        /\ h.handle = [m.handle EXCEPT ![d][u] = r]
        /\ SameMap(m, h)
        /\ h.life = m.life /\ h.loading = m.loading /\ h.error = m.error
        /\ h.response = m.response /\ h.request = m.request
        /\ h.revalidates = m.revalidates /\ h.proxy = m.proxy
    BY <2>1 DEF Memory, SameMap
  <2> HIDE DEF h
  <2>3. \A b \in Documents, v \in URLs : h.handle[b][v] \in {m.handle[b][v], r, None}
    BY <2>2 DEF Memory
  <2> QED  BY <2>2, <2>3 DEF Wants, Reasons
<1>2. SetHandle(m, d, u, r) = m1
  BY DEF SetHandle
<1>k. /\ k.at = h.at /\ k.map = h.map /\ k.inCache = h.inCache /\ k.life = h.life
      /\ k.loading = h.loading /\ k.error = h.error /\ k.response = h.response
      /\ k.request = h.request /\ k.revalidates = h.revalidates /\ k.proxy = h.proxy
      /\ k.handle = h.handle /\ k.clients = h.clients
      /\ k.preloads = [h.preloads EXCEPT ![d] = @ \cup {r}]
  <2> HIDE DEF h
  <2> QED  BY <1>1 DEF Memory
<1> HIDE DEF h, k
<1>s. r \notin S
  OBVIOUS
<1> HIDE DEF S
<1>3. /\ m1 \in Memory /\ Less(h, m1) /\ SameMap(h, m1) /\ SameReasons(h, m1)
      /\ m1.life[r] = h.life[r] /\ (r \in h.loading => r \in m1.loading)
  BY <1>1, <1>s, DeleteIfPossibleLess DEF Spared
<1> HIDE DEF m1
<1>4. more \in [Documents -> SUBSET Resources] /\ more[d] = m1.preloads[d] \cup {r}
      /\ \A b \in Documents : b # d => more[b] = m1.preloads[b]
  BY <1>3 DEF Memory
<1>5. /\ e \in Memory /\ SameMap(m1, e) /\ e.life = m1.life /\ e.loading = m1.loading
      /\ e.error = m1.error /\ e.response = m1.response
      /\ e.request = m1.request /\ e.clients = m1.clients
      /\ e.revalidates = m1.revalidates /\ e.proxy = m1.proxy
      /\ e.handle = m1.handle /\ e.preloads = more
  <2> HIDE DEF more
  <2>1. e = [m1 EXCEPT !.preloads = more]
    BY DEF more
  <2> HIDE DEF e
  <2> QED  BY <1>3, <1>4, <2>1 DEF Memory, SameMap
<1> HIDE DEF e, more
<1>6. Wants(m, k, r)
  <2>1. \A b \in Documents : k.preloads[b] \subseteq m.preloads[b] \cup {r}
    BY <1>1, <1>k DEF Memory
  <2> QED  BY <1>1, <1>k, <2>1 DEF Wants, Reasons, SameMap
<1>7. Less(k, e)
  <2>1. ASSUME NEW x \in Resources \ {r}, CanDelete(m1, x) PROVE CanDelete(e, x)
    BY <1>4, <1>5, <2>1 DEF CanDelete, Preloaded, HasHandles
  <2>2. \A b \in Documents : e.preloads[b] \subseteq k.preloads[b]
    BY <1>1, <1>k, <1>3, <1>4, <1>5 DEF SameReasons, Memory
  <2>3. ASSUME NEW x \in Resources
        PROVE  /\ e.clients[x] \subseteq k.clients[x]
               /\ e.request[x] \in {k.request[x], None}
               /\ e.revalidates[x] \in {k.revalidates[x], None}
               /\ e.proxy[x] \in {k.proxy[x], None}
               /\ e.response[x] \in {k.response[x], "none"}
               /\ x \in k.loading \ e.loading => CanDelete(e, x)
               /\ \/ e.life[x] = k.life[x]
                  \/ e.life[x] = "deleted" /\ CanDelete(e, x) /\ x \notin e.inCache
    BY <1>k, <1>3, <1>5, <2>1 DEF Less, SameMap
  <2> QED  BY <1>k, <1>3, <1>5, <2>2, <2>3 DEF Less, SameMap, SameReasons
<1>8. CASE preload
  <2>1. Give(m, d, u, r, preload) = e
    BY <1>2, <1>8 DEF Give, e
  <2>2. ASSUME NEW x \in Resources, Preloaded(e, x) PROVE Preloaded(m, x) \/ x = r
    BY <1>1, <1>3, <1>4, <1>5, <2>2 DEF Preloaded, SameReasons
  <2>3. SameMap(m, e)
    BY <1>1, <1>3, <1>5 DEF SameMap, Wants, Reasons
  <2> QED  BY <1>1, <1>3, <1>5, <1>6, <1>7, <1>8, <2>1, <2>2, <2>3 DEF SameReasons, Wants, Reasons
<1>9. CASE ~preload
  <2>1. Give(m, d, u, r, preload) = m1
    BY <1>2, <1>9 DEF Give
  <2>2. SameMap(m, m1)
    BY <1>1, <1>3 DEF SameMap, Wants, Reasons
  <2>3. \A x \in Resources : Preloaded(m1, x) => Preloaded(m, x)
    BY <1>1, <1>3 DEF Preloaded, SameReasons
  <2> QED  BY <1>1, <1>3, <2>1, <2>2, <2>3 DEF SameReasons, Wants, Reasons
<1> QED  BY <1>8, <1>9

(***************************************************************************)
(* New resources.                                                          *)
(***************************************************************************)
Creates(m, c, n, u, d) ==
    /\ c.life = [m.life EXCEPT ![n] = "alive"]
    /\ c.at = [m.at EXCEPT ![n] = u]
    /\ c.inCache = m.inCache \cup {n}
    /\ c.request = [m.request EXCEPT ![n] = d]
    /\ c.map = m.map /\ c.loading = m.loading /\ c.error = m.error
    /\ c.response = m.response /\ c.clients = m.clients
    /\ c.revalidates = m.revalidates /\ c.proxy = m.proxy
    /\ c.handle = m.handle /\ c.preloads = m.preloads

LEMMA CreateFields ==
    ASSUME NEW m \in Memory, NEW n \in Resources, NEW u \in URLs, NEW d \in Documents
    PROVE  Create(m, n, u, d) \in Memory /\ Creates(m, Create(m, n, u, d), n, u, d)
BY DEF Create, Memory, Creates

Validates(m, e, n, r, d) ==
    /\ e.life = [m.life EXCEPT ![n] = "alive"]
    /\ e.at = [m.at EXCEPT ![n] = m.at[r]]
    /\ e.inCache = (m.inCache \ {r}) \cup {n}
    /\ e.map = [m.map EXCEPT ![m.at[r]] = n]
    /\ e.request = [m.request EXCEPT ![n] = d]
    /\ e.loading = m.loading /\ e.error = m.error
    /\ e.response = m.response /\ e.clients = m.clients
    /\ e.revalidates = [m.revalidates EXCEPT ![n] = r]
    /\ e.proxy = [m.proxy EXCEPT ![r] = n]
    /\ e.handle = m.handle /\ e.preloads = m.preloads

LEMMA CreateValidatorFields ==
    ASSUME NEW m \in Memory, NEW n \in Resources, NEW r \in Resources, r \in m.inCache,
           NEW d \in Documents, n # r
    PROVE  /\ CreateValidator(m, n, r, d) \in Memory
           /\ Validates(m, CreateValidator(m, n, r, d), n, r, d)
<1> DEFINE u == m.at[r]
           a == [m EXCEPT !.revalidates[n] = r, !.proxy[r] = n]
           b == Evict(a, {r})
           c == Create(b, n, u, d)
           e == [c EXCEPT !.map[u] = n]
<1>0. r \in Resources /\ u \in URLs
  BY DEF Memory
<1> HIDE DEF u
<1>1. /\ a \in Memory /\ a.life = m.life /\ a.at = m.at /\ a.inCache = m.inCache
      /\ a.map = m.map /\ a.request = m.request /\ a.loading = m.loading
      /\ a.error = m.error /\ a.response = m.response /\ a.clients = m.clients
      /\ a.revalidates = [m.revalidates EXCEPT ![n] = r]
      /\ a.proxy = [m.proxy EXCEPT ![r] = n]
      /\ a.handle = m.handle /\ a.preloads = m.preloads
  BY <1>0 DEF Memory
<1>2. CreateValidator(m, n, r, d) = e
  BY DEF CreateValidator, u
<1> HIDE DEF a
<1>3. /\ b \in Memory /\ SameReasons(a, b) /\ Spared(a, b, {r}) /\ Less(a, b)
      /\ b.inCache = a.inCache \ {r}
      /\ \A v \in URLs : b.map[v] = IF Unmapped(a, {r}, v) THEN None ELSE a.map[v]
  BY <1>1, EvictLess
<1>4. c \in Memory /\ e \in Memory
  <2> HIDE DEF b
  <2>1. c \in Memory
    BY <1>0, <1>3, CreateFields
  <2> HIDE DEF c
  <2> QED  BY <1>0, <2>1 DEF Memory
<1>5. ~CanDelete(a, r)
  BY <1>0, <1>1, NoneAssumption DEF CanDelete, Memory
<1>6. /\ b.life = a.life /\ b.response = a.response
      /\ b.loading = a.loading /\ b.error = a.error
  <2> HIDE DEF b
  <2>1. \A x \in Resources : /\ b.life[x] = a.life[x] /\ b.response[x] = a.response[x]
                             /\ x \in b.loading <=> x \in a.loading
                             /\ x \in b.error <=> x \in a.error
    BY <1>3, <1>5 DEF Spared
  <2>2. /\ \A f \in {a.life, b.life} : f \in [Resources -> {"unused", "alive", "deleted"}]
        /\ \A f \in {a.response, b.response} : f \in [Resources -> Answers \cup {"none"}]
        /\ {a.loading, b.loading, a.error, b.error} \subseteq SUBSET Resources
    BY <1>1, <1>3 DEF Memory
  <2>3. b.life = a.life
    BY <2>1, <2>2
  <2>4. b.response = a.response
    BY <2>1, <2>2
  <2> QED  BY <2>1, <2>2, <2>3, <2>4
<1> HIDE DEF b
<1>7. Creates(b, c, n, u, d)
  BY <1>0, <1>3, CreateFields
<1> HIDE DEF c
<1>8. /\ e.map = [c.map EXCEPT ![u] = n]
      /\ e.life = c.life /\ e.at = c.at /\ e.inCache = c.inCache /\ e.request = c.request
      /\ e.loading = c.loading /\ e.error = c.error
      /\ e.response = c.response /\ e.clients = c.clients
      /\ e.revalidates = c.revalidates /\ e.proxy = c.proxy
      /\ e.handle = c.handle /\ e.preloads = c.preloads
  BY <1>4 DEF Memory
<1> HIDE DEF e
<1>9. [c.map EXCEPT ![u] = n] = [m.map EXCEPT ![u] = n]
  <2>1. \A v \in URLs : Unmapped(a, {r}, v) <=> v = u
    BY <1>0, <1>1 DEF Unmapped, u
  <2>2. \A v \in URLs : v # u => c.map[v] = m.map[v]
    BY <1>1, <1>3, <1>7, <2>1 DEF Creates
  <2>3. c.map \in [URLs -> Resources \cup {None}] /\ m.map \in [URLs -> Resources \cup {None}]
    BY <1>4 DEF Memory
  <2> QED  BY <2>2, <2>3
<1>a. e.map = [m.map EXCEPT ![u] = n]
  BY <1>8, <1>9
<1>b. /\ e.life = [m.life EXCEPT ![n] = "alive"]
      /\ e.at = [m.at EXCEPT ![n] = u]
      /\ e.inCache = (m.inCache \ {r}) \cup {n}
      /\ e.request = [m.request EXCEPT ![n] = d]
  BY <1>1, <1>3, <1>6, <1>7, <1>8 DEF Creates, SameReasons, Less
<1>c. /\ e.loading = m.loading /\ e.error = m.error
      /\ e.response = m.response /\ e.clients = m.clients
      /\ e.revalidates = [m.revalidates EXCEPT ![n] = r]
      /\ e.proxy = [m.proxy EXCEPT ![r] = n]
      /\ e.handle = m.handle /\ e.preloads = m.preloads
  BY <1>1, <1>3, <1>6, <1>7, <1>8 DEF Creates, SameReasons
<1> QED  BY <1>2, <1>4, <1>a, <1>b, <1>c DEF u, Validates

(***************************************************************************)
(* What holds whatever the policies and the embedder: the map names cached *)
(* resources by their URLs, and nobody refers to what was never created.   *)
(***************************************************************************)
Named(m) ==
    \A u \in URLs : m.map[u] # None => m.map[u] \in m.inCache /\ m.at[m.map[u]] = u

Fresh(m) ==
    \A r \in Resources : m.life[r] = "unused" =>
        /\ CanDelete(m, r)
        /\ r \notin m.inCache /\ r \notin m.loading /\ r \notin m.error
        /\ m.response[r] = "none"
        /\ \A x \in Resources : m.revalidates[x] # r /\ m.proxy[x] # r

Sound(m) == m \in Memory /\ Named(m) /\ Fresh(m)

\* No URL and no validator leads to r.
Forgotten(m, r) ==
    /\ \A u \in URLs : m.map[u] # r
    /\ \A x \in Resources : m.revalidates[x] # r

\* What a resource keeps once it is created.
Persists(m, n) ==
    \A r \in Resources : m.life[r] # "unused" =>
        /\ n.life[r] # "unused" /\ n.at[r] = m.at[r]
        /\ n.revalidates[r] \in {m.revalidates[r], None}
        /\ n.request[r] \in {m.request[r], None}
        /\ Forgotten(m, r) => Forgotten(n, r)

Onto(m, n) == Sound(n) /\ Persists(m, n)

LEMMA OntoTransitive ==
    ASSUME NEW m, NEW n, NEW k, Onto(m, n), Onto(n, k)
    PROVE  Onto(m, k)
BY DEF Onto, Persists, Forgotten

LEMMA OntoSame == \A m : Sound(m) => Onto(m, m)
BY DEF Onto, Persists, Forgotten

LEMMA LessForgotten ==
    ASSUME NEW m, NEW n, Less(m, n), NEW r \in Resources, Forgotten(m, r)
    PROVE  Forgotten(n, r)
BY NoneAssumption DEF Less, Forgotten

LEMMA LessOnto ==
    ASSUME NEW m, Sound(m), NEW n \in Memory, Less(m, n), Named(n)
    PROVE  Onto(m, n)
<1>1. Fresh(n)
  <2>1. ASSUME NEW r \in Resources, n.life[r] = "unused" PROVE m.life[r] = "unused"
    BY <2>1 DEF Less
  <2>2. ASSUME NEW r \in Resources, m.life[r] = "unused", NEW x \in Resources
        PROVE  n.revalidates[x] # r /\ n.proxy[x] # r
    BY <2>2, NoneAssumption DEF Less, Sound, Fresh
  <2>3. ASSUME NEW r \in Resources, m.life[r] = "unused"
        PROVE  /\ CanDelete(n, r)
               /\ r \notin n.inCache /\ r \notin n.loading /\ r \notin n.error
             /\ n.response[r] = "none"
               /\ n.response[r] = "none"
    BY <2>3, LessCanDelete DEF Less, Sound, Fresh
  <2> QED  BY <2>1, <2>2, <2>3 DEF Fresh
<1>2. Persists(m, n)
  BY LessForgotten DEF Less, Persists
<1> QED  BY <1>1, <1>2 DEF Onto, Sound

LEMMA SameMapNamed ==
    ASSUME NEW m, NEW n, Named(m), SameMap(m, n)
    PROVE  Named(n)
BY DEF Named, SameMap

LEMMA EvictOnto ==
    ASSUME NEW m, Sound(m), NEW S
    PROVE  Onto(m, Evict(m, S))
<1> DEFINE d == Evict(m, S)
<1>1. /\ d \in Memory /\ Less(m, d)
      /\ d.inCache = m.inCache \ S
      /\ \A u \in URLs : d.map[u] = IF Unmapped(m, S, u) THEN None ELSE m.map[u]
  BY EvictLess DEF Sound
<1> HIDE DEF d
<1>2. ASSUME NEW u \in URLs, d.map[u] # None
      PROVE  d.map[u] \in d.inCache /\ d.at[d.map[u]] = u
  <2>1. d.map[u] = m.map[u] /\ ~Unmapped(m, S, u) /\ d.at = m.at
    BY <1>1, <1>2 DEF Less
  <2>2. m.map[u] \in m.inCache /\ m.at[m.map[u]] = u
    BY <1>2, <2>1 DEF Sound, Named
  <2>3. m.map[u] \notin S
    BY <2>1, <2>2 DEF Unmapped
  <2> QED  BY <1>1, <2>1, <2>2, <2>3
<1>3. Onto(m, d)
  BY <1>1, <1>2, LessOnto DEF Named
<1> QED  BY <1>3 DEF d

\* What was not created does not become garbage.
LEMMA EvictUnused ==
    ASSUME NEW m, Sound(m), NEW r \in Resources, r \in m.inCache,
           NEW n \in Resources, m.life[n] = "unused"
    PROVE  Evict(m, {r}).life[n] = "unused"
<1>1. n # r
  BY DEF Sound, Fresh
<1>2. Spared(m, Evict(m, {r}), {r})
  BY EvictLess DEF Sound
<1> QED  BY <1>1, <1>2 DEF Spared

LEMMA EndRequestOnto ==
    ASSUME NEW m, Sound(m), NEW r \in Resources
    PROVE  Onto(m, EndRequest(m, r))
BY EndRequestLess, LessOnto, SameMapNamed DEF Sound

LEMMA ClearRevalidationOnto ==
    ASSUME NEW m, Sound(m), NEW n \in Resources, m.revalidates[n] # None
    PROVE  Onto(m, ClearRevalidation(m, n))
BY ClearRevalidationLess, LessOnto, SameMapNamed DEF Sound

LEMMA RevalidationFailedOnto ==
    ASSUME NEW m, Sound(m), NEW n \in Resources
    PROVE  Onto(m, RevalidationFailed(m, n))
BY RevalidationFailedLess, LessOnto, SameMapNamed DEF Sound

LEMMA WithoutPreloadsOnto ==
    ASSUME NEW m, Sound(m), NEW d \in Documents
    PROVE  Onto(m, WithoutPreloads(m, d))
<1>1. PICK k \in Memory, G \in SUBSET Resources :
              /\ Less(m, k) /\ SameMap(m, k)
              /\ WithoutPreloads(m, d) = Evict(k, G)
  BY WithoutPreloadsLess DEF Sound
<1>2. Onto(m, k)
  BY <1>1, LessOnto, SameMapNamed DEF Sound
<1>3. Onto(k, Evict(k, G))
  BY <1>2, EvictOnto DEF Onto
<1> QED  BY <1>1, <1>2, <1>3, OntoTransitive

\* References to a resource that exists.
LEMMA WantsFresh ==
    ASSUME NEW m, Fresh(m), NEW r \in Resources, m.life[r] # "unused",
           NEW n, Wants(m, n, r)
    PROVE  Fresh(n) /\ Persists(m, n)
<1>1. ASSUME NEW x \in Resources, n.life[x] = "unused"
      PROVE  /\ CanDelete(n, x)
             /\ x \notin n.inCache /\ x \notin n.loading /\ x \notin n.error
             /\ n.response[x] = "none"
             /\ \A y \in Resources : n.revalidates[y] # x /\ n.proxy[y] # x
  <2>1. x # r /\ m.life[x] = "unused"
    BY <1>1 DEF Wants, Reasons
  <2>2. CanDelete(n, x)
    BY <2>1, ReasonsCanDelete DEF Wants, Reasons, Fresh
  <2> QED  BY <2>1, <2>2 DEF Wants, Reasons, SameMap, Fresh
<1>2. \A x \in Resources : Forgotten(m, x) => Forgotten(n, x)
  BY DEF Forgotten, Wants, Reasons, SameMap
<1> QED  BY <1>1, <1>2 DEF Fresh, Persists, Wants, Reasons, SameMap

LEMMA WantsOnto ==
    ASSUME NEW m, Sound(m), NEW r \in Resources, m.life[r] # "unused",
           NEW n \in Memory, Wants(m, n, r)
    PROVE  Onto(m, n)
BY WantsFresh, SameMapNamed DEF Sound, Onto, Wants, Reasons

LEMMA GiveOnto ==
    ASSUME NEW m, Sound(m), NEW d \in Documents, NEW u \in URLs, NEW r \in Resources,
           m.life[r] # "unused", NEW preload
    PROVE  Onto(m, Give(m, d, u, r, preload))
<1> DEFINE g == Give(m, d, u, r, preload)
<1>1. /\ g \in Memory /\ SameMap(m, g)
      /\ \E a : Wants(m, a, r) /\ Less(a, g)
  BY GiveWants DEF Sound
<1> HIDE DEF g
<1>2. PICK a : Wants(m, a, r) /\ Less(a, g)
  BY <1>1
<1>3. Fresh(a) /\ Persists(m, a)
  BY <1>2, WantsFresh DEF Sound
<1>4. ASSUME NEW x \in Resources, g.life[x] = "unused"
      PROVE  /\ CanDelete(g, x)
             /\ x \notin g.inCache /\ x \notin g.loading /\ x \notin g.error
             /\ g.response[x] = "none"
             /\ \A y \in Resources : g.revalidates[y] # x /\ g.proxy[y] # x
  <2>1. a.life[x] = "unused"
    BY <1>2, <1>4 DEF Less
  <2>2. CanDelete(g, x)
    BY <1>2, <1>3, <2>1, LessCanDelete DEF Fresh
  <2> QED  BY <1>2, <1>3, <2>1, <2>2, NoneAssumption DEF Less, Fresh
<1>5. Persists(m, g)
  BY <1>2, <1>3, LessForgotten DEF Less, Persists
<1>6. Named(g)
  BY <1>1, SameMapNamed DEF Sound
<1>7. Onto(m, g)
  BY <1>1, <1>4, <1>5, <1>6 DEF Onto, Sound, Fresh
<1> QED  BY <1>7 DEF g

\* What a resource is told about its load.
Flags(m, n, r) ==
    /\ SameMap(m, n) /\ SameReasons(m, n) /\ n.life = m.life
    /\ n.loading \subseteq m.loading \cup {r} /\ n.error \subseteq m.error \cup {r}
    /\ \A x \in Resources \ {r} : n.response[x] = m.response[x]

LEMMA FlagsOnto ==
    ASSUME NEW m, Sound(m), NEW r, r \in Resources => m.life[r] # "unused",
           NEW n \in Memory, Flags(m, n, r)
    PROVE  Onto(m, n)
<1>1. \A x \in Resources : CanDelete(n, x) = CanDelete(m, x)
  BY SameCanDelete DEF Flags
<1>2. Named(n)
  BY SameMapNamed DEF Flags, Sound
<1>3. \A x \in Resources : Forgotten(m, x) => Forgotten(n, x)
  BY DEF Forgotten, Flags, SameMap, SameReasons
<1> QED  BY <1>1, <1>2, <1>3 DEF Flags, SameMap, SameReasons, Sound, Onto, Persists, Fresh

LEMMA CreateOnto ==
    ASSUME NEW m, Sound(m), NEW n \in Resources, m.life[n] = "unused",
           NEW u \in URLs, NEW d \in Documents
    PROVE  Onto(m, Create(m, n, u, d)) /\ Create(m, n, u, d).life[n] = "alive"
<1> DEFINE c == Create(m, n, u, d)
<1>1. c \in Memory /\ Creates(m, c, n, u, d)
  BY CreateFields DEF Sound
<1> HIDE DEF c
<1>2. /\ \A x \in Resources \ {n} : /\ c.life[x] = m.life[x] /\ c.at[x] = m.at[x]
                                    /\ c.request[x] = m.request[x]
      /\ c.life[n] = "alive" /\ n \notin m.inCache
  BY <1>1 DEF Sound, Fresh, Memory, Creates
<1>3. Named(c)
  BY <1>1, <1>2 DEF Sound, Named, Memory, Creates
<1>4. \A x \in Resources \ {n} : CanDelete(m, x) => CanDelete(c, x)
  BY <1>1, <1>2 DEF CanDelete, Preloaded, HasHandles, Creates
<1>5. Fresh(c)
  BY <1>1, <1>2, <1>4 DEF Sound, Fresh, Creates
<1>6. Persists(m, c)
  BY <1>1, <1>2 DEF Persists, Creates, Forgotten
<1> QED  BY <1>1, <1>2, <1>3, <1>5, <1>6 DEF Onto, Sound, c

\* Naming a new resource by its URL.
LEMMA NamedOnto ==
    ASSUME NEW k, NEW m, Onto(k, m), NEW r \in m.inCache, k.life[r] = "unused",
           NEW u \in URLs, m.at[r] = u,
           NEW n \in Memory, n.map = [m.map EXCEPT ![u] = r], n.at = m.at,
           n.inCache = m.inCache, n.life = m.life, SameReasons(m, n), n.error = m.error,
           n.response = m.response,
           n.loading \subseteq m.loading \cup {r}, m.life[r] # "unused"
    PROVE  Onto(k, n)
<1>0. Sound(m) /\ Persists(k, m)
  BY DEF Onto
<1>1. \A x \in Resources : CanDelete(n, x) = CanDelete(m, x)
  BY SameCanDelete
<1>2. Named(n)
  BY <1>0 DEF Sound, Named, Memory
<1>3. Fresh(n)
  BY <1>0, <1>1 DEF Sound, Fresh, SameReasons
<1>4. ASSUME NEW x \in Resources, x # r, Forgotten(m, x) PROVE Forgotten(n, x)
  <2>1. m.map \in [URLs -> Resources \cup {None}]
    BY <1>0 DEF Sound, Memory
  <2> QED  BY <1>4, <2>1 DEF Forgotten, SameReasons
<1>5. Persists(k, n)
  BY <1>0, <1>4 DEF Persists, SameReasons
<1> QED  BY <1>2, <1>3, <1>5 DEF Onto, Sound

LEMMA CreateValidatorOnto ==
    ASSUME NEW m, Sound(m), NEW n \in Resources, m.life[n] = "unused",
           NEW r \in m.inCache, m.map[m.at[r]] = r, NEW d \in Documents
    PROVE  /\ Onto(m, CreateValidator(m, n, r, d)) /\ n # r
           /\ CreateValidator(m, n, r, d).life[n] = "alive"
<1> DEFINE e == CreateValidator(m, n, r, d)
<1>0. n # r /\ n \notin m.inCache /\ m \in Memory /\ r \in Resources /\ m.at[r] \in URLs
  BY DEF Sound, Fresh, Memory
<1>1. e \in Memory /\ Validates(m, e, n, r, d)
  BY <1>0, CreateValidatorFields
<1> HIDE DEF e
<1>2. /\ \A x \in Resources \ {n} : /\ e.life[x] = m.life[x] /\ e.at[x] = m.at[x]
                                    /\ e.request[x] = m.request[x]
                                    /\ e.revalidates[x] = m.revalidates[x]
      /\ e.life[n] = "alive" /\ e.at[n] = m.at[r] /\ e.revalidates[n] = r
      /\ e.map[m.at[r]] = n
      /\ \A u \in URLs : u # m.at[r] => e.map[u] = m.map[u]
      /\ e.proxy[r] = n /\ \A x \in Resources \ {r} : e.proxy[x] = m.proxy[x]
  BY <1>0, <1>1 DEF Memory, Validates
<1>3. Named(e)
  <2>1. ASSUME NEW u \in URLs, e.map[u] # None, u # m.at[r]
        PROVE  e.map[u] \in e.inCache /\ e.at[e.map[u]] = u
    <3>1. e.map[u] = m.map[u] /\ m.map[u] \in m.inCache /\ m.at[m.map[u]] = u
      BY <1>2, <2>1 DEF Sound, Named
    <3>2. m.map[u] # r /\ m.map[u] # n /\ m.map[u] \in Resources
      BY <1>0, <2>1, <3>1 DEF Memory
    <3> QED  BY <1>1, <1>2, <3>1, <3>2 DEF Validates
  <2>2. e.map[m.at[r]] \in e.inCache /\ e.at[e.map[m.at[r]]] = m.at[r]
    BY <1>1, <1>2 DEF Validates
  <2> QED  BY <2>1, <2>2 DEF Named
<1>4. \A x \in Resources \ {n} : x # r /\ CanDelete(m, x) => CanDelete(e, x)
  BY <1>1, <1>2 DEF CanDelete, Preloaded, HasHandles, Validates
<1>5. m.life[r] # "unused"
  BY <1>0 DEF Sound, Fresh
<1>6. Fresh(e)
  BY <1>0, <1>1, <1>2, <1>4, <1>5 DEF Sound, Fresh, Validates
<1>7. Persists(m, e)
  <2>1. ASSUME NEW x \in Resources, m.life[x] # "unused", Forgotten(m, x)
        PROVE  Forgotten(e, x)
    <3>1. x # n /\ x # r
      BY <1>0, <2>1 DEF Forgotten
    <3>2. \A y \in Resources : e.revalidates[y] # x
      BY <1>2, <2>1, <3>1 DEF Forgotten
    <3>3. \A u \in URLs : e.map[u] # x
      BY <1>2, <2>1, <3>1 DEF Forgotten
    <3> QED  BY <3>2, <3>3 DEF Forgotten
  <2> QED  BY <1>1, <1>2, <2>1 DEF Persists, Validates
<1> QED  BY <1>0, <1>1, <1>2, <1>3, <1>6, <1>7 DEF Onto, Sound, e

(***************************************************************************)
(* The functions under way.                                                *)
(***************************************************************************)
FramesOn(s) == {s[i] : i \in DOMAIN s}

LEMMA PushFrames ==
    ASSUME NEW s \in Seq(Frames), NEW f \in Frames
    PROVE  FramesOn(<<f>> \o s) = {f} \cup FramesOn(s)
<1> DEFINE t == <<f>> \o s
<1>0. <<f>> \in Seq(Frames) /\ Len(<<f>>) = 1 /\ <<f>>[1] = f
  OBVIOUS
<1>1. /\ t \in Seq(Frames) /\ Len(t) = 1 + Len(s)
      /\ \A i \in 1..(1 + Len(s)) : t[i] = IF i <= 1 THEN f ELSE s[i - 1]
  BY <1>0, ConcatProperties
<1> HIDE DEF t
<1>2. DOMAIN t = 1..(1 + Len(s)) /\ DOMAIN s = 1..Len(s) /\ Len(s) \in Nat
  BY <1>1
<1>3. ASSUME NEW i \in DOMAIN t PROVE t[i] \in {f} \cup FramesOn(s)
  <2>1. CASE i = 1
    BY <1>1, <1>2, <2>1
  <2>2. CASE i # 1
    <3>1. i - 1 \in DOMAIN s /\ t[i] = s[i - 1]
      BY <1>1, <1>2, <2>2
    <3> QED  BY <3>1 DEF FramesOn
  <2> QED  BY <2>1, <2>2
<1>4. f \in FramesOn(t)
  <2>1. 1 \in DOMAIN t /\ t[1] = f
    BY <1>1, <1>2
  <2> QED  BY <2>1 DEF FramesOn
<1>5. ASSUME NEW i \in DOMAIN s PROVE s[i] \in FramesOn(t)
  <2>1. i + 1 \in DOMAIN t /\ t[i + 1] = s[i]
    <3>1. i \in 1..Len(s) /\ Len(s) \in Nat
      BY <1>2
    <3>2. i + 1 \in 1..(1 + Len(s)) /\ ~(i + 1 <= 1) /\ (i + 1) - 1 = i
      BY <3>1
    <3> QED  BY <1>1, <1>2, <3>2
  <2> QED  BY <2>1 DEF FramesOn
<1> QED  BY <1>3, <1>4, <1>5 DEF t, FramesOn

LEMMA PopFrames ==
    ASSUME NEW s \in Seq(Frames), s # <<>>
    PROVE  FramesOn(s) = {Head(s)} \cup FramesOn(Tail(s))
<1> DEFINE t == Tail(s)
<1>1. /\ t \in Seq(Frames) /\ Head(s) = s[1]
      /\ Len(s) \in Nat \ {0} /\ Len(t) = Len(s) - 1
      /\ \A i \in 1..(Len(s) - 1) : t[i] = s[i + 1]
  BY EmptySeq, HeadTailProperties
<1> HIDE DEF t
<1>2. DOMAIN s = 1..Len(s) /\ DOMAIN t = 1..(Len(s) - 1) /\ 1 \in DOMAIN s
  BY <1>1
<1>3. ASSUME NEW i \in DOMAIN s PROVE s[i] \in {Head(s)} \cup FramesOn(t)
  <2>1. CASE i = 1
    BY <1>1, <2>1
  <2>2. CASE i # 1
    <3>1. i - 1 \in DOMAIN t /\ t[i - 1] = s[(i - 1) + 1] /\ (i - 1) + 1 = i
      BY <1>1, <1>2, <2>2
    <3> QED  BY <3>1 DEF FramesOn
  <2> QED  BY <2>1, <2>2
<1>4. ASSUME NEW i \in DOMAIN t PROVE t[i] \in FramesOn(s)
  <2>1. i + 1 \in DOMAIN s /\ t[i] = s[i + 1]
    BY <1>1, <1>2
  <2> QED  BY <2>1 DEF FramesOn
<1>5. Head(s) \in FramesOn(s)
  BY <1>1, <1>2 DEF FramesOn
<1> QED  BY <1>3, <1>4, <1>5 DEF t, FramesOn

LEMMA NoFrames == FramesOn(<<>>) = {}
BY DEF FramesOn

LEMMA FewFrames ==
    ASSUME NEW f, NEW g
    PROVE  FramesOn(<<f>>) = {f} /\ FramesOn(<<f, g>>) = {f, g}
<1>1. DOMAIN <<f>> = {1} /\ <<f>>[1] = f
  OBVIOUS
<1>2. DOMAIN <<f, g>> = {1, 2} /\ <<f, g>>[1] = f /\ <<f, g>>[2] = g
  OBVIOUS
<1> QED  BY <1>1, <1>2 DEF FramesOn

LEMMA InFlightFrames ==
    ASSUME NEW r
    PROVE  InFlight(r) <=>
              /\ mem.request[r] # None
              /\ \A f \in FramesOn(stack) : f.op \in Ending => f.res # r
BY DEF InFlight, FramesOn

\* The frames a step adds.
Refused == {"refused", "refusedNew"}

NewLoad(f) ==
    \/ /\ f.op \in Refused /\ Refusals
       /\ Running("request") <=> f.op = "refusedNew"
       /\ mem.life[f.res] = "unused" /\ mem'.life[f.res] # "unused"
       /\ mem'.revalidates[f.res] = None
       /\ f.op = "refusedNew" => Forgotten(mem', f.res)
    \/ f.op = "cancelled" /\ InFlight(f.res) /\ Running("cancelAll")
    \/ /\ f.op \in {"finish", "dataError", "decodeError", "fail", "switched"}
       /\ Reports(f.res)
       /\ f.op \in {"finish", "dataError", "decodeError"} => mem.response[f.res] # "none"

Known(f) == \E g \in FramesOn(stack) : g.op = f.op /\ g.res = f.res

UsedFrames == \A f \in FramesOn(stack) : f.op \in LoadOps => mem.life[f.res] # "unused"

(***************************************************************************)
(* The invariant that holds whatever the constants are.                    *)
(***************************************************************************)
\* What only pretends to be in the cache is not found there.
Apart == \A f \in FramesOn(stack) : f.op = "refusedNew" => Forgotten(mem, f.res)

BaseInv == LeakInv /\ Sound(mem) /\ UsedFrames /\ Apart

LEMMA BaseTypes ==
    ASSUME BaseInv
    PROVE  /\ mem \in Memory /\ docs \subseteq Documents /\ stack \in Seq(Frames)
           /\ TypeOK /\ Over(stack) /\ Sound(mem) /\ NoLeak(mem, {})
BY DEF BaseInv, LeakInv, TypeOK, Frames

LEMMA TopFacts ==
    ASSUME BaseInv, stack # <<>>
    PROVE  /\ Top \in Frames /\ Below \in Seq(Frames)
           /\ FramesOn(stack) = {Top} \cup FramesOn(Below)
           /\ Top.op \in LoadOps => /\ Top \in LoadFrame /\ Top.res \in Resources
                                    /\ mem.life[Top.res] # "unused"
           /\ Top.op = "request" => Top.doc \in Documents /\ Top.url \in URLs
<1>1. Top \in Frames /\ Below \in Seq(Frames)
      /\ (Top.op \in LoadOps => Top \in LoadFrame /\ Top.res \in Resources)
      /\ (Top.op = "request" => Top.doc \in Documents /\ Top.url \in URLs)
  BY BaseTypes, TopFrame
<1>2. FramesOn(stack) = {Top} \cup FramesOn(Below)
  BY BaseTypes, PopFrames DEF Top, Below
<1> QED  BY <1>1, <1>2 DEF BaseInv, UsedFrames

LEMMA ReferencesUsed ==
    ASSUME BaseInv
    PROVE  /\ \A u \in URLs : mem.map[u] # None =>
                 mem.map[u] \in Resources /\ mem.map[u] \in mem.inCache /\ mem.life[mem.map[u]] # "unused"
           /\ \A r \in Resources : InFlight(r) => mem.life[r] # "unused"
           /\ \A r \in Resources : HasHandles(mem, r) => mem.life[r] # "unused"
           /\ \A r \in Resources : mem.revalidates[r] # None =>
                 mem.revalidates[r] \in Resources /\ mem.life[mem.revalidates[r]] # "unused"
<1>1. mem \in Memory /\ Named(mem) /\ Fresh(mem)
  BY DEF BaseInv, Sound
<1>2. ASSUME NEW u \in URLs, mem.map[u] # None
      PROVE  mem.map[u] \in Resources /\ mem.map[u] \in mem.inCache /\ mem.life[mem.map[u]] # "unused"
  BY <1>1, <1>2 DEF Named, Fresh, Memory
<1>3. ASSUME NEW r \in Resources, InFlight(r) \/ HasHandles(mem, r)
      PROVE  mem.life[r] # "unused"
  BY <1>1, <1>3 DEF Fresh, InFlight, CanDelete
<1>4. ASSUME NEW r \in Resources, mem.revalidates[r] # None
      PROVE  mem.revalidates[r] \in Resources /\ mem.life[mem.revalidates[r]] # "unused"
  BY <1>1, <1>4 DEF Fresh, Memory
<1> QED  BY <1>2, <1>3, <1>4

(***************************************************************************)
(* A 304 answer to the validator v makes r name its URL again.             *)
(***************************************************************************)
Readmits(m, n, r, v, answer) ==
    /\ n.map = [m.map EXCEPT ![m.at[r]] = r]
    /\ n.inCache = m.inCache \cup {r}
    /\ n.at = m.at /\ n.life = m.life /\ n.loading = m.loading /\ n.error = m.error
    /\ n.response = [m.response EXCEPT ![r] = answer]
    /\ n.request = m.request /\ n.revalidates = m.revalidates /\ n.proxy = m.proxy
    /\ n.preloads = m.preloads
    /\ \A d \in Documents, u \in URLs :
          n.handle[d][u] = IF m.handle[d][u] = v THEN r ELSE m.handle[d][u]
    /\ \A x \in Resources :
          n.clients[x] = IF x = v THEN {}
                         ELSE IF x = r THEN m.clients[r] \cup m.clients[v]
                         ELSE m.clients[x]

LEMMA NotModifiedHeap ==
    ASSUME mem \in Memory, NEW v \in Resources, NEW answer \in Answers, NotModified(v, answer)
    PROVE  LET r == mem.revalidates[v]
           IN /\ r \in Resources /\ Reports(v)
              /\ mem' \in Memory
              /\ Readmits(Evict(mem, {v}), mem', r, v, answer)
<1> DEFINE r == mem.revalidates[v]
           u == mem.at[r]
           m == Evict(mem, {v})
           a == [m EXCEPT !.map[u] = r, !.inCache = @ \cup {r},
                          !.response[r] = answer,
                          !.handle = [d \in Documents |-> [w \in URLs |->
                                         IF @[d][w] = v THEN r ELSE @[d][w]]],
                          !.clients[r] = @ \cup m.clients[v], !.clients[v] = {},
                          !.referenced = @ \cup (IF m.clients[v] # {} THEN {r} ELSE {})]
<1>1. mem' = a /\ r # None /\ Reports(v)
  BY DEF NotModified
<1>2. r \in Resources /\ u \in URLs
  BY <1>1 DEF Memory
<1>3. m \in Memory /\ m.at = mem.at
  BY EvictEffect
<1>m. u = m.at[r]
  BY <1>3
<1> HIDE DEF m, r, u
<1> DEFINE handles == [d \in Documents |-> [w \in URLs |->
                          IF m.handle[d][w] = v THEN r ELSE m.handle[d][w]]]
           a1 == [m EXCEPT !.map[u] = r, !.inCache = @ \cup {r}, !.response[r] = answer]
           a2 == [a1 EXCEPT !.handle = handles]
           a3 == [a2 EXCEPT !.clients[r] = @ \cup m.clients[v]]
           a4 == [a3 EXCEPT !.clients[v] = {}]
           a5 == [a4 EXCEPT !.referenced = @ \cup (IF m.clients[v] # {} THEN {r} ELSE {})]
<1>a. /\ m.handle \in [Documents -> [URLs -> Resources \cup {None}]]
      /\ m.clients \in [Resources -> SUBSET Clients]
  BY <1>3 DEF Memory
<1>b. a = a5
  BY <1>3, <1>a DEF Memory
<1>c. /\ handles \in [Documents -> [URLs -> Resources \cup {None}]]
      /\ \A d \in Documents, w \in URLs :
            handles[d][w] = IF m.handle[d][w] = v THEN r ELSE m.handle[d][w]
  BY <1>2, <1>a
<1> HIDE DEF a, handles
<1>d. /\ a1 \in Memory /\ a1.map = [m.map EXCEPT ![u] = r] /\ a1.inCache = m.inCache \cup {r}
      /\ a1.response = [m.response EXCEPT ![r] = answer]
      /\ a1.at = m.at /\ a1.life = m.life /\ a1.loading = m.loading /\ a1.error = m.error
      /\ a1.request = m.request /\ a1.preloads = m.preloads
      /\ a1.revalidates = m.revalidates /\ a1.proxy = m.proxy /\ a1.clients = m.clients
  BY <1>2, <1>3 DEF Memory
<1> HIDE DEF a1
<1> DEFINE Rest(x, y) ==
              /\ y.map = x.map /\ y.inCache = x.inCache /\ y.response = x.response
              /\ y.at = x.at /\ y.life = x.life /\ y.loading = x.loading /\ y.error = x.error
              /\ y.request = x.request /\ y.preloads = x.preloads
              /\ y.revalidates = x.revalidates /\ y.proxy = x.proxy
<1>e. /\ a2 \in Memory /\ Rest(a1, a2) /\ a2.clients = m.clients /\ a2.handle = handles
  BY <1>c, <1>d DEF Memory
<1> HIDE DEF a2
<1>f. /\ a3 \in Memory /\ Rest(a2, a3) /\ a3.handle = a2.handle
      /\ a3.clients = [a2.clients EXCEPT ![r] = @ \cup m.clients[v]]
  BY <1>2, <1>a, <1>e DEF Memory
<1> HIDE DEF a3
<1>g. /\ a4 \in Memory /\ Rest(a3, a4) /\ a4.handle = a3.handle
      /\ a4.clients = [a3.clients EXCEPT ![v] = {}]
  BY <1>f DEF Memory
<1> HIDE DEF a4
<1>h. a5 \in Memory /\ Rest(a4, a5) /\ a5.handle = a4.handle /\ a5.clients = a4.clients
  BY <1>2, <1>g DEF Memory
<1> HIDE DEF a5
<1>i. ASSUME NEW x \in Resources
      PROVE  a.clients[x] = IF x = v THEN {}
                            ELSE IF x = r THEN m.clients[r] \cup m.clients[v]
                            ELSE m.clients[x]
  <2>1. a.clients = [[m.clients EXCEPT ![r] = @ \cup m.clients[v]] EXCEPT ![v] = {}]
    BY <1>b, <1>e, <1>f, <1>g, <1>h
  <2>2. m.clients \in [Resources -> SUBSET Clients]
    BY <1>a
  <2> QED  BY <1>2, <2>1, <2>2
<1>j. /\ a.map = [m.map EXCEPT ![u] = r] /\ a.inCache = m.inCache \cup {r}
      /\ a.response = [m.response EXCEPT ![r] = answer]
      /\ a.at = m.at /\ a.life = m.life /\ a.loading = m.loading /\ a.error = m.error
      /\ a.request = m.request /\ a.preloads = m.preloads
      /\ a.revalidates = m.revalidates /\ a.proxy = m.proxy /\ a.handle = handles
  BY <1>b, <1>d, <1>e, <1>f, <1>g, <1>h
<1>k. Readmits(m, a, r, v, answer)
  BY <1>c, <1>i, <1>j, <1>m DEF Readmits
<1> QED  BY <1>1, <1>2, <1>b, <1>h, <1>k DEF r, m

LEMMA ReadmitsOnto ==
    ASSUME NEW m, Sound(m), NEW r \in Resources, m.life[r] # "unused", NEW v \in Resources,
           m.revalidates[v] = r, NEW answer, NEW n \in Memory, Readmits(m, n, r, v, answer)
    PROVE  Onto(m, n) /\ Reasons(m, n, r)
<1>1. Reasons(m, n, r)
  BY DEF Readmits, Reasons
<1>2. m.at[r] \in URLs /\ m \in Memory
  BY DEF Sound, Memory
<1>3. Named(n)
  <2>1. ASSUME NEW u \in URLs, n.map[u] # None
        PROVE  n.map[u] \in n.inCache /\ n.at[n.map[u]] = u
    <3>1. CASE u = m.at[r]
      BY <1>2, <2>1, <3>1 DEF Readmits, Memory
    <3>2. CASE u # m.at[r]
      <4>1. n.map[u] = m.map[u]
        BY <1>2, <3>2 DEF Readmits, Memory
      <4> QED  BY <2>1, <4>1 DEF Readmits, Sound, Named
    <3> QED  BY <3>1, <3>2
  <2> QED  BY <2>1 DEF Named
<1>4. Fresh(n)
  <2>1. ASSUME NEW x \in Resources, n.life[x] = "unused"
        PROVE  /\ CanDelete(n, x)
               /\ x \notin n.inCache /\ x \notin n.loading /\ x \notin n.error
             /\ n.response[x] = "none"
               /\ n.response[x] = "none"
               /\ \A y \in Resources : n.revalidates[y] # x /\ n.proxy[y] # x
    <3>1. x # r /\ m.life[x] = "unused"
      BY <2>1 DEF Readmits
    <3>2. CanDelete(n, x)
      BY <1>1, <3>1, ReasonsCanDelete DEF Sound, Fresh
    <3> QED  BY <3>1, <3>2 DEF Readmits, Sound, Fresh
  <2> QED  BY <2>1 DEF Fresh
<1>5. ASSUME NEW x \in Resources, Forgotten(m, x) PROVE Forgotten(n, x)
  <2>1. x # r
    BY <1>5 DEF Forgotten
  <2> QED  BY <1>2, <1>5, <2>1 DEF Readmits, Forgotten, Memory
<1>6. Persists(m, n)
  BY <1>5 DEF Readmits, Persists
<1> QED  BY <1>1, <1>3, <1>4, <1>6 DEF Onto, Sound

(***************************************************************************)
(* What a request for a URL does.                                          *)
(***************************************************************************)
Waiting(d, u, p, b) ==
    <<[op |-> "request", doc |-> d, url |-> u, policy |-> p, preload |-> b]>> \o stack

\* The heaps after a validator and a new resource were created, and their loads
\* scheduled or refused.
StartValidator(m, n, r, d) == [CreateValidator(m, n, r, d) EXCEPT !.loading = @ \cup {n}]
RefuseValidator(m, n, r, d) ==
    [RevalidationFailed(CreateValidator(m, n, r, d), n) EXCEPT !.error = @ \cup {n}]
StartLoad(m, n, u, d, preload) ==
    Give([Create(m, n, u, d) EXCEPT !.map[u] = n, !.loading = @ \cup {n}], d, u, n, preload)
RefuseLoad(m, n, u, d) == [Create(m, n, u, d) EXCEPT !.error = @ \cup {n}]

Rechecks(d, u, p, b) ==
    /\ mem.map[u] # None
    /\ p = "reload" \/ mem.revalidates[mem.map[u]] = None
    /\ mem' = Evict(mem, {mem.map[u]})
    /\ stack' = Waiting(d, u, p, b)

Renews(d, u, n) ==
    /\ mem.map[u] # None /\ mem.revalidates[mem.map[u]] = None
    /\ CanUseValidator(mem, mem.map[u])
    /\ mem.life[n] = "unused"

Validating(d, u, p, b, n) ==
    /\ Renews(d, u, n)
    /\ mem' = StartValidator(mem, n, mem.map[u], d)
    /\ stack' = Waiting(d, u, p, b)

Refusing(d, u, p, b, n) ==
    /\ Renews(d, u, n)
    /\ Refusals
    /\ mem' = RefuseValidator(mem, n, mem.map[u], d)
    /\ stack' = <<Load("refused", n, {})>> \o Waiting(d, u, p, b)

LEMMA CheckOutcomes ==
    ASSUME NEW d, NEW u, NEW p, NEW b, CheckForReload(d, u, p, b)
    PROVE  \/ mem' = mem /\ stack' = Waiting(d, u, p, b)
           \/ Rechecks(d, u, p, b)
           \/ \E n \in Resources : Validating(d, u, p, b, n) \/ Refusing(d, u, p, b, n)
<1> DEFINE rest == Waiting(d, u, p, b)
<1>1. \/ mem' = mem /\ stack' = rest
      \/ Checks(d, u) /\ p = "reload" /\ mem' = Evict(mem, {mem.map[u]}) /\ stack' = rest
      \/ Checks(d, u) /\ Revalidate(d, u, p, rest)
  BY DEF CheckForReload, Waiting
<1> HIDE DEF rest
<1>2. Checks(d, u) => mem.map[u] # None
  BY DEF Checks
<1>3. ASSUME Revalidate(d, u, p, rest)
      PROVE  \/ mem' = mem /\ stack' = rest
             \/ /\ mem.revalidates[mem.map[u]] = None
                /\ mem' = Evict(mem, {mem.map[u]}) /\ stack' = rest
             \/ /\ mem.revalidates[mem.map[u]] = None
                /\ CanUseValidator(mem, mem.map[u])
                /\ \E n \in Resources :
                      /\ mem.life[n] = "unused"
                      /\ \/ mem' = StartValidator(mem, n, mem.map[u], d) /\ stack' = rest
                         \/ /\ Refusals
                            /\ mem' = RefuseValidator(mem, n, mem.map[u], d)
                            /\ stack' = <<Load("refused", n, {})>> \o rest
  BY <1>3 DEF Revalidate, Unused, StartValidator, RefuseValidator
<1> QED  BY <1>1, <1>2, <1>3 DEF Rechecks, Validating, Refusing, Renews, rest

\* What no-store data leaves of the heap before the request is served.
Served(m) ==
    LET e == mem.map[Top.url]
    IN \/ m = mem
       \/ e # None /\ mem.response[e] = "noStore" /\ m = Evict(mem, {e})

Skipping(m) == mem' = m /\ stack' = Below

Giving(m) ==
    /\ m.map[Top.url] # None
    /\ Top.preload => Preloaded(m, m.map[Top.url])
    /\ mem' = Give(m, Top.doc, Top.url, m.map[Top.url], Top.preload)
    /\ stack' = Below

Starting(m, n) ==
    /\ m.map[Top.url] = None
    /\ mem.life[n] = "unused"
    /\ mem' = StartLoad(m, n, Top.url, Top.doc, Top.preload)
    /\ stack' = Below

RefusingNew(m, n) ==
    /\ m.map[Top.url] = None
    /\ mem.life[n] = "unused"
    /\ Refusals
    /\ mem' = RefuseLoad(m, n, Top.url, Top.doc)
    /\ stack' = <<Load("refusedNew", n, {})>> \o Below

LEMMA RequestOutcomes ==
    ASSUME RequestResource
    PROVE  /\ stack # <<>> /\ Top.op = "request"
           /\ \E m :
              /\ Served(m)
              /\ \/ Skipping(m) \/ Giving(m)
                 \/ \E n \in Resources : Starting(m, n) \/ RefusingNew(m, n)
<1>2. stack # <<>> /\ Top.op = "request"
  BY Zenon DEF RequestResource, Running
<1> DEFINE d == Top.doc
           u == Top.url
           e == mem.map[u]
           stale == e # None /\ mem.response[e] = "noStore" /\ Top.policy # "history"
           m == IF stale THEN Evict(mem, {e}) ELSE mem
<1>1. Served(m)
  BY DEF Served
<1>3. LET r == m.map[u]
      IN \/ mem' = m /\ stack' = Below
         \/ /\ r # None /\ (Top.preload => Preloaded(m, r))
            /\ mem' = Give(m, d, u, r, Top.preload) /\ stack' = Below
         \/ /\ r = None
            /\ \E n \in Unused :
                  \/ mem' = StartLoad(m, n, u, d, Top.preload) /\ stack' = Below
                  \/ /\ Refusals /\ mem' = RefuseLoad(m, n, u, d)
                     /\ stack' = <<Load("refusedNew", n, {})>> \o Below
  <2>1. LET r == m.map[u]
        IN \/ mem' = m /\ stack' = Below
           \/ /\ r # None /\ (Top.preload => Preloaded(m, r))
              /\ mem' = Give(m, d, u, r, Top.preload) /\ stack' = Below
           \/ /\ r = None
              /\ \E n \in Unused :
                    LET m1 == Create(m, n, u, d)
                    IN \/ /\ mem' = Give([m1 EXCEPT !.map[u] = n, !.loading = @ \cup {n}],
                                        d, u, n, Top.preload)
                          /\ stack' = Below
                       \/ /\ Refusals
                          /\ mem' = [m1 EXCEPT !.error = @ \cup {n}]
                          /\ stack' = <<Load("refusedNew", n, {})>> \o Below
    BY Zenon DEF RequestResource
  <2> HIDE DEF m, d, u
  <2> QED  BY <2>1, Zenon DEF StartLoad, RefuseLoad
<1> HIDE DEF m
<1>4. \/ Skipping(m) \/ Giving(m)
      \/ \E n \in Resources : Starting(m, n) \/ RefusingNew(m, n)
  BY <1>3 DEF Unused, Skipping, Giving, Starting, RefusingNew
<1> QED  BY <1>1, <1>2, <1>4

\* The heap a validator that is loading is in, and one that was refused.
LEMMA NewValidator ==
    ASSUME BaseInv, NEW d \in Documents, NEW u \in URLs, NEW n \in Resources,
           mem.life[n] = "unused", mem.map[u] # None
    PROVE  /\ Onto(mem, StartValidator(mem, n, mem.map[u], d))
           /\ Onto(mem, RefuseValidator(mem, n, mem.map[u], d))
           /\ RefuseValidator(mem, n, mem.map[u], d).life[n] # "unused"
           /\ RefuseValidator(mem, n, mem.map[u], d).revalidates[n] = None
<1> DEFINE r == mem.map[u]
           m == CreateValidator(mem, n, r, d)
           f == RevalidationFailed(m, n)
           m1 == [m EXCEPT !.loading = @ \cup {n}]
           f1 == [f EXCEPT !.error = @ \cup {n}]
<1>1. r \in Resources /\ r \in mem.inCache /\ Sound(mem) /\ mem.map[mem.at[r]] = r
  BY ReferencesUsed, BaseTypes DEF Sound, Named
<1>2. Onto(mem, m) /\ m.life[n] = "alive"
  BY <1>1, CreateValidatorOnto
<1> HIDE DEF m, r
<1>3. Onto(m, f) /\ f.life[n] # "unused"
  BY <1>2, RevalidationFailedOnto DEF Onto, Persists
<1>r. f.revalidates[n] = None
  <2>1. m \in Memory
    BY <1>2 DEF Onto, Sound
  <2>2. f.revalidates = [m.revalidates EXCEPT ![n] = None]
    BY <2>1, RevalidationFailedLess DEF f
  <2>3. m.revalidates \in [Resources -> Resources \cup {None}]
    BY <2>1 DEF Memory
  <2> QED  BY <2>2, <2>3
<1> HIDE DEF f
<1>4. m1 \in Memory /\ Flags(m, m1, n)
  BY <1>2 DEF Onto, Sound, Memory, Flags, SameMap, SameReasons
<1>5. f1 \in Memory /\ Flags(f, f1, n) /\ f1.life = f.life /\ f1.revalidates = f.revalidates
  BY <1>3 DEF Onto, Sound, Memory, Flags, SameMap, SameReasons
<1> HIDE DEF m1, f1
<1>6. Onto(m, m1) /\ Onto(f, f1)
  BY <1>2, <1>3, <1>4, <1>5, FlagsOnto DEF Onto
<1>7. Onto(mem, m1) /\ Onto(mem, f1) /\ f1.life[n] # "unused"
  BY <1>2, <1>3, <1>5, <1>6, OntoTransitive
<1> QED  BY <1>5, <1>7, <1>r DEF m1, f1, m, f, r, StartValidator, RefuseValidator

\* The heap a new resource is in, and one whose load was refused.
LEMMA NewResource ==
    ASSUME NEW m, Sound(m), NEW d \in Documents, NEW u \in URLs, NEW n \in Resources,
           m.life[n] = "unused", NEW preload
    PROVE  /\ Onto(m, StartLoad(m, n, u, d, preload))
           /\ Onto(m, RefuseLoad(m, n, u, d))
           /\ RefuseLoad(m, n, u, d).life[n] # "unused"
<1> DEFINE m1 == Create(m, n, u, d)
           m2 == [m1 EXCEPT !.map[u] = n, !.loading = @ \cup {n}]
           m3 == [m1 EXCEPT !.error = @ \cup {n}]
<1>1. /\ Onto(m, m1) /\ m1.life[n] = "alive" /\ n \in m1.inCache /\ m1.at[n] = u
      /\ m1 \in Memory
  <2>1. Onto(m, m1) /\ m1.life[n] = "alive" /\ m1 \in Memory
    BY CreateOnto DEF Onto, Sound
  <2>2. Creates(m, m1, n, u, d)
    BY CreateFields DEF Sound
  <2> HIDE DEF m1
  <2>3. n \in m1.inCache /\ m1.at[n] = u
    BY <2>1, <2>2 DEF Creates, Sound, Memory
  <2> QED  BY <2>1, <2>3
<1> HIDE DEF m1
<1>2. /\ m2 \in Memory /\ m2.map = [m1.map EXCEPT ![u] = n] /\ m2.at = m1.at
      /\ m2.inCache = m1.inCache /\ m2.life = m1.life /\ SameReasons(m1, m2)
      /\ m2.error = m1.error /\ m2.response = m1.response /\ m2.loading \subseteq m1.loading \cup {n}
  BY <1>1 DEF Memory, SameReasons
<1>3. m3 \in Memory /\ Flags(m1, m3, n) /\ m3.life = m1.life
  BY <1>1 DEF Memory, Flags, SameMap, SameReasons
<1> HIDE DEF m2, m3
<1>4. Onto(m, m2) /\ m2.life[n] # "unused"
  BY <1>1, <1>2, NamedOnto DEF Onto
<1>5. Onto(m1, m3) /\ m3.life[n] # "unused"
  BY <1>1, <1>3, FlagsOnto DEF Onto
<1>6. Onto(m2, Give(m2, d, u, n, preload))
  BY <1>4, GiveOnto DEF Onto
<1>7. Onto(m, m3)
  BY <1>1, <1>5, OntoTransitive
<1>8. Onto(m, Give(m2, d, u, n, preload))
  BY <1>4, <1>6, OntoTransitive
<1> QED  BY <1>5, <1>7, <1>8 DEF m1, m2, m3, StartLoad, RefuseLoad

LEMMA ServedOnto ==
    ASSUME BaseInv, stack # <<>>, Top.op = "request", NEW m, Served(m)
    PROVE  /\ Onto(mem, m)
           /\ \A n \in Resources : mem.life[n] = "unused" => m.life[n] = "unused"
<1> DEFINE e == mem.map[Top.url]
<1>1. e # None => e \in Resources /\ e \in mem.inCache
  BY TopFacts, ReferencesUsed
<1>2. m = mem \/ (e # None /\ m = Evict(mem, {e}))
  BY DEF Served
<1> HIDE DEF e
<1> QED  BY <1>1, <1>2, BaseTypes, EvictUnused, EvictOnto, OntoSame

LEMMA RequestOnto ==
    ASSUME BaseInv,
           \/ \E d \in Documents, u \in URLs, p \in Policies, b \in Preloads :
                 CheckForReload(d, u, p, b)
           \/ RequestResource
    PROVE  Onto(mem, mem')
<1>0. Sound(mem) /\ Onto(mem, mem)
  BY BaseTypes, OntoSame
<1>1. ASSUME NEW d \in Documents, NEW u \in URLs, NEW p \in Policies, NEW b \in Preloads,
             CheckForReload(d, u, p, b)
      PROVE  Onto(mem, mem')
  <2>1. CASE Rechecks(d, u, p, b)
    BY <1>0, <2>1, EvictOnto DEF Rechecks
  <2>2. ASSUME NEW n \in Resources, Validating(d, u, p, b, n) \/ Refusing(d, u, p, b, n)
        PROVE  Onto(mem, mem')
    BY <2>2, NewValidator DEF Validating, Refusing, Renews
  <2> QED  BY <1>0, <1>1, <2>1, <2>2, CheckOutcomes
<1>2. ASSUME RequestResource PROVE Onto(mem, mem')
  <2>1. stack # <<>> /\ Top.op = "request"
    BY <1>2, RequestOutcomes
  <2>2. PICK m : /\ Served(m)
                 /\ \/ Skipping(m) \/ Giving(m)
                    \/ \E n \in Resources : Starting(m, n) \/ RefusingNew(m, n)
    BY <1>2, RequestOutcomes
  <2>3. Onto(mem, m) /\ Top.doc \in Documents /\ Top.url \in URLs
        /\ \A n \in Resources : mem.life[n] = "unused" => m.life[n] = "unused"
    BY <2>1, <2>2, ServedOnto, TopFacts
  <2>5. CASE Giving(m)
    <3> DEFINE r == m.map[Top.url]
    <3>1. r \in Resources /\ m.life[r] # "unused"
      BY <2>3, <2>5 DEF Onto, Sound, Named, Fresh, Memory, Giving
    <3>2. mem' = Give(m, Top.doc, Top.url, r, Top.preload)
      BY <2>5 DEF Giving
    <3> HIDE DEF r
    <3>3. Onto(m, Give(m, Top.doc, Top.url, r, Top.preload))
      BY <2>3, <3>1, GiveOnto DEF Onto
    <3> QED  BY <2>3, <3>2, <3>3, OntoTransitive
  <2>6. ASSUME NEW n \in Resources, Starting(m, n) \/ RefusingNew(m, n)
        PROVE  Onto(mem, mem')
    <3>1. Onto(m, mem')
      BY <2>3, <2>6, NewResource DEF Onto, Starting, RefusingNew
    <3> QED  BY <2>3, <3>1, OntoTransitive
  <2>7. CASE Skipping(m)
    BY <2>3, <2>7 DEF Skipping
  <2> QED  BY <2>2, <2>5, <2>6, <2>7
<1> QED  BY <1>1, <1>2

\* Clients, preloads, documents, pruning.
LEMMA OutsideOnto ==
    ASSUME BaseInv,
           \/ \E r \in Resources, c \in Clients : AddClient(r, c) \/ RemoveClient(r, c)
           \/ Prune \/ Flush
           \/ \E d \in Documents : ClearPreloads(d) \/ CancelRequests(d) \/ DestroyDocument(d)
    PROVE  Onto(mem, mem')
<1>0. Sound(mem) /\ Onto(mem, mem) /\ mem \in Memory
  BY BaseTypes, OntoSame
<1>1. ASSUME NEW r \in Resources, NEW c \in Clients, AddClient(r, c) PROVE Onto(mem, mem')
  <2>1. mem' = [mem EXCEPT !.clients[r] = @ \cup {c}, !.referenced = @ \cup {r}]
        /\ HasHandles(mem, r)
    BY <1>1, Zenon DEF AddClient
  <2>2. mem' \in Memory /\ Wants(mem, mem', r)
    BY <1>0, <2>1 DEF Memory, Wants, Reasons, SameMap
  <2>3. mem.life[r] # "unused"
    BY <2>1, ReferencesUsed
  <2> QED  BY <1>0, <2>2, <2>3, WantsOnto
<1>2. ASSUME NEW r \in Resources, NEW c \in Clients, RemoveClient(r, c) PROVE Onto(mem, mem')
  <2> DEFINE m == [mem EXCEPT !.clients[r] = @ \ {c}]
  <2>1. m \in Memory /\ Drops(mem, m)
    BY <1>0 DEF Memory, Drops, SameMap
  <2>2. \/ mem' = DeleteIfPossible(m, {r})
        \/ mem' = m \/ \E S : mem' = Evict(m, S)
    BY <1>2 DEF RemoveClient
  <2> HIDE DEF m
  <2>3. Onto(mem, m)
    BY <1>0, <2>1, DropsLess, LessOnto, SameMapNamed DEF Sound, Drops
  <2>4. Onto(m, DeleteIfPossible(m, {r}))
    BY <2>3, DeleteIfPossibleLess, LessOnto, SameMapNamed DEF Onto, Sound
  <2>5. \A S : Onto(m, Evict(m, S))
    BY <2>3, EvictOnto DEF Onto
  <2> QED  BY <2>2, <2>3, <2>4, <2>5, OntoTransitive
<1>3. ASSUME Prune \/ Flush PROVE Onto(mem, mem')
  <2>1. \E S : mem' = Evict(mem, S)
    BY <1>3 DEF Prune, Flush
  <2> QED  BY <1>0, <2>1, EvictOnto
<1>4. ASSUME NEW d \in Documents, ClearPreloads(d) \/ CancelRequests(d) PROVE Onto(mem, mem')
  BY <1>0, <1>4, WithoutPreloadsOnto DEF ClearPreloads, CancelRequests
<1>5. ASSUME NEW d \in Documents, DestroyDocument(d) PROVE Onto(mem, mem')
  <2> DEFINE m == WithoutPreloads(mem, d)
             S == {m.handle[d][u] : u \in URLs} \ {None}
             a == [m EXCEPT !.handle[d] = [u \in URLs |-> None]]
  <2>1. mem' = DeleteIfPossible(a, S)
    BY <1>5 DEF DestroyDocument
  <2>2. Onto(mem, m)
    BY <1>0, WithoutPreloadsOnto
  <2> HIDE DEF m, S
  <2>3. a \in Memory /\ Drops(m, a)
    BY <2>2 DEF Onto, Sound, Memory, Drops, SameMap
  <2> HIDE DEF a
  <2>4. Onto(m, a)
    BY <2>2, <2>3, DropsLess, LessOnto, SameMapNamed DEF Onto, Sound, Drops
  <2>5. Onto(a, DeleteIfPossible(a, S))
    BY <2>4, DeleteIfPossibleLess, LessOnto, SameMapNamed DEF Onto, Sound
  <2> QED  BY <2>1, <2>2, <2>4, <2>5, OntoTransitive
<1> QED  BY <1>1, <1>2, <1>3, <1>4, <1>5

\* A load that has ended, well or not.
Finished(m, r) == [m EXCEPT !.loading = @ \ {r}]
Failed(m, r) == [m EXCEPT !.error = @ \cup {r}, !.loading = @ \ {r}]
Rejected(m, r) == [m EXCEPT !.loading = @ \ {r}, !.error = @ \cup {r}]

LEMMA EndedFields ==
    ASSUME NEW m \in Memory, NEW r \in Resources,
           NEW n \in {Finished(m, r), Failed(m, r), Rejected(m, r)}
    PROVE  /\ n \in Memory /\ Flags(m, n, r)
           /\ n.loading = m.loading \ {r}
           /\ n.error = IF n = Finished(m, r) THEN m.error ELSE m.error \cup {r}
           /\ n.response = m.response
<1>1. CASE n = Finished(m, r)
  <2> DEFINE a == [m EXCEPT !.loading = @ \ {r}]
  <2>1. n = a
    BY <1>1 DEF Finished
  <2>2. a \in Memory /\ a.loading = m.loading \ {r} /\ a.error = m.error
        /\ a.response = m.response /\ Flags(m, a, r)
    BY DEF Memory, Flags, SameMap, SameReasons
  <2> QED  BY <1>1, <2>1, <2>2
<1>2. CASE n # Finished(m, r)
  <2>1. CASE n = Failed(m, r)
    <3> DEFINE a == [m EXCEPT !.error = @ \cup {r}, !.loading = @ \ {r}]
    <3>1. a \in Memory /\ a.loading = m.loading \ {r} /\ a.error = m.error \cup {r}
          /\ a.response = m.response /\ Flags(m, a, r)
      BY DEF Memory, Flags, SameMap, SameReasons
    <3>2. n = a
      BY <2>1 DEF Failed
    <3> HIDE DEF a
    <3> QED  BY <1>2, <3>1, <3>2
  <2>2. CASE n = Rejected(m, r)
    <3> DEFINE a == [m EXCEPT !.loading = @ \ {r}, !.error = @ \cup {r}]
    <3>1. a \in Memory /\ a.loading = m.loading \ {r} /\ a.error = m.error \cup {r}
          /\ a.response = m.response /\ Flags(m, a, r)
      BY DEF Memory, Flags, SameMap, SameReasons
    <3>2. n = a
      BY <2>2 DEF Rejected
    <3> HIDE DEF a
    <3> QED  BY <1>2, <3>1, <3>2
  <2> QED  BY <1>2, <2>1, <2>2
<1> QED  BY <1>1, <1>2

LEMMA ReportOutcomes ==
    ASSUME NEW r
    PROVE  /\ \A answer : DidReceiveResponse(r, answer) =>
                 /\ Reports(r) /\ mem.response[r] = "none"
                 /\ mem' = [RevalidationFailed(mem, r) EXCEPT !.response[r] = answer]
                 /\ stack' = stack
           /\ DidReceiveData(r) =>
                 /\ Reports(r) /\ mem.response[r] # "none"
                 /\ mem' = Failed(mem, r)
                 /\ \E op \in {"dataError", "decodeError"} :
                       stack' = <<Load(op, r, mem.clients[r])>>
           /\ DidFinishLoading(r) =>
                 /\ Reports(r) /\ mem.response[r] # "none"
                 /\ \/ r \in mem.error /\ mem' = EndRequest(mem, r) /\ stack' = stack
                    \/ mem' = Finished(mem, r) /\ stack' = <<Load("finish", r, mem.clients[r])>>
                    \/ /\ mem' = Rejected(mem, r)
                       /\ stack' = <<Load("decodeError", r, mem.clients[r]), Load("finish", r, {})>>
           /\ DidFail(r) =>
                 /\ Reports(r)
                 /\ mem' = Failed(RevalidationFailed(mem, r), r)
                 /\ stack' = <<Load("fail", r, mem.clients[r])>>
<1>1. \A answer : DidReceiveResponse(r, answer) =>
         /\ Reports(r) /\ mem.response[r] = "none"
         /\ mem' = [RevalidationFailed(mem, r) EXCEPT !.response[r] = answer]
         /\ stack' = stack
  BY Zenon DEF DidReceiveResponse
<1>2. DidReceiveData(r) =>
         /\ Reports(r) /\ mem.response[r] # "none"
         /\ mem' = Failed(mem, r)
         /\ \E op \in {"dataError", "decodeError"} : stack' = <<Load(op, r, mem.clients[r])>>
  BY Zenon DEF DidReceiveData, Failed
<1>3. DidFinishLoading(r) =>
         /\ Reports(r) /\ mem.response[r] # "none"
         /\ \/ r \in mem.error /\ mem' = EndRequest(mem, r) /\ stack' = stack
            \/ mem' = Finished(mem, r) /\ stack' = <<Load("finish", r, mem.clients[r])>>
            \/ /\ mem' = Rejected(mem, r)
               /\ stack' = <<Load("decodeError", r, mem.clients[r]), Load("finish", r, {})>>
  BY Zenon DEF DidFinishLoading, Finished, Rejected
<1>4. DidFail(r) =>
         /\ Reports(r)
         /\ mem' = Failed(RevalidationFailed(mem, r), r)
         /\ stack' = <<Load("fail", r, mem.clients[r])>>
  BY Zenon DEF DidFail, Failed
<1> QED  BY <1>1, <1>2, <1>3, <1>4

\* What Loader does with the reports of a load.
LEMMA NetworkOnto ==
    ASSUME BaseInv, Network
    PROVE  Onto(mem, mem')
<1>0. Sound(mem) /\ Onto(mem, mem) /\ mem \in Memory
  BY BaseTypes, OntoSame
<1>1. ASSUME NEW v \in Resources, NEW answer \in Answers, NotModified(v, answer)
      PROVE  Onto(mem, mem')
  <2> DEFINE r == mem.revalidates[v]
             m == Evict(mem, {v})
  <2>1. r \in Resources /\ mem' \in Memory /\ Readmits(m, mem', r, v, answer)
    BY <1>0, <1>1, NotModifiedHeap
  <2>r. m.revalidates[v] = r
    BY <1>0, EvictEffect DEF SameReasons
  <2>2. mem.life[r] # "unused"
    BY <2>1, ReferencesUsed, NoneAssumption
  <2>3. Onto(mem, m)
    BY <1>0, EvictOnto
  <2> HIDE DEF m, r
  <2>4. m.life[r] # "unused" /\ m.revalidates[v] = r
    BY <2>1, <2>2, <2>3, <2>r DEF Onto, Persists
  <2>5. Onto(m, mem')
    BY <2>1, <2>3, <2>4, ReadmitsOnto DEF Onto
  <2> QED  BY <2>3, <2>5, OntoTransitive
<1>f. ASSUME NEW r \in Resources, Reports(r)
      PROVE  /\ Onto(mem, RevalidationFailed(mem, r)) /\ mem.life[r] # "unused"
             /\ RevalidationFailed(mem, r).life[r] # "unused"
  <2>1. mem.life[r] # "unused"
    BY <1>f, ReferencesUsed DEF Reports
  <2> QED  BY <1>0, <2>1, RevalidationFailedOnto DEF Onto, Persists
<1>2. ASSUME NEW r \in Resources, NEW answer \in Answers, DidReceiveResponse(r, answer)
      PROVE  Onto(mem, mem')
  <2> DEFINE m == RevalidationFailed(mem, r)
             a == [m EXCEPT !.response[r] = answer]
  <2>1. mem' = a /\ Reports(r)
    BY <1>2 DEF DidReceiveResponse
  <2>2. Onto(mem, m) /\ m.life[r] # "unused"
    BY <1>f, <2>1
  <2> HIDE DEF m
  <2>3. a \in Memory /\ Flags(m, a, r)
    BY <2>2 DEF Onto, Sound, Memory, Flags, SameMap, SameReasons
  <2> HIDE DEF a
  <2>4. Onto(m, a)
    BY <2>2, <2>3, FlagsOnto DEF Onto
  <2> QED  BY <2>1, <2>2, <2>4, OntoTransitive
<1>3. ASSUME NEW r \in Resources, NEW m, Onto(mem, m), m.life[r] # "unused",
             mem' \in {Finished(m, r), Failed(m, r), Rejected(m, r)}
      PROVE  Onto(mem, mem')
  <2>0. m \in Memory /\ mem' \in {Finished(m, r), Failed(m, r), Rejected(m, r)}
    BY <1>3 DEF Onto, Sound
  <2>1. mem' \in Memory /\ Flags(m, mem', r)
    BY <2>0, EndedFields, Zenon
  <2>2. Onto(m, mem')
    BY <1>3, <2>1, FlagsOnto DEF Onto
  <2> QED  BY <1>3, <2>2, OntoTransitive
<1>4. ASSUME NEW r \in Resources, DidReceiveData(r) PROVE Onto(mem, mem')
  BY <1>0, <1>3, <1>4, <1>f, ReportOutcomes
<1>5. ASSUME NEW r \in Resources, DidFail(r) PROVE Onto(mem, mem')
  BY <1>3, <1>5, <1>f, ReportOutcomes
<1>6. ASSUME NEW r \in Resources, DidFinishLoading(r) PROVE Onto(mem, mem')
  BY <1>0, <1>3, <1>6, <1>f, EndRequestOnto, ReportOutcomes
<1> QED
  BY <1>1, <1>2, <1>4, <1>5, <1>6 DEF Network

\* What functions do when the calls they made have returned.
LEMMA ReturnOutcomes ==
    ASSUME BaseInv
    PROVE  LET r == Top.res
           IN /\ CancelReturn => stack # <<>> /\ mem' = mem /\ stack' = Below
              /\ FinishReturn =>
                    Running("finish") /\ mem' = EndRequest(mem, r) /\ stack' = Below
              /\ DataErrorReturn => Running("dataError") /\ mem' = mem /\ stack' = Below
              /\ DecodeErrorReturn =>
                    /\ Running("decodeError") /\ stack' = Below
                    /\ mem' = mem \/ mem' = Evict(mem, {r})
              /\ FailReturn =>
                    /\ Running("fail") /\ stack' = Below
                    /\ mem' = EndRequest(mem, r) \/ mem' = EndRequest(Evict(mem, {r}), r)
              /\ CancelledReturn =>
                    /\ Running("cancelled") /\ stack' = Below
                    /\ mem' = EndRequest(Evict(mem, {r}), r)
              /\ SwitchReturn =>
                    Running("switched") /\ mem' = EndRequest(mem, r) /\ stack' = Below
              /\ RevalidateReturn =>
                    /\ Running("refused") /\ stack' = Below
                    /\ mem' = [mem EXCEPT !.loading = @ \cup {r}]
<1>1. CancelReturn => stack # <<>> /\ mem' = mem /\ stack' = Below
  BY DEF CancelReturn, Running
<1>2. FinishReturn => Running("finish") /\ mem' = EndRequest(mem, Top.res) /\ stack' = Below
  BY DEF FinishReturn, Ends
<1>3. DataErrorReturn => Running("dataError") /\ mem' = mem /\ stack' = Below
  BY DEF DataErrorReturn, Ends
<1>4. DecodeErrorReturn =>
         /\ Running("decodeError") /\ stack' = Below
         /\ mem' = mem \/ mem' = Evict(mem, {Top.res})
  BY DEF DecodeErrorReturn, Ends
<1>5. FailReturn =>
         /\ Running("fail") /\ stack' = Below
         /\ \/ mem' = EndRequest(mem, Top.res)
            \/ mem' = EndRequest(Evict(mem, {Top.res}), Top.res)
  BY DEF FailReturn, Ends
<1>6. CancelledReturn =>
         /\ Running("cancelled") /\ stack' = Below
         /\ mem' = EndRequest(Evict(mem, {Top.res}), Top.res)
  BY DEF CancelledReturn, Ends
<1>7. SwitchReturn => Running("switched") /\ mem' = EndRequest(mem, Top.res) /\ stack' = Below
  BY DEF SwitchReturn, Ends
<1>8. RevalidateReturn =>
         /\ Running("refused") /\ stack' = Below
         /\ mem' = [mem EXCEPT !.loading = @ \cup {Top.res}]
  BY DEF RevalidateReturn
<1> QED  BY <1>1, <1>2, <1>3, <1>4, <1>5, <1>6, <1>7, <1>8

\* The function on the top of the stack goes on.
Goes(f) == stack # <<>> /\ f \in Frames /\ f.op = Top.op /\ stack' = <<f>> \o Below

LEMMA GoingOn ==
    ASSUME BaseInv
    PROVE  /\ \A c \in Clients : Tell(c) =>
                 /\ Walking /\ c \in Top.left /\ mem' = mem
                 /\ \E f : Goes(f) /\ f.res = Top.res /\ f.left = Top.left \ {c}
                           /\ f.stage # "loadDone"
           /\ LoadDone =>
                 /\ mem' = mem
                 /\ \E f : Goes(f) /\ f.res = Top.res /\ f.left = Top.left
                           /\ Top.op \in {"fail", "cancelled", "refused", "refusedNew"}
           /\ RefusedReturn =>
                 /\ mem' = EndRequest(mem, Top.res) /\ Top.op \in Refused
                 /\ \E f : Goes(f) /\ f.res = Top.res /\ f.left = Top.left
           /\ Switch =>
                 /\ Running("switched") /\ Top.left = {}
                 /\ Top.stage \in {"walk", "client"}
                 /\ mem' = ClearRevalidation(mem, Top.res)
                 /\ \E f : Goes(f) /\ f.res = Top.res /\ f.left = {} /\ f.stage = "loadDone"
<1>t. stack # <<>> /\ Top.op \in LoadOps => Top \in LoadFrame
  BY TopFacts
<1>1. ASSUME NEW c \in Clients, Tell(c)
      PROVE  /\ Walking /\ c \in Top.left /\ mem' = mem
             /\ \E f : Goes(f) /\ f.res = Top.res /\ f.left = Top.left \ {c}
                       /\ f.stage # "loadDone"
  <2>1. /\ Walking /\ c \in Top.left /\ mem' = mem
        /\ \E g \in {"walk", "client"} :
              stack' = <<[Top EXCEPT !.left = @ \ {c}, !.stage = g]>> \o Below
    BY <1>1 DEF Tell
  <2>2. stack # <<>> /\ Top.op \in LoadOps
    BY <2>1 DEF Walking
  <2>3. PICK g \in {"walk", "client"} :
           stack' = <<[Top EXCEPT !.left = @ \ {c}, !.stage = g]>> \o Below
    BY <2>1
  <2> DEFINE f == [Top EXCEPT !.left = @ \ {c}, !.stage = g]
  <2>4. /\ f \in Frames /\ f.op = Top.op /\ f.res = Top.res /\ f.left = Top.left \ {c}
        /\ f.stage = g
    BY <1>t, <2>2 DEF LoadFrame, Frames
  <2>5. stack' = <<f>> \o Below
    BY <2>3
  <2> HIDE DEF f
  <2> QED  BY <2>1, <2>2, <2>4, <2>5 DEF Goes
<1>2. ASSUME NEW g \in {"loadDone", "return"}, stack # <<>>, Top.op \in LoadOps,
             stack' = <<[Top EXCEPT !.stage = g]>> \o Below
      PROVE  \E f : Goes(f) /\ f.res = Top.res /\ f.left = Top.left /\ f.stage = g
  <2> DEFINE f == [Top EXCEPT !.stage = g]
  <2>1. /\ f \in Frames /\ f.op = Top.op /\ f.res = Top.res /\ f.left = Top.left
        /\ f.stage = g
    BY <1>2, <1>t DEF LoadFrame, Frames
  <2>2. stack' = <<f>> \o Below
    BY <1>2
  <2> HIDE DEF f
  <2> QED  BY <1>2, <2>1, <2>2 DEF Goes
<1>3. ASSUME LoadDone
      PROVE  /\ mem' = mem
             /\ \E f : Goes(f) /\ f.res = Top.res /\ f.left = Top.left
                       /\ Top.op \in {"fail", "cancelled", "refused", "refusedNew"}
  <2>1. /\ stack # <<>> /\ Top.op \in LoadOps /\ mem' = mem
        /\ Top.op \in {"fail", "cancelled", "refused", "refusedNew"}
        /\ stack' = <<[Top EXCEPT !.stage = "loadDone"]>> \o Below
    BY <1>3 DEF LoadDone, Walking
  <2>2. \E f : Goes(f) /\ f.res = Top.res /\ f.left = Top.left /\ f.stage = "loadDone"
    BY <1>2, <2>1
  <2> QED  BY <2>1, <2>2
<1>4. ASSUME RefusedReturn
      PROVE  /\ mem' = EndRequest(mem, Top.res) /\ Top.op \in Refused
             /\ \E f : Goes(f) /\ f.res = Top.res /\ f.left = Top.left
  <2>1. /\ stack # <<>> /\ Top.op \in Refused /\ mem' = EndRequest(mem, Top.res)
        /\ stack' = <<[Top EXCEPT !.stage = "return"]>> \o Below
    BY <1>4 DEF RefusedReturn, Ends, Running, Refused
  <2>2. Top.op \in LoadOps
    BY <2>1 DEF LoadOps, Refused
  <2>3. \E f : Goes(f) /\ f.res = Top.res /\ f.left = Top.left /\ f.stage = "return"
    BY <1>2, <2>1, <2>2
  <2> QED  BY <2>1, <2>3
<1>5. ASSUME Switch
      PROVE  /\ Running("switched") /\ Top.left = {}
             /\ Top.stage \in {"walk", "client"}
             /\ mem' = ClearRevalidation(mem, Top.res)
             /\ \E f : Goes(f) /\ f.res = Top.res /\ f.left = {} /\ f.stage = "loadDone"
  <2>1. /\ Running("switched") /\ Top.left = {}
        /\ Top.stage \in {"walk", "client"}
        /\ mem' = ClearRevalidation(mem, Top.res)
        /\ stack' = <<[Top EXCEPT !.stage = "loadDone"]>> \o Below
    BY <1>5, Zenon DEF Switch, Ends
  <2>2. stack # <<>> /\ Top.op \in LoadOps
    BY <2>1 DEF Running, LoadOps
  <2>3. \E f : Goes(f) /\ f.res = Top.res /\ f.left = Top.left /\ f.stage = "loadDone"
    BY <1>2, <2>1, <2>2
  <2> QED  BY <2>1, <2>3
<1> QED  BY <1>1, <1>3, <1>4, <1>5

\* ClearRevalidation of what revalidates nothing changes nothing that counts.
LEMMA ClearedOnto ==
    ASSUME NEW m, Sound(m), NEW n \in Resources
    PROVE  Onto(m, ClearRevalidation(m, n))
<1>1. CASE m.revalidates[n] # None
  BY <1>1, ClearRevalidationOnto
<1>2. CASE m.revalidates[n] = None
  <2> DEFINE a == [m EXCEPT !.proxy[None] = None]
             b(x) == [x EXCEPT !.revalidates[n] = None]
  <2>1. a = m
    BY NoneAssumption DEF Sound, Memory
  <2>2. \A x \in Memory : x.revalidates = m.revalidates => b(x) = x
    BY <1>2 DEF Memory
  <2> DEFINE m1 == IF m.proxy[None] = n THEN DeleteIfPossible(a, {None}) ELSE m
  <2>3. ClearRevalidation(m, n) = DeleteIfPossible(b(m1), {n})
    BY <1>2 DEF ClearRevalidation
  <2> HIDE DEF a, b
  <2>4. Onto(m, m1) /\ m1 \in Memory /\ m1.revalidates = m.revalidates
    <3>1. LET x == DeleteIfPossible(m, {None}) IN Onto(m, x) /\ x.revalidates = m.revalidates
      BY DeleteIfPossibleLess, LessOnto, SameMapNamed DEF Sound, SameReasons
    <3> QED  BY <2>1, <3>1, OntoSame DEF Onto, Sound
  <2> HIDE DEF m1
  <2>5. b(m1) = m1
    BY <2>2, <2>4
  <2>6. Onto(m1, DeleteIfPossible(m1, {n}))
    BY <2>4, DeleteIfPossibleLess, LessOnto, SameMapNamed DEF Onto, Sound
  <2> QED  BY <2>3, <2>4, <2>5, <2>6, OntoTransitive
<1> QED  BY <1>1, <1>2

\* The heap without a resource that pretended to be in the cache.
Dropped(m, r) == Delete([m EXCEPT !.inCache = @ \ {r}], {r})

LEMMA DroppedFields ==
    ASSUME NEW m \in Memory, NEW r \in Resources
    PROVE  LET d == Dropped(m, r)
           IN /\ d \in Memory /\ SameReasons(m, d) /\ d.at = m.at /\ d.map = m.map
              /\ d.inCache = m.inCache \ {r}
              /\ d.loading = m.loading \ {r} /\ d.error = m.error \ {r}
              /\ \A x \in Resources :
                    /\ d.life[x] = IF x = r THEN "deleted" ELSE m.life[x]
                    /\ d.response[x] = IF x = r THEN "none" ELSE m.response[x]
<1> DEFINE a == [m EXCEPT !.inCache = @ \ {r}]
<1>1. /\ a \in Memory /\ SameReasons(m, a) /\ a.at = m.at /\ a.map = m.map
      /\ a.inCache = m.inCache \ {r} /\ a.life = m.life
      /\ a.loading = m.loading /\ a.error = m.error /\ a.response = m.response
  BY DEF Memory, SameReasons
<1> HIDE DEF a
<1> DEFINE d == Delete(a, {r})
<1>2. /\ d \in Memory /\ SameReasons(a, d) /\ d.at = a.at /\ d.map = a.map
      /\ d.inCache = a.inCache
      /\ d.life = [x \in Resources |-> IF x \in {r} THEN "deleted" ELSE a.life[x]]
  BY <1>1, DeleteEffect
<1>3. /\ d.loading = a.loading \ {r} /\ d.error = a.error \ {r}
      /\ d.response = [x \in Resources |-> IF x \in {r} THEN "none" ELSE a.response[x]]
  BY <1>1 DEF Delete, Memory
<1>4. Dropped(m, r) = d
  BY DEF Dropped, a
<1> HIDE DEF d
<1> QED  BY <1>1, <1>2, <1>3, <1>4 DEF SameReasons

LEMMA LoadReturnOnto ==
    ASSUME BaseInv, LoadReturn, ~RevalidateReturn
    PROVE  /\ Running("refusedNew") /\ stack' = Below /\ Top.res \in Resources
           /\ mem' = Dropped(mem, Top.res)
           /\ Onto(mem, mem')
<1>1. Running("refusedNew") /\ stack' = Below /\ mem' = Dropped(mem, Top.res)
  BY DEF LoadReturn, Ends, Dropped
<1> DEFINE r == Top.res
<1>2. r \in Resources /\ mem.life[r] # "unused" /\ Forgotten(mem, r)
  BY <1>1, TopFacts DEF Running, LoadOps, BaseInv, Apart
<1>3. Sound(mem)
  BY BaseTypes
<1> HIDE DEF r
<1> DEFINE d == Dropped(mem, r)
<1>4. /\ d \in Memory /\ SameReasons(mem, d) /\ d.at = mem.at /\ d.map = mem.map
      /\ d.inCache = mem.inCache \ {r}
      /\ d.loading = mem.loading \ {r} /\ d.error = mem.error \ {r}
      /\ \A x \in Resources :
            /\ d.life[x] = IF x = r THEN "deleted" ELSE mem.life[x]
            /\ d.response[x] = IF x = r THEN "none" ELSE mem.response[x]
  BY <1>2, <1>3, DroppedFields DEF Sound
<1> HIDE DEF d
<1>5. Named(d)
  BY <1>2, <1>3, <1>4 DEF Sound, Named, Forgotten
<1>6. \A x \in Resources : CanDelete(d, x) = CanDelete(mem, x)
  BY <1>4, SameCanDelete
<1>7. Fresh(d)
  BY <1>3, <1>4, <1>6 DEF Sound, Fresh, SameReasons
<1>8. Persists(mem, d)
  BY <1>4 DEF Persists, SameReasons, Forgotten
<1> QED  BY <1>1, <1>2, <1>4, <1>5, <1>7, <1>8 DEF Onto, Sound, r, d

LEMMA ReturnOnto ==
    ASSUME BaseInv, Returning, ~RequestResource
    PROVE  Onto(mem, mem')
<1>0. Sound(mem) /\ Onto(mem, mem) /\ mem \in Memory
  BY BaseTypes, OntoSame
<1>l. \A op \in LoadOps : Running(op) =>
         Top.res \in Resources /\ mem.life[Top.res] # "unused"
  BY TopFacts DEF Running
<1>1. ASSUME mem' = mem PROVE Onto(mem, mem')
  BY <1>0, <1>1
<1>2. ASSUME NEW r \in Resources, CancelOne(r) PROVE Onto(mem, mem')
  <2>1. mem' = mem \/ mem' = RevalidationFailed(mem, r)
    BY <1>2 DEF CancelOne
  <2> QED  BY <1>0, <2>1, RevalidationFailedOnto
<1>3. ASSUME NEW r \in Resources,
             mem' \in {EndRequest(mem, r), Evict(mem, {r}), EndRequest(Evict(mem, {r}), r)}
      PROVE  Onto(mem, mem')
  <2>1. Onto(mem, EndRequest(mem, r)) /\ Onto(mem, Evict(mem, {r}))
    BY <1>0, EndRequestOnto, EvictOnto
  <2>2. Onto(Evict(mem, {r}), EndRequest(Evict(mem, {r}), r))
    BY <2>1, EndRequestOnto DEF Onto
  <2> QED  BY <1>3, <2>1, <2>2, OntoTransitive
<1>4. ASSUME \/ FinishReturn \/ DecodeErrorReturn \/ FailReturn \/ CancelledReturn
             \/ SwitchReturn
      PROVE  Onto(mem, mem')
  <2>1. /\ Top.res \in Resources
        /\ \/ mem' = mem
           \/ mem' \in {EndRequest(mem, Top.res), Evict(mem, {Top.res}),
                        EndRequest(Evict(mem, {Top.res}), Top.res)}
    BY <1>4, <1>l, ReturnOutcomes DEF LoadOps
  <2> QED  BY <1>0, <1>3, <2>1
<1>5. ASSUME RefusedReturn PROVE Onto(mem, mem')
  <2>1. Top.res \in Resources /\ mem' = EndRequest(mem, Top.res)
    BY <1>5, TopFacts, GoingOn DEF Goes, Refused, LoadOps
  <2> QED  BY <1>0, <2>1, EndRequestOnto
<1>6. ASSUME Switch PROVE Onto(mem, mem')
  <2>1. Top.res \in Resources /\ mem' = ClearRevalidation(mem, Top.res)
    BY <1>6, <1>l, GoingOn DEF LoadOps
  <2> QED  BY <1>0, <2>1, ClearedOnto
<1>7. ASSUME LoadReturn PROVE Onto(mem, mem')
  <2>1. CASE RevalidateReturn
    <3> DEFINE r == Top.res
               a == [mem EXCEPT !.loading = @ \cup {r}]
    <3>1. r \in Resources /\ mem.life[r] # "unused" /\ mem' = a
      BY <2>1, <1>l, ReturnOutcomes DEF LoadOps
    <3> HIDE DEF r
    <3>2. a \in Memory /\ Flags(mem, a, r)
      BY <1>0, <3>1 DEF Memory, Flags, SameMap, SameReasons
    <3> QED  BY <1>0, <3>1, <3>2, FlagsOnto
  <2>2. CASE ~RevalidateReturn
    BY <1>7, <2>2, LoadReturnOnto
  <2> QED  BY <2>1, <2>2
<1>8. CASE CancelReturn \/ LoadDone \/ DataErrorReturn \/ \E c \in Clients : Tell(c)
  BY <1>1, <1>8, ReturnOutcomes, GoingOn
<1> QED  BY <1>2, <1>4, <1>5, <1>6, <1>7, <1>8 DEF Returning

\* Whatever a step does, what was created stays and what was not is not referred to.
LEMMA HeapStep ==
    ASSUME BaseInv, Next
    PROVE  Onto(mem, mem')
<1>1. CASE RequestResource
  BY <1>1, RequestOnto
<1>2. CASE \E d \in Documents, u \in URLs, p \in Policies, b \in Preloads :
              CheckForReload(d, u, p, b)
  BY <1>2, RequestOnto
<1>3. CASE \/ \E r \in Resources, c \in Clients : AddClient(r, c) \/ RemoveClient(r, c)
           \/ Prune \/ Flush
           \/ \E d \in Documents : ClearPreloads(d) \/ CancelRequests(d) \/ DestroyDocument(d)
  BY <1>3, OutsideOnto
<1>4. CASE Network
  BY <1>4, NetworkOnto
<1>5. CASE Returning
  BY <1>1, <1>5, ReturnOnto
<1> QED  BY <1>1, <1>2, <1>3, <1>4, <1>5 DEF Next, Outside

(***************************************************************************)
(* Where the functions under way come from.                                *)
(***************************************************************************)
StackFrom == \A f \in FramesOn(stack') : f.op \in LoadOps => Known(f) \/ NewLoad(f)

LEMMA PushedFrom ==
    ASSUME NEW s \in Seq(Frames), NEW f \in Frames, stack' = <<f>> \o s,
           \A g \in FramesOn(s) : g.op \in LoadOps => Known(g),
           f.op \in LoadOps => Known(f) \/ NewLoad(f)
    PROVE  StackFrom
BY PushFrames DEF StackFrom

\* A new resource whose load was refused is not in the map.
LEMMA RefusedForgotten ==
    ASSUME NEW m, Sound(m), NEW n \in Resources, m.life[n] = "unused",
           NEW u \in URLs, NEW d \in Documents
    PROVE  Forgotten(RefuseLoad(m, n, u, d), n) /\ RefuseLoad(m, n, u, d).revalidates[n] = None
<1> DEFINE c == Create(m, n, u, d)
           e == [c EXCEPT !.error = @ \cup {n}]
<1>1. c \in Memory /\ Creates(m, c, n, u, d)
  BY CreateFields DEF Sound
<1> HIDE DEF c
<1>2. e.map = c.map /\ e.revalidates = c.revalidates
  BY <1>1 DEF Memory
<1>3. RefuseLoad(m, n, u, d) = e
  BY DEF RefuseLoad, c
<1> HIDE DEF e
<1>n. n # None /\ n \notin m.inCache /\ \A x \in Resources : m.revalidates[x] # n
  BY NoneAssumption DEF Sound, Fresh
<1>r. m.revalidates[n] = None
  BY DEF Sound, Fresh, CanDelete
<1>4. Forgotten(m, n)
  BY <1>n DEF Sound, Named, Forgotten
<1> QED  BY <1>1, <1>2, <1>3, <1>4, <1>r DEF Forgotten, Creates

\* cancelRequests goes on.
LEMMA CancelOutcomes ==
    ASSUME BaseInv, NEW r \in Resources, CancelOne(r)
    PROVE  /\ Running("cancelAll")
           /\ \E f \in Frames :
                 /\ f.op = "cancelAll" /\ f.left = Top.left \ {r}
                 /\ \/ mem' = mem /\ stopped' = stopped /\ stack' = <<f>> \o Below
                    \/ /\ InFlight(r) /\ mem' = RevalidationFailed(mem, r)
                       /\ stopped' = stopped \cup {r}
                       /\ stack' = <<Load("cancelled", r, {})>> \o (<<f>> \o Below)
<1> DEFINE f == [Top EXCEPT !.left = @ \ {r}]
<1>1. Running("cancelAll") /\ r \in Top.left
  BY DEF CancelOne
<1>2. Top \in CancelFrame
  <2>1. TypeOK /\ Over(stack)
    BY BaseTypes
  <2> QED  BY <1>1, <2>1, TopFrame DEF Running
<1>3. f \in Frames /\ f.op = "cancelAll" /\ f.left = Top.left \ {r}
  BY <1>2 DEF CancelFrame, Frames
<1>4. \/ mem' = mem /\ stopped' = stopped /\ stack' = <<f>> \o Below
      \/ /\ InFlight(r) /\ mem' = RevalidationFailed(mem, r)
         /\ stopped' = stopped \cup {r}
         /\ stack' = <<Load("cancelled", r, {})>> \o (<<f>> \o Below)
  BY DEF CancelOne
<1> HIDE DEF f
<1> QED  BY <1>1, <1>3, <1>4

LEMMA CancelOrigin ==
    ASSUME BaseInv, NEW r \in Resources, CancelOne(r)
    PROVE  StackFrom
<1>1. PICK f \in Frames :
         /\ f.op = "cancelAll"
         /\ \/ mem' = mem /\ stack' = <<f>> \o Below
            \/ /\ InFlight(r)
               /\ stack' = <<Load("cancelled", r, {})>> \o (<<f>> \o Below)
  BY CancelOutcomes
<1>2. Running("cancelAll") /\ stack # <<>> /\ f.op \notin LoadOps
  BY <1>1, CancelOutcomes DEF Running, LoadOps
<1>3. Below \in Seq(Frames) /\ \A g \in FramesOn(Below) : Known(g)
  BY <1>2, TopFacts DEF Known
<1>4. /\ <<f>> \o Below \in Seq(Frames)
      /\ FramesOn(<<f>> \o Below) = {f} \cup FramesOn(Below)
  BY <1>3, PushFrames
<1> DEFINE g == Load("cancelled", r, {})
<1>5. g \in Frames /\ g.op = "cancelled" /\ g.res = r
  BY NewFrames DEF Load, LoadOps
<1> HIDE DEF g
<1>6. CASE stack' = <<f>> \o Below
  BY <1>2, <1>3, <1>6, PushedFrom
<1>7. CASE InFlight(r) /\ stack' = <<g>> \o (<<f>> \o Below)
  <2>1. NewLoad(g)
    BY <1>2, <1>5, <1>7 DEF NewLoad
  <2> QED  BY <1>2, <1>3, <1>4, <1>5, <1>7, <2>1, PushedFrom
<1> QED  BY <1>1, <1>6, <1>7 DEF g

LEMMA StackOrigin ==
    ASSUME BaseInv, Next
    PROVE  StackFrom
<1>0. /\ stack \in Seq(Frames) /\ mem \in Memory
      /\ \A f \in FramesOn(stack) : Known(f)
  BY BaseTypes DEF Known
<1>k. ASSUME stack' = stack PROVE StackFrom
  BY <1>0, <1>k DEF StackFrom
<1>b. ASSUME stack # <<>> PROVE \A f \in FramesOn(Below) : Known(f)
  BY <1>0, <1>b, TopFacts
<1>p. ASSUME stack # <<>>, stack' = Below PROVE StackFrom
  BY <1>b, <1>p DEF StackFrom
<1>g. ASSUME NEW f, Goes(f), f.res = Top.res PROVE StackFrom
  <2>1. Known(f) /\ Below \in Seq(Frames) /\ f \in Frames /\ stack' = <<f>> \o Below
    BY <1>g, TopFacts DEF Goes, Known
  <2> QED  BY <1>b, <1>g, <2>1, PushedFrom DEF Goes
<1>1. ASSUME NEW d \in Documents, NEW u \in URLs, NEW p \in Policies, NEW b \in Preloads,
             CheckForReload(d, u, p, b)
      PROVE  StackFrom
  <2> DEFINE f == [op |-> "request", doc |-> d, url |-> u, policy |-> p, preload |-> b]
  <2>1. f \in Frames /\ f.op \notin LoadOps /\ Waiting(d, u, p, b) = <<f>> \o stack
    BY DEF Frames, RequestFrame, LoadOps, Waiting
  <2> HIDE DEF f
  <2>2. /\ Waiting(d, u, p, b) \in Seq(Frames)
        /\ FramesOn(Waiting(d, u, p, b)) = {f} \cup FramesOn(stack)
    BY <1>0, <2>1, PushFrames
  <2>3. ASSUME stack' = Waiting(d, u, p, b) PROVE StackFrom
    BY <1>0, <2>1, <2>2, <2>3 DEF StackFrom
  <2>4. ASSUME NEW n \in Resources, Refusing(d, u, p, b, n) PROVE StackFrom
    <3> DEFINE g == Load("refused", n, {})
    <3>1. g \in Frames /\ g.op = "refused" /\ g.res = n
      BY NewFrames DEF Load, LoadOps
    <3>2. /\ stack' = <<g>> \o Waiting(d, u, p, b)
          /\ mem' = RefuseValidator(mem, n, mem.map[u], d) /\ Refusals
          /\ mem.life[n] = "unused" /\ mem.map[u] # None
      BY <2>4 DEF Refusing, Renews
    <3> HIDE DEF g
    <3>3. mem'.life[n] # "unused" /\ mem'.revalidates[n] = None
      BY <3>2, NewValidator
    <3>r. ~Running("request")
      BY <1>1 DEF CheckForReload, InControl, Running, LoadOps
    <3>4. NewLoad(g)
      BY <3>1, <3>2, <3>3, <3>r DEF NewLoad, Refused
    <3> QED  BY <1>0, <2>1, <2>2, <3>1, <3>2, <3>4, PushedFrom
  <2> QED  BY <1>1, <2>3, <2>4, CheckOutcomes DEF Rechecks, Validating
<1>2. ASSUME RequestResource PROVE StackFrom
  <2>1. stack # <<>> /\ Top.op = "request"
    BY <1>2, RequestOutcomes
  <2>2. PICK m : /\ Served(m)
                 /\ \/ Skipping(m) \/ Giving(m)
                    \/ \E n \in Resources : Starting(m, n) \/ RefusingNew(m, n)
    BY <1>2, RequestOutcomes
  <2>3. ASSUME NEW n \in Resources, RefusingNew(m, n) PROVE StackFrom
    <3> DEFINE g == Load("refusedNew", n, {})
    <3>1. g \in Frames /\ g.op = "refusedNew" /\ g.res = n
      BY NewFrames DEF Load, LoadOps
    <3>2. /\ stack' = <<g>> \o Below /\ Below \in Seq(Frames) /\ Refusals
          /\ mem' = RefuseLoad(m, n, Top.url, Top.doc) /\ mem.life[n] = "unused"
          /\ Sound(m) /\ m.life[n] = "unused"
          /\ Top.doc \in Documents /\ Top.url \in URLs
      BY <2>1, <2>2, <2>3, TopFacts, ServedOnto DEF RefusingNew, Onto
    <3> HIDE DEF g
    <3>3. mem'.life[n] # "unused"
      BY <3>2, NewResource
    <3>4. Forgotten(mem', n) /\ mem'.revalidates[n] = None
      BY <3>2, RefusedForgotten
    <3>5. NewLoad(g)
      BY <2>1, <3>1, <3>2, <3>3, <3>4 DEF NewLoad, Refused, Running
    <3> QED  BY <1>b, <2>1, <3>1, <3>2, <3>5, PushedFrom
  <2> QED  BY <1>p, <2>1, <2>2, <2>3 DEF Skipping, Giving, Starting
<1>3. ASSUME \/ \E r \in Resources, c \in Clients : AddClient(r, c) \/ RemoveClient(r, c)
             \/ Prune \/ Flush
             \/ \E d \in Documents : ClearPreloads(d) \/ DestroyDocument(d)
      PROVE  stack' = stack
  BY <1>3, Zenon DEF AddClient, RemoveClient, Prune, Flush, ClearPreloads, DestroyDocument
<1>4. ASSUME NEW d \in Documents, CancelRequests(d) PROVE StackFrom
  <2>1. PICK S \in SUBSET Resources : stack' = <<[op |-> "cancelAll", left |-> S]>> \o stack
    BY <1>4 DEF CancelRequests
  <2> DEFINE f == [op |-> "cancelAll", left |-> S]
  <2>2. f \in Frames /\ f.op \notin LoadOps /\ stack' = <<f>> \o stack
    BY <2>1 DEF Frames, CancelFrame, LoadOps
  <2> HIDE DEF f
  <2> QED  BY <1>0, <2>2, PushedFrom
<1>5. ASSUME NEW r \in Resources, Reports(r), NEW f \in Frames, f.res = r,
             f.op \in {"finish", "dataError", "decodeError", "fail", "switched"},
             \/ stack' = <<f>>
             \/ \E g \in Frames : g.op = "finish" /\ g.res = r /\ stack' = <<f, g>>,
             mem.response[r] # "none" \/ (f.op \in {"fail", "switched"} /\ stack' = <<f>>)
      PROVE  StackFrom
  <2>1. ASSUME NEW g, g.res = r,
               g.op \in {"finish", "dataError", "decodeError", "fail", "switched"},
               mem.response[r] # "none" \/ g.op \in {"fail", "switched"}
        PROVE  NewLoad(g)
    BY <1>5, <2>1 DEF NewLoad
  <2>2. CASE stack' = <<f>>
    <3>1. FramesOn(stack') = {f}
      BY <2>2, FewFrames
    <3> QED  BY <1>5, <2>1, <3>1 DEF StackFrom
  <2>3. ASSUME NEW g \in Frames, g.op = "finish", g.res = r, stack' = <<f, g>>
        PROVE  StackFrom
    <3>0. <<f, g>> # <<f>>
      OBVIOUS
    <3>r. mem.response[r] # "none"
      BY <1>5, <2>3, <3>0
    <3>1. FramesOn(stack') = {f, g}
      BY <2>3, FewFrames
    <3> QED  BY <1>5, <2>1, <2>3, <3>1, <3>r DEF StackFrom
  <2> QED  BY <1>5, <2>2, <2>3
<1>6. ASSUME NEW r \in Resources,
             \/ \E answer \in Answers : NotModified(r, answer) \/ DidReceiveResponse(r, answer)
             \/ DidReceiveData(r) \/ DidFinishLoading(r) \/ DidFail(r)
      PROVE  StackFrom
  <2>1. mem.clients[r] \subseteq Clients
    BY <1>0 DEF Memory
  <2>2. \A op \in LoadOps, left \in SUBSET Clients :
           Load(op, r, left) \in Frames /\ Load(op, r, left).op = op /\ Load(op, r, left).res = r
    BY NewFrames DEF Load
  <2>3. ASSUME NEW answer \in Answers, NotModified(r, answer) PROVE StackFrom
    <3>1. Reports(r) /\ stack' = <<Load("switched", r, mem.clients[r])>>
      BY <2>3, Zenon DEF NotModified, Switched
    <3> QED  BY <1>5, <2>1, <2>2, <3>1 DEF LoadOps
  <2>4. CASE DidReceiveData(r)
    <3>1. PICK op \in {"dataError", "decodeError"} : stack' = <<Load(op, r, mem.clients[r])>>
      BY <2>4, ReportOutcomes
    <3> QED  BY <1>5, <2>1, <2>2, <2>4, <3>1, ReportOutcomes DEF LoadOps
  <2>5. CASE DidFinishLoading(r)
    <3>1. /\ Reports(r) /\ mem.response[r] # "none"
          /\ \/ stack' = stack
             \/ stack' = <<Load("finish", r, mem.clients[r])>>
             \/ stack' = <<Load("decodeError", r, mem.clients[r]), Load("finish", r, {})>>
      BY <2>5, ReportOutcomes
    <3> QED  BY <1>5, <1>k, <2>1, <2>2, <3>1 DEF LoadOps
  <2>6. CASE DidFail(r)
    BY <1>5, <2>1, <2>2, <2>6, ReportOutcomes DEF LoadOps
  <2>7. ASSUME NEW answer \in Answers, DidReceiveResponse(r, answer) PROVE StackFrom
    BY <1>k, <2>7, ReportOutcomes
  <2> QED  BY <1>6, <2>3, <2>4, <2>5, <2>6, <2>7
<1>7. ASSUME NEW r \in Resources, CancelOne(r) PROVE StackFrom
  BY <1>7, CancelOrigin
<1>8. ASSUME \/ CancelReturn \/ FinishReturn \/ DataErrorReturn \/ DecodeErrorReturn
             \/ FailReturn \/ CancelledReturn \/ SwitchReturn \/ LoadReturn
      PROVE  StackFrom
  <2>1. stack # <<>> /\ stack' = Below
    BY <1>8, ReturnOutcomes, LoadReturnOnto DEF Running
  <2> QED  BY <1>p, <2>1
<1>9. ASSUME \/ LoadDone \/ RefusedReturn \/ Switch \/ \E c \in Clients : Tell(c)
      PROVE  StackFrom
  <2>1. \E f : Goes(f) /\ f.res = Top.res
    BY <1>9, GoingOn
  <2> QED  BY <1>g, <2>1
<1>n. Network => StackFrom
  BY <1>6 DEF Network
<1>o. Outside => StackFrom
  BY <1>1, <1>3, <1>4, <1>k DEF Outside
<1>r. Returning => StackFrom
  BY <1>2, <1>7, <1>8, <1>9 DEF Returning
<1> QED  BY <1>n, <1>o, <1>r DEF Next

LEMMA FrameResources ==
    ASSUME NEW s \in Seq(Frames), NEW f \in FramesOn(s), f.op \in LoadOps
    PROVE  f.res \in Resources
<1>1. f \in Frames
  BY DEF FramesOn
<1> QED  BY <1>1, FrameKinds DEF LoadFrame

LEMMA BaseStep == BaseInv /\ [Next]_vars => BaseInv'
<1> SUFFICES ASSUME BaseInv, [Next]_vars PROVE BaseInv'
  OBVIOUS
<1>1. LeakInv'
  BY LeakStep DEF BaseInv
<1>2. CASE Next
  <2>1. Onto(mem, mem') /\ StackFrom
    BY <1>2, HeapStep, StackOrigin
  <2>2. /\ \A f \in FramesOn(stack') : f.op \in LoadOps => f.res \in Resources
        /\ \A f \in FramesOn(stack) : f.op \in LoadOps => f.res \in Resources
    <3>1. stack \in Seq(Frames) /\ stack' \in Seq(Frames)
      BY <1>1, BaseTypes DEF LeakInv, TypeOK, Frames
    <3> QED  BY <3>1, FrameResources
  <2>3. ASSUME NEW f \in FramesOn(stack'), f.op \in LoadOps
        PROVE  mem'.life[f.res] # "unused"
    <3>1. CASE Known(f)
      BY <2>1, <2>2, <2>3, <3>1 DEF Known, BaseInv, UsedFrames, Onto, Persists
    <3>2. CASE NewLoad(f)
      <4>1. InFlight(f.res) => mem.life[f.res] # "unused"
        BY <2>2, <2>3, ReferencesUsed
      <4> QED  BY <2>1, <2>2, <2>3, <3>2, <4>1 DEF NewLoad, Reports, Onto, Persists
    <3> QED  BY <2>1, <2>3, <3>1, <3>2 DEF StackFrom
  <2>4. ASSUME NEW f \in FramesOn(stack'), f.op = "refusedNew"
        PROVE  Forgotten(mem', f.res)
    <3>0. f.op \in LoadOps
      BY <2>4 DEF LoadOps
    <3>1. CASE Known(f)
      <4>1. PICK g \in FramesOn(stack) : g.op = f.op /\ g.res = f.res
        BY <3>1 DEF Known
      <4>2. Forgotten(mem, f.res) /\ mem.life[f.res] # "unused" /\ f.res \in Resources
        BY <2>2, <2>4, <3>0, <4>1 DEF BaseInv, Apart, UsedFrames
      <4> QED  BY <2>1, <4>2 DEF Onto, Persists
    <3>2. CASE NewLoad(f)
      BY <2>4, <3>2 DEF NewLoad
    <3> QED  BY <2>1, <2>4, <3>0, <3>1, <3>2 DEF StackFrom
  <2> QED  BY <1>1, <2>1, <2>3, <2>4 DEF BaseInv, UsedFrames, Apart, Onto
<1>3. CASE UNCHANGED vars
  <2>1. mem' = mem /\ stack' = stack
    BY <1>3 DEF vars
  <2> QED  BY <1>1, <2>1 DEF BaseInv, UsedFrames, Apart, FramesOn
<1> QED  BY <1>2, <1>3

LEMMA BaseInit == Init => BaseInv
<1> SUFFICES ASSUME Init PROVE BaseInv
  OBVIOUS
<1>1. LeakInv
  BY LeakInit
<1>2. stack = <<>>
  BY DEF Init
<1>3. UsedFrames /\ Apart
  BY <1>2, NoFrames DEF UsedFrames, Apart
<1>4. Sound(mem)
  <2>1. mem \in Memory
    BY <1>1 DEF LeakInv, TypeOK
  <2>2. /\ \A u \in URLs : mem.map[u] = None
        /\ mem.inCache = {} /\ mem.loading = {} /\ mem.error = {}
        /\ \A r \in Resources : /\ mem.clients[r] = {} /\ mem.request[r] = None
                                /\ mem.revalidates[r] = None /\ mem.proxy[r] = None
        /\ \A d \in Documents, u \in URLs : mem.handle[d][u] = None
        /\ \A d \in Documents : mem.preloads[d] = {}
        /\ \A r \in Resources : mem.response[r] = "none"
    BY DEF Init
  <2>3. \A r \in Resources : CanDelete(mem, r)
    BY <2>2, NoneAssumption DEF CanDelete, Preloaded, HasHandles
  <2> QED  BY <2>1, <2>2, <2>3, NoneAssumption DEF Sound, Named, Fresh
<1> QED  BY <1>1, <1>3, <1>4 DEF BaseInv

(***************************************************************************)
(* The map and m_inCache.  X are the resources that pretend to be in the   *)
(* cache, E those whose loads are ending.                                  *)
(***************************************************************************)
Loads(s, ops) == {f.res : f \in {g \in FramesOn(s) : g.op \in ops}}

Unnamed(m, X) ==
    \A r \in X : /\ m.clients[r] = {} /\ m.revalidates[r] = None
                 /\ ~Preloaded(m, r) /\ ~HasHandles(m, r)

Exact(m, X) == \A r \in m.inCache : m.map[m.at[r]] = r \/ r \in X

\* A validator has the URL of what it validates, no answer yet, was not preloaded,
\* and is validated by nobody.
Chained(m) ==
    \A n \in Resources : m.revalidates[n] # None =>
        /\ m.at[n] = m.at[m.revalidates[n]]
        /\ m.response[n] = "none"
        /\ ~Preloaded(m, n)
        /\ m.revalidates[m.revalidates[n]] = None

Cached(m, E) ==
    \A n \in Resources :
        m.request[n] # None /\ n \notin E /\ m.revalidates[n] # None => n \in m.inCache

MapOK(m, X, E) == Unnamed(m, X) /\ Exact(m, X) /\ Chained(m) /\ Cached(m, E)

Pretending == Loads(stack, {"refusedNew"})
EndingLoads == Loads(stack, Ending)

\* Frames of loads whose resources validate nothing.
Done ==
    \A f \in FramesOn(stack) :
        f.op \in {"decodeError", "refused", "refusedNew"} => mem.revalidates[f.res] = None

\* What pretends to be in the cache has no other load.
Alone ==
    \A f, g \in FramesOn(stack) :
        f.op = "refusedNew" /\ g.op \in LoadOps /\ g.res = f.res => g.op = "refusedNew"

MapInv == BaseInv /\ MapOK(mem, Pretending, EndingLoads) /\ Done /\ Alone

LEMMA PushLoads ==
    ASSUME NEW s \in Seq(Frames), NEW f \in Frames, NEW ops
    PROVE  /\ f.op \in ops => Loads(<<f>> \o s, ops) = {f.res} \cup Loads(s, ops)
           /\ f.op \notin ops => Loads(<<f>> \o s, ops) = Loads(s, ops)
           /\ <<f>> \o s \in Seq(Frames)
BY PushFrames DEF Loads

LEMMA PopLoads ==
    ASSUME NEW s \in Seq(Frames), s # <<>>, NEW ops
    PROVE  /\ Head(s).op \in ops => Loads(s, ops) = {Head(s).res} \cup Loads(Tail(s), ops)
           /\ Head(s).op \notin ops => Loads(s, ops) = Loads(Tail(s), ops)
BY PopFrames DEF Loads

LEMMA NoLoads == \A ops : Loads(<<>>, ops) = {}
BY NoFrames DEF Loads

LEMMA MapPresent ==
    ASSUME MapInv
    PROVE  /\ \A r \in Pretending : r \in Resources /\ Forgotten(mem, r) /\ r # None
           /\ \A r : InFlight(r) <=> mem.request[r] # None /\ r \notin EndingLoads
<1>1. \A r \in Pretending : r \in Resources /\ Forgotten(mem, r)
  <2>1. ASSUME NEW r \in Pretending PROVE r \in Resources /\ Forgotten(mem, r)
    <3>1. PICK f \in FramesOn(stack) : f.op = "refusedNew" /\ f.res = r
      BY DEF Pretending, Loads
    <3>2. f.op \in LoadOps /\ stack \in Seq(Frames)
      BY <3>1, BaseTypes DEF LoadOps, MapInv
    <3> QED  BY <3>1, <3>2, FrameResources DEF MapInv, BaseInv, Apart
  <2> QED  BY <2>1
<1>2. \A r : InFlight(r) <=> mem.request[r] # None /\ r \notin EndingLoads
  BY InFlightFrames DEF EndingLoads, Loads
<1> QED  BY <1>1, <1>2, NoneAssumption

(***************************************************************************)
(* The operations keep it.                                                 *)
(***************************************************************************)
LEMMA LessMap ==
    ASSUME NEW m \in Memory, NEW X \in SUBSET Resources, NEW E, MapOK(m, X, E),
           NEW n, Less(m, n), SameMap(m, n)
    PROVE  MapOK(n, X, E)
<1>p. \A r \in Resources : Preloaded(n, r) => Preloaded(m, r)
  BY DEF Less, Preloaded
<1>h. \A r \in Resources : HasHandles(n, r) => HasHandles(m, r)
  BY NoneAssumption DEF Less, HasHandles
<1>1. Unnamed(n, X)
  BY <1>p, <1>h DEF Less, MapOK, Unnamed
<1>2. Exact(n, X)
  BY DEF SameMap, MapOK, Exact
<1>3. Chained(n)
  <2>1. ASSUME NEW v \in Resources, n.revalidates[v] # None
        PROVE  /\ n.at[v] = n.at[n.revalidates[v]]
               /\ n.response[v] = "none"
               /\ ~Preloaded(n, v)
               /\ n.revalidates[n.revalidates[v]] = None
    <3>1. m.revalidates[v] = n.revalidates[v] /\ m.revalidates[v] \in Resources
      BY <2>1 DEF Less, Memory
    <3>2. n.revalidates[m.revalidates[v]] = None
      BY <2>1, <3>1 DEF Less, MapOK, Chained
    <3> QED  BY <1>p, <2>1, <3>1, <3>2 DEF Less, MapOK, Chained
  <2> QED  BY <2>1 DEF Chained
<1>4. Cached(n, E)
  BY DEF Less, SameMap, MapOK, Cached
<1> QED  BY <1>1, <1>2, <1>3, <1>4 DEF MapOK

LEMMA EvictMap ==
    ASSUME NEW m, Sound(m), NEW X \in SUBSET Resources, NEW E, MapOK(m, X, E),
           NEW S \in SUBSET Resources, S \cap X = {},
           \A r \in S : m.revalidates[r] = None \/ r \in E
    PROVE  MapOK(Evict(m, S), X, E)
<1> DEFINE d == Evict(m, S)
<1>0. m \in Memory
  BY DEF Sound
<1>1. /\ Less(m, d) /\ SameReasons(m, d)
      /\ d.inCache = m.inCache \ S
      /\ \A u \in URLs : d.map[u] = IF Unmapped(m, S, u) THEN None ELSE m.map[u]
  BY <1>0, EvictLess
<1> HIDE DEF d
<1>2. Unnamed(d, X)
  BY <1>1 DEF SameReasons, MapOK, Unnamed, Preloaded, HasHandles
<1>3. ASSUME NEW r \in d.inCache, r \notin X PROVE d.map[d.at[r]] = r
  <2>1. r \in m.inCache /\ r \notin S /\ m.map[m.at[r]] = r /\ d.at = m.at
        /\ r \in Resources /\ m.at[r] \in URLs
    BY <1>0, <1>1, <1>3 DEF MapOK, Exact, Less, Memory
  <2>2. ~Unmapped(m, S, m.at[r])
    <3>1. ASSUME NEW x \in S \cap m.inCache, m.at[x] = m.at[r] PROVE FALSE
      BY <2>1, <3>1 DEF MapOK, Exact
    <3> QED  BY <3>1 DEF Unmapped
  <2> QED  BY <1>1, <2>1, <2>2
<1>4. Chained(d)
  <2>1. d.revalidates = m.revalidates /\ d.at = m.at /\ d.preloads = m.preloads
        /\ \A x \in Resources : d.response[x] \in {m.response[x], "none"}
    BY <1>1 DEF SameReasons, Less
  <2> QED  BY <2>1 DEF MapOK, Chained, Preloaded
<1>5. Cached(d, E)
  <2>1. d.revalidates = m.revalidates /\ d.request = m.request
    BY <1>1 DEF SameReasons
  <2> QED  BY <1>1, <2>1 DEF MapOK, Cached
<1> QED  BY <1>2, <1>3, <1>4, <1>5 DEF MapOK, Exact, d

\* Flags and answers.
LEMMA FlagsMap ==
    ASSUME NEW m, NEW X, NEW E, MapOK(m, X, E),
           NEW n, SameMap(m, n), SameReasons(m, n),
           \A x \in Resources : m.revalidates[x] # None => n.response[x] = "none"
    PROVE  MapOK(n, X, E)
<1>1. Unnamed(n, X) /\ Exact(n, X)
  BY DEF SameReasons, SameMap, MapOK, Unnamed, Exact, Preloaded, HasHandles
<1>2. Chained(n)
  BY DEF SameReasons, SameMap, MapOK, Chained, Preloaded
<1>3. Cached(n, E)
  BY DEF SameReasons, SameMap, MapOK, Cached
<1> QED  BY <1>1, <1>2, <1>3 DEF MapOK

LEMMA GiveMap ==
    ASSUME NEW m \in Memory, NEW X \in SUBSET Resources, NEW E, MapOK(m, X, E),
           NEW d \in Documents, NEW u \in URLs, NEW r \in Resources, r \notin X,
           NEW preload, preload => m.revalidates[r] = None
    PROVE  MapOK(Give(m, d, u, r, preload), X, E)
<1> DEFINE g == Give(m, d, u, r, preload)
<1>1. /\ SameMap(m, g)
      /\ \E a : Wants(m, a, r) /\ Less(a, g)
      /\ g.request = m.request /\ g.clients = m.clients
      /\ g.revalidates = m.revalidates
      /\ \A x \in Resources : Preloaded(g, x) => Preloaded(m, x) \/ (preload /\ x = r)
  BY GiveWants
<1> HIDE DEF g
<1>2. PICK a : Wants(m, a, r) /\ Less(a, g)
  BY <1>1
<1>3. ASSUME NEW x \in X, HasHandles(g, x) PROVE HasHandles(m, x)
  <2>1. PICK b \in Documents, v \in URLs : g.handle[b][v] = x
    BY <1>3 DEF HasHandles
  <2>2. a.handle[b][v] \in {m.handle[b][v], r, None} /\ g.handle[b][v] \in {a.handle[b][v], None}
    BY <1>2 DEF Wants, Reasons, Less
  <2>3. x # r /\ x # None
    BY NoneAssumption
  <2> QED  BY <2>1, <2>2, <2>3 DEF HasHandles
<1>4. Unnamed(g, X)
  <2>1. \A x \in X : x # r /\ x \in Resources
    OBVIOUS
  <2> QED  BY <1>1, <1>3, <2>1 DEF MapOK, Unnamed
<1>5. Exact(g, X)
  BY <1>1 DEF SameMap, MapOK, Exact
<1>6. Chained(g)
  <2>1. \A x \in Resources : m.response[x] = "none" => g.response[x] = "none"
    BY <1>2 DEF Wants, Less
  <2>2. g.at = m.at
    BY <1>1 DEF SameMap
  <2> QED  BY <1>1, <2>1, <2>2 DEF MapOK, Chained
<1>7. Cached(g, E)
  BY <1>1 DEF SameMap, MapOK, Cached
<1> QED  BY <1>4, <1>5, <1>6, <1>7 DEF MapOK, g

\* Fewer loads are ending, or more.
LEMMA EndedMap ==
    ASSUME NEW m, NEW X, NEW E, MapOK(m, X, E), NEW F,
           \A r \in E \ F : r \in Resources => m.request[r] = None \/ m.revalidates[r] = None
    PROVE  MapOK(m, X, F)
BY DEF MapOK, Cached

\* A validator.
LEMMA CreateValidatorMap ==
    ASSUME NEW m, Sound(m), NEW X \in SUBSET Resources, NEW E, MapOK(m, X, E),
           NEW n \in Resources, m.life[n] = "unused", n \notin X,
           NEW r \in m.inCache, m.map[m.at[r]] = r, m.revalidates[r] = None, r \notin X,
           NEW d \in Documents
    PROVE  MapOK(CreateValidator(m, n, r, d), X, E)
<1> DEFINE e == CreateValidator(m, n, r, d)
<1>0. /\ n # r /\ n \notin m.inCache /\ m \in Memory /\ r \in Resources /\ m.at[r] \in URLs
      /\ CanDelete(m, n) /\ \A x \in Resources : m.revalidates[x] # n
  BY DEF Sound, Fresh, Memory
<1>1. Validates(m, e, n, r, d)
  BY <1>0, CreateValidatorFields
<1> HIDE DEF e
<1>2. /\ \A x \in Resources \ {n} : /\ e.at[x] = m.at[x]
                                    /\ e.request[x] = m.request[x]
                                    /\ e.revalidates[x] = m.revalidates[x]
      /\ e.at[n] = m.at[r] /\ e.revalidates[n] = r
      /\ e.map[m.at[r]] = n
      /\ \A u \in URLs : u # m.at[r] => e.map[u] = m.map[u]
      /\ e.response = m.response /\ e.inCache = (m.inCache \ {r}) \cup {n}
      /\ e.preloads = m.preloads /\ e.handle = m.handle /\ e.clients = m.clients
  BY <1>0, <1>1 DEF Memory, Validates
<1>3. Unnamed(e, X)
  BY <1>2 DEF MapOK, Unnamed, Preloaded, HasHandles
<1>4. ASSUME NEW x \in e.inCache, x \notin X PROVE e.map[e.at[x]] = x
  <2>1. CASE x = n
    BY <1>2, <2>1
  <2>2. CASE x # n
    <3>1. x \in m.inCache /\ x # r /\ m.map[m.at[x]] = x /\ x \in Resources /\ m.at[x] \in URLs
      BY <1>0, <1>2, <1>4, <2>2 DEF MapOK, Exact, Memory
    <3> QED  BY <1>2, <2>2, <3>1
  <2> QED  BY <2>1, <2>2
<1>5. ASSUME NEW v \in Resources, e.revalidates[v] # None
      PROVE  /\ e.at[v] = e.at[e.revalidates[v]]
             /\ e.response[v] = "none"
             /\ ~Preloaded(e, v)
             /\ e.revalidates[e.revalidates[v]] = None
  <2>1. CASE v = n
    <3>1. m.response[n] = "none" /\ ~Preloaded(m, n)
      BY <1>0 DEF CanDelete, Sound, Fresh
    <3> QED  BY <1>0, <1>2, <2>1, <3>1 DEF Preloaded
  <2>2. CASE v # n
    <3>1. m.revalidates[v] = e.revalidates[v] /\ m.revalidates[v] \in Resources \ {n}
      BY <1>0, <1>2, <1>5, <2>2 DEF Memory
    <3> QED  BY <1>2, <1>5, <2>2, <3>1 DEF Preloaded, MapOK, Chained
  <2> QED  BY <2>1, <2>2
<1>6. Cached(e, E)
  BY <1>0, <1>2 DEF MapOK, Cached
<1> QED  BY <1>3, <1>4, <1>5, <1>6 DEF MapOK, Exact, Chained, e

\* A new resource pretends to be in the cache until the map names it.
LEMMA CreateMap ==
    ASSUME NEW m, Sound(m), NEW X \in SUBSET Resources, NEW E, MapOK(m, X, E),
           NEW n \in Resources, m.life[n] = "unused",
           NEW u \in URLs, NEW d \in Documents
    PROVE  MapOK(Create(m, n, u, d), X \cup {n}, E)
<1> DEFINE c == Create(m, n, u, d)
<1>0. /\ m \in Memory /\ n \notin m.inCache /\ CanDelete(m, n)
      /\ \A x \in Resources : m.revalidates[x] # n
  BY DEF Sound, Fresh
<1>1. Creates(m, c, n, u, d)
  BY <1>0, CreateFields
<1> HIDE DEF c
<1>2. /\ \A x \in Resources \ {n} : c.at[x] = m.at[x] /\ c.request[x] = m.request[x]
      /\ c.at[n] = u /\ c.inCache = m.inCache \cup {n} /\ c.inCache \subseteq Resources
      /\ c.map = m.map /\ c.response = m.response /\ c.clients = m.clients
      /\ c.revalidates = m.revalidates /\ c.handle = m.handle /\ c.preloads = m.preloads
  BY <1>0, <1>1 DEF Memory, Creates
<1>3. Unnamed(c, X \cup {n})
  BY <1>0, <1>2 DEF MapOK, Unnamed, CanDelete, Preloaded, HasHandles
<1>4. Exact(c, X \cup {n})
  BY <1>0, <1>2 DEF MapOK, Exact
<1>5. ASSUME NEW v \in Resources, c.revalidates[v] # None
      PROVE  /\ c.at[v] = c.at[c.revalidates[v]]
             /\ c.response[v] = "none"
             /\ ~Preloaded(c, v)
             /\ c.revalidates[c.revalidates[v]] = None
  <2>1. m.revalidates[v] \in Resources \ {n} /\ v # n
    BY <1>0, <1>2, <1>5 DEF Memory, CanDelete
  <2> QED  BY <1>2, <1>5, <2>1 DEF MapOK, Chained, Preloaded
<1>6. Cached(c, E)
  BY <1>0, <1>2 DEF MapOK, Cached, CanDelete
<1> QED  BY <1>2, <1>3, <1>4, <1>5, <1>6 DEF MapOK, Chained, c

LEMMA StartLoadMap ==
    ASSUME NEW m, Sound(m), NEW X \in SUBSET Resources, NEW E, MapOK(m, X, E),
           NEW n \in Resources, m.life[n] = "unused", n \notin X,
           NEW u \in URLs, m.map[u] = None, NEW d \in Documents, NEW preload
    PROVE  MapOK(StartLoad(m, n, u, d, preload), X, E)
<1> DEFINE c == Create(m, n, u, d)
           e == [c EXCEPT !.map[u] = n, !.loading = @ \cup {n}]
<1>1. MapOK(c, X \cup {n}, E)
  BY CreateMap, Zenon
<1>2. c \in Memory /\ Creates(m, c, n, u, d)
  BY CreateFields DEF Sound
<1>m. m \in Memory /\ CanDelete(m, n)
  BY DEF Sound, Fresh
<1>3. /\ c.revalidates[n] = None /\ c.at[n] = u /\ c.map = m.map
      /\ \A x \in c.inCache : x # n => x \in m.inCache /\ x \in Resources /\ c.at[x] = m.at[x]
  BY <1>2, <1>m DEF Creates, CanDelete, Memory
<1>4. StartLoad(m, n, u, d, preload) = Give(e, d, u, n, preload)
  BY DEF StartLoad
<1> HIDE DEF c
<1>5. /\ e \in Memory /\ SameReasons(c, e) /\ e.inCache = c.inCache /\ e.at = c.at
      /\ e.response = c.response
      /\ e.map[u] = n /\ \A v \in URLs : v # u => e.map[v] = c.map[v]
  <2>0. c \in Memory
    BY <1>2
  <2>1. e \in Memory
    BY <2>0 DEF Memory
  <2>5. SameReasons(c, e)
    BY <2>0 DEF Memory, SameReasons
  <2>2. e.inCache = c.inCache /\ e.at = c.at /\ e.response = c.response
    BY <2>0 DEF Memory
  <2>3. c.map \in [URLs -> Resources \cup {None}]
    BY <2>0 DEF Memory
  <2>4. e.map = [c.map EXCEPT ![u] = n]
    BY <2>0 DEF Memory
  <2> QED  BY <2>1, <2>2, <2>3, <2>4, <2>5
<1> HIDE DEF e
<1>6. Unnamed(e, X)
  BY <1>1, <1>5 DEF SameReasons, MapOK, Unnamed, Preloaded, HasHandles
<1>7. ASSUME NEW x \in e.inCache, x \notin X PROVE e.map[e.at[x]] = x
  <2>1. CASE x = n
    BY <1>3, <1>5, <2>1
  <2>2. CASE x # n
    <3>1. x \in m.inCache /\ c.at[x] = m.at[x] /\ x \in c.inCache /\ x # None /\ m.at[x] \in URLs
      BY <1>3, <1>5, <1>7, <1>m, <2>2, NoneAssumption DEF Memory
    <3>2. c.map[c.at[x]] = x
      BY <1>1, <1>7, <2>2, <3>1 DEF MapOK, Exact
    <3>3. c.at[x] # u
      BY <1>3, <3>1, <3>2
    <3> QED  BY <1>5, <3>1, <3>2, <3>3
  <2> QED  BY <2>1, <2>2
<1>8. Chained(e)
  BY <1>1, <1>5 DEF SameReasons, MapOK, Chained, Preloaded
<1>9. Cached(e, E)
  BY <1>1, <1>5 DEF SameReasons, MapOK, Cached
<1>a. MapOK(e, X, E)
  BY <1>6, <1>7, <1>8, <1>9 DEF MapOK, Exact
<1>b. e.revalidates[n] = None
  BY <1>3, <1>5 DEF SameReasons
<1> QED  BY <1>4, <1>5, <1>a, <1>b, GiveMap

LEMMA RefuseLoadMap ==
    ASSUME NEW m, Sound(m), NEW X \in SUBSET Resources, NEW E, MapOK(m, X, E),
           NEW n \in Resources, m.life[n] = "unused",
           NEW u \in URLs, NEW d \in Documents
    PROVE  MapOK(RefuseLoad(m, n, u, d), X \cup {n}, E)
<1> DEFINE c == Create(m, n, u, d)
           e == [c EXCEPT !.error = @ \cup {n}]
<1>1. MapOK(c, X \cup {n}, E)
  BY CreateMap
<1>2. c \in Memory
  BY CreateFields DEF Sound
<1>4. RefuseLoad(m, n, u, d) = e
  BY DEF RefuseLoad
<1> HIDE DEF c
<1>5. SameReasons(c, e) /\ SameMap(c, e) /\ e.response = c.response
  BY <1>2 DEF Memory, SameReasons, SameMap
<1> HIDE DEF e
<1> QED  BY <1>1, <1>4, <1>5, FlagsMap DEF MapOK, Chained

\* A 304: v leaves the map and what it validated takes its place.
LEMMA ReadmitsMap ==
    ASSUME NEW m, Sound(m), NEW X \in SUBSET Resources, NEW E, MapOK(m, X, E),
           NEW v \in Resources, NEW r \in Resources, m.revalidates[v] = r, r \notin X,
           v \in E, m.map[m.at[r]] = None,
           NEW answer, NEW n \in Memory, Readmits(m, n, r, v, answer)
    PROVE  MapOK(n, X, E)
<1>0. m \in Memory /\ m.at[r] \in URLs /\ r # None /\ m.revalidates[r] = None /\ v \notin X
  BY NoneAssumption DEF Sound, Memory, MapOK, Chained, Unnamed
<1>1. /\ n.at = m.at /\ n.map[m.at[r]] = r /\ n.inCache = m.inCache \cup {r}
      /\ \A u \in URLs : u # m.at[r] => n.map[u] = m.map[u]
      /\ \A x \in Resources : x # r => n.response[x] = m.response[x]
      /\ n.request = m.request /\ n.revalidates = m.revalidates /\ n.preloads = m.preloads
      /\ \A d \in Documents, u \in URLs :
            n.handle[d][u] = IF m.handle[d][u] = v THEN r ELSE m.handle[d][u]
      /\ \A x \in Resources :
            n.clients[x] = IF x = v THEN {}
                           ELSE IF x = r THEN m.clients[r] \cup m.clients[v]
                           ELSE m.clients[x]
  <2>1. /\ m.map \in [URLs -> Resources \cup {None}]
        /\ m.response \in [Resources -> Answers \cup {"none"}]
    BY <1>0 DEF Memory
  <2> QED  BY <1>0, <2>1 DEF Readmits
<1>2. Unnamed(n, X)
  BY <1>0, <1>1 DEF MapOK, Unnamed, Preloaded, HasHandles
<1>3. ASSUME NEW x \in n.inCache, x \notin X PROVE n.map[n.at[x]] = x
  <2>1. CASE x = r
    BY <1>1, <2>1
  <2>2. CASE x # r
    <3>1. x \in m.inCache /\ m.map[m.at[x]] = x /\ x # None /\ m.at[x] \in URLs
      BY <1>0, <1>1, <1>3, <2>2, NoneAssumption DEF MapOK, Exact, Memory
    <3>2. m.at[x] # m.at[r]
      BY <3>1
    <3> QED  BY <1>1, <3>1, <3>2
  <2> QED  BY <2>1, <2>2
<1>4. Chained(n)
  BY <1>0, <1>1 DEF MapOK, Chained, Preloaded
<1>5. Cached(n, E)
  BY <1>1 DEF MapOK, Cached
<1> QED  BY <1>2, <1>3, <1>4, <1>5 DEF MapOK, Exact

\* What pretended to be in the cache is gone.
LEMMA DroppedMap ==
    ASSUME NEW m, Sound(m), NEW X \in SUBSET Resources, NEW E, MapOK(m, X, E),
           NEW r \in X, NEW Y \in SUBSET X, X \subseteq Y \cup {r}
    PROVE  MapOK(Dropped(m, r), Y, E)
<1> DEFINE d == Dropped(m, r)
<1>1. /\ SameReasons(m, d) /\ d.at = m.at /\ d.map = m.map /\ d.inCache = m.inCache \ {r}
      /\ \A x \in Resources : d.response[x] = IF x = r THEN "none" ELSE m.response[x]
  BY DroppedFields DEF Sound
<1> HIDE DEF d
<1>2. Unnamed(d, Y)
  BY <1>1 DEF SameReasons, MapOK, Unnamed, Preloaded, HasHandles
<1>3. Exact(d, Y)
  BY <1>1 DEF MapOK, Exact
<1>4. Chained(d)
  BY <1>1 DEF SameReasons, MapOK, Chained, Preloaded
<1>5. Cached(d, E)
  <2>1. m.revalidates[r] = None /\ d.revalidates = m.revalidates /\ d.request = m.request
    BY <1>1 DEF SameReasons, MapOK, Unnamed
  <2> QED  BY <1>1, <2>1 DEF MapOK, Cached
<1> QED  BY <1>2, <1>3, <1>4, <1>5 DEF MapOK, d

(***************************************************************************)
(* The steps keep it, when the embedder does not empty the cache and no    *)
(* frame reloads: both evict validators that wait for an answer.           *)
(***************************************************************************)
Calm == "reload" \notin Policies /\ ~Flushes

MapOKNext == MapOK(mem', Loads(stack', {"refusedNew"}), Loads(stack', Ending))

LEMMA MapNow ==
    ASSUME MapInv
    PROVE  /\ MapOK(mem, Pretending, EndingLoads)
           /\ Pretending \in SUBSET Resources /\ Sound(mem) /\ mem \in Memory
           /\ stack \in Seq(Frames) /\ BaseInv
           /\ \A r \in Pretending : Forgotten(mem, r) /\ mem.life[r] # "unused"
<1>1. \A r \in Pretending : mem.life[r] # "unused"
  BY DEF Pretending, Loads, LoadOps, MapInv, BaseInv, UsedFrames
<1> QED  BY <1>1, MapPresent, BaseTypes DEF MapInv

\* What stays of the stack counts as before.
LEMMA SameLoads ==
    ASSUME MapInv, NEW ops, ops \subseteq LoadOps
    PROVE  /\ stack' = stack => Loads(stack', ops) = Loads(stack, ops)
           /\ \A f \in Frames : f.op \notin LoadOps /\ stack' = <<f>> \o stack =>
                 Loads(stack', ops) = Loads(stack, ops)
           /\ stack # <<>> /\ Top.op \notin ops /\ stack' = Below =>
                 Loads(stack', ops) = Loads(stack, ops)
           /\ \A f : Goes(f) /\ f.res = Top.res => Loads(stack', ops) = Loads(stack, ops)
<1>0. stack \in Seq(Frames)
  BY MapNow
<1>b. stack # <<>> => /\ Below \in Seq(Frames)
                      /\ Top.op \in ops => Loads(stack, ops) = {Top.res} \cup Loads(Below, ops)
                      /\ Top.op \notin ops => Loads(stack, ops) = Loads(Below, ops)
  BY <1>0, MapNow, TopFacts, PopLoads DEF Top, Below
<1>1. ASSUME NEW f \in Frames, f.op \notin LoadOps, stack' = <<f>> \o stack
      PROVE  Loads(stack', ops) = Loads(stack, ops)
  BY <1>0, <1>1, PushLoads
<1>2. ASSUME NEW f, Goes(f), f.res = Top.res
      PROVE  Loads(stack', ops) = Loads(stack, ops)
  <2>1. /\ f \in Frames /\ Below \in Seq(Frames) /\ stack' = <<f>> \o Below
        /\ f.op = Top.op /\ f.res = Top.res
    BY <1>2, <1>b DEF Goes
  <2>2. CASE f.op \in ops
    <3>1. Loads(stack', ops) = {f.res} \cup Loads(Below, ops)
      BY <2>1, <2>2, PushLoads
    <3> QED  BY <1>2, <1>b, <2>1, <2>2, <3>1 DEF Goes
  <2>3. CASE f.op \notin ops
    <3>1. Loads(stack', ops) = Loads(Below, ops)
      BY <2>1, <2>3, PushLoads
    <3> QED  BY <1>2, <1>b, <2>1, <2>3, <3>1 DEF Goes
  <2> QED  BY <2>2, <2>3
<1> QED  BY <1>1, <1>2, <1>b

\* The map does not lead to what pretends.
LEMMA MapSteady ==
    ASSUME MapInv, mem' = mem,
           \/ stack' = stack
           \/ \E f \in Frames : f.op \notin LoadOps /\ stack' = <<f>> \o stack
           \/ stack # <<>> /\ Top.op \notin {"refusedNew"} \cup Ending /\ stack' = Below
           \/ \E f : Goes(f) /\ f.res = Top.res
    PROVE  MapOKNext
<1>1. {"refusedNew"} \subseteq LoadOps /\ Ending \subseteq LoadOps
  BY DEF LoadOps, Ending
<1>2. /\ Loads(stack', {"refusedNew"}) = Pretending
      /\ Loads(stack', Ending) = EndingLoads
  BY <1>1, SameLoads DEF Pretending, EndingLoads
<1> QED  BY <1>2, MapNow DEF MapOKNext

LEMMA CheckMap ==
    ASSUME MapInv, Calm, NEW d \in Documents, NEW u \in URLs, NEW p \in Policies,
           NEW b \in Preloads, CheckForReload(d, u, p, b)
    PROVE  MapOKNext
<1> DEFINE f == [op |-> "request", doc |-> d, url |-> u, policy |-> p, preload |-> b]
           X == Pretending
           E == EndingLoads
           r == mem.map[u]
<1>1. f \in Frames /\ f.op \notin LoadOps /\ Waiting(d, u, p, b) = <<f>> \o stack
  BY DEF Frames, RequestFrame, LoadOps, Waiting
<1> HIDE DEF f
<1>2. /\ Waiting(d, u, p, b) \in Seq(Frames)
      /\ \A ops : ops \subseteq LoadOps => Loads(Waiting(d, u, p, b), ops) = Loads(stack, ops)
  <2>1. stack \in Seq(Frames)
    BY MapNow
  <2>2. ASSUME NEW ops, ops \subseteq LoadOps
        PROVE  Loads(Waiting(d, u, p, b), ops) = Loads(stack, ops)
    BY <1>1, <2>1, <2>2, PushLoads
  <2>3. Waiting(d, u, p, b) \in Seq(Frames)
    BY <1>1, <2>1, PushLoads
  <2> QED  BY <2>2, <2>3
<1>o. {"refusedNew"} \subseteq LoadOps /\ Ending \subseteq LoadOps
  BY DEF LoadOps, Ending
<1>3. ASSUME stack' = Waiting(d, u, p, b), MapOK(mem', X, E) PROVE MapOKNext
  BY <1>2, <1>3, <1>o DEF MapOKNext, Pretending, EndingLoads
<1>4. /\ r # None => r \in Resources /\ r \in mem.inCache /\ r \notin X /\ mem.map[mem.at[r]] = r
      /\ X \in SUBSET Resources /\ Sound(mem) /\ MapOK(mem, X, E)
      /\ \A n \in Resources : mem.life[n] = "unused" => n \notin X
  BY MapNow, ReferencesUsed DEF Forgotten, Sound, Named
<1> HIDE DEF X, E, r
<1>5. CASE Rechecks(d, u, p, b)
  <2>1. /\ r # None /\ mem.revalidates[r] = None
        /\ mem' = Evict(mem, {r}) /\ stack' = Waiting(d, u, p, b)
    BY <1>5 DEF Rechecks, Calm, r
  <2>2. {r} \in SUBSET Resources /\ {r} \cap X = {}
    BY <1>4, <2>1
  <2>3. MapOK(Evict(mem, {r}), X, E)
    BY <1>4, <2>1, <2>2, EvictMap
  <2> QED  BY <1>3, <2>1, <2>3
<1>6. ASSUME NEW n \in Resources, Validating(d, u, p, b, n) \/ Refusing(d, u, p, b, n)
      PROVE  MapOKNext
  <2> DEFINE m == CreateValidator(mem, n, r, d)
             k == RevalidationFailed(m, n)
             m1 == [m EXCEPT !.loading = @ \cup {n}]
             k1 == [k EXCEPT !.error = @ \cup {n}]
  <2>1. r # None /\ mem.revalidates[r] = None /\ mem.life[n] = "unused"
    BY <1>6 DEF Validating, Refusing, Renews, r
  <2>2. Onto(mem, m)
    BY <1>4, <2>1, CreateValidatorOnto
  <2>3. MapOK(m, X, E)
    BY <1>4, <2>1, CreateValidatorMap
  <2>v. /\ Validating(d, u, p, b, n) => mem' = m1 /\ stack' = Waiting(d, u, p, b)
        /\ Refusing(d, u, p, b, n) =>
              mem' = k1 /\ stack' = <<Load("refused", n, {})>> \o Waiting(d, u, p, b)
    BY DEF Validating, Refusing, StartValidator, RefuseValidator, r
  <2> HIDE DEF m
  <2>4. m \in Memory /\ k \in Memory /\ Less(m, k) /\ SameMap(m, k)
    BY <2>2, RevalidationFailedLess DEF Onto, Sound
  <2>5. MapOK(k, X, E)
    BY <1>4, <2>3, <2>4, LessMap
  <2> HIDE DEF k
  <2>6. /\ SameMap(m, m1) /\ SameReasons(m, m1) /\ m1.response = m.response
        /\ SameMap(k, k1) /\ SameReasons(k, k1) /\ k1.response = k.response
    BY <2>4 DEF Memory, SameMap, SameReasons
  <2> HIDE DEF m1, k1
  <2>7. MapOK(m1, X, E) /\ MapOK(k1, X, E)
    BY <2>3, <2>5, <2>6, FlagsMap DEF MapOK, Chained
  <2>8. CASE Validating(d, u, p, b, n)
    BY <1>3, <2>7, <2>8, <2>v
  <2>9. CASE Refusing(d, u, p, b, n)
    <3> DEFINE g == Load("refused", n, {})
    <3>1. g \in Frames /\ g.op = "refused" /\ g.res = n
      BY NewFrames DEF Load, LoadOps
    <3>2. stack' = <<g>> \o Waiting(d, u, p, b) /\ mem' = k1
      BY <2>9, <2>v
    <3> HIDE DEF g
    <3>3. Loads(stack', {"refusedNew"}) = X /\ E \subseteq Loads(stack', Ending)
      <4>1. /\ Loads(Waiting(d, u, p, b), {"refusedNew"}) = X
            /\ Loads(Waiting(d, u, p, b), Ending) = E
        BY <1>2, <1>o DEF X, E, Pretending, EndingLoads
      <4>2. "refused" \in Ending
        BY DEF Ending, LoadOps
      <4>3. Loads(stack', {"refusedNew"}) = X
        BY <1>2, <3>1, <3>2, <4>1, PushLoads
      <4>4. Loads(stack', Ending) = {g.res} \cup E
        BY <1>2, <3>1, <3>2, <4>1, <4>2, PushLoads
      <4> QED  BY <4>3, <4>4
    <3>4. MapOK(k1, X, Loads(stack', Ending))
      BY <2>7, <3>3, EndedMap
    <3> QED  BY <3>2, <3>3, <3>4 DEF MapOKNext
  <2> QED  BY <1>6, <2>8, <2>9
<1>7. CASE mem' = mem /\ stack' = Waiting(d, u, p, b)
  BY <1>3, <1>4, <1>7
<1> QED  BY <1>5, <1>6, <1>7, CheckOutcomes

LEMMA RequestMap ==
    ASSUME MapInv, Calm, RequestResource
    PROVE  MapOKNext
<1> DEFINE X == Pretending
           E == EndingLoads
           u == Top.url
           e == mem.map[u]
<1>1. stack # <<>> /\ Top.op = "request"
  BY RequestOutcomes
<1>2. PICK m : /\ Served(m)
               /\ \/ Skipping(m) \/ Giving(m)
                  \/ \E n \in Resources : Starting(m, n) \/ RefusingNew(m, n)
  BY RequestOutcomes
<1>3. /\ X \in SUBSET Resources /\ Sound(mem) /\ MapOK(mem, X, E) /\ BaseInv
      /\ Top.doc \in Documents /\ u \in URLs /\ Below \in Seq(Frames)
      /\ \A n \in Resources : mem.life[n] = "unused" => n \notin X
      /\ \A r \in X : Forgotten(mem, r) /\ mem.life[r] # "unused"
  BY <1>1, MapNow, TopFacts
<1>4. /\ Onto(mem, m)
      /\ \A n \in Resources : mem.life[n] = "unused" => m.life[n] = "unused"
  BY <1>1, <1>2, <1>3, ServedOnto
<1>o. Top.op \notin Ending /\ Top.op \notin {"refusedNew"}
      /\ {"refusedNew"} \subseteq LoadOps /\ Ending \subseteq LoadOps
  BY <1>1 DEF LoadOps, Ending
<1>5. /\ Loads(Below, {"refusedNew"}) = X
      /\ Loads(Below, Ending) = E
  BY <1>1, <1>3, <1>o, MapNow, PopLoads DEF Pretending, EndingLoads, Top, Below
<1>6. MapOK(m, X, E)
  <2>1. CASE m # mem
    <3>1. e # None /\ mem.response[e] = "noStore" /\ m = Evict(mem, {e})
      BY <1>2, <2>1 DEF Served
    <3>2. e \in Resources /\ e \notin X
      BY <1>3, <3>1, ReferencesUsed DEF Forgotten
    <3>3. mem.revalidates[e] = None
      BY <1>3, <3>1, <3>2 DEF MapOK, Chained
    <3>4. {e} \in SUBSET Resources /\ {e} \cap X = {}
      BY <3>2
    <3> HIDE DEF X, E, e
    <3> QED  BY <1>3, <3>1, <3>3, <3>4, EvictMap
  <2> QED  BY <1>3, <2>1
<1> HIDE DEF X, E
<1>7. ASSUME stack' = Below, MapOK(mem', X, E) PROVE MapOKNext
  BY <1>5, <1>7 DEF MapOKNext
<1>8. CASE Skipping(m)
  BY <1>6, <1>7, <1>8 DEF Skipping
<1>9. CASE Giving(m)
  <2> DEFINE r == m.map[u]
  <2>1. /\ r # None /\ (Top.preload => Preloaded(m, r)) /\ stack' = Below
        /\ mem' = Give(m, Top.doc, u, r, Top.preload)
    BY <1>9 DEF Giving
  <2>2. r \in Resources /\ m \in Memory
    BY <1>3, <1>4, <2>1 DEF Onto, Sound, Memory
  <2>3. r \notin X
    BY <1>3, <1>4 DEF Onto, Persists, Forgotten
  <2>4. Top.preload => m.revalidates[r] = None
    BY <1>6, <2>1, <2>2 DEF MapOK, Chained
  <2> HIDE DEF r
  <2>5. MapOK(mem', X, E)
    BY <1>3, <1>6, <2>1, <2>2, <2>3, <2>4, GiveMap
  <2> QED  BY <1>7, <2>1, <2>5
<1>a. ASSUME NEW n \in Resources, Starting(m, n) PROVE MapOKNext
  <2>1. /\ m.map[u] = None /\ mem.life[n] = "unused" /\ stack' = Below
        /\ mem' = StartLoad(m, n, u, Top.doc, Top.preload)
    BY <1>a DEF Starting
  <2>2. MapOK(mem', X, E)
    BY <1>3, <1>4, <1>6, <2>1, StartLoadMap DEF Onto
  <2> QED  BY <1>7, <2>1, <2>2
<1>b. ASSUME NEW n \in Resources, RefusingNew(m, n) PROVE MapOKNext
  <2> DEFINE g == Load("refusedNew", n, {})
  <2>1. /\ mem.life[n] = "unused" /\ stack' = <<g>> \o Below
        /\ mem' = RefuseLoad(m, n, u, Top.doc)
    BY <1>b DEF RefusingNew
  <2>2. g \in Frames /\ g.op = "refusedNew" /\ g.res = n
    BY NewFrames DEF Load, LoadOps
  <2> HIDE DEF g
  <2>3. Loads(stack', {"refusedNew"}) = X \cup {n} /\ E \subseteq Loads(stack', Ending)
    <3>2. "refusedNew" \in Ending
      BY DEF Ending, LoadOps
    <3>3. Loads(stack', {"refusedNew"}) = {g.res} \cup X
      BY <1>3, <1>5, <2>1, <2>2, PushLoads
    <3>4. Loads(stack', Ending) = {g.res} \cup E
      BY <1>3, <1>5, <2>1, <2>2, <3>2, PushLoads
    <3> QED  BY <2>2, <3>3, <3>4
  <2>4. MapOK(mem', X \cup {n}, E)
    BY <1>3, <1>4, <1>6, <2>1, RefuseLoadMap DEF Onto
  <2> QED  BY <2>3, <2>4, EndedMap DEF MapOKNext
<1> QED  BY <1>2, <1>8, <1>9, <1>a, <1>b

\* Clients, preloads, documents, pruning.
LEMMA OutsideMap ==
    ASSUME MapInv, Calm,
           \/ \E r \in Resources, c \in Clients : AddClient(r, c) \/ RemoveClient(r, c)
           \/ Prune \/ Flush
           \/ \E d \in Documents : ClearPreloads(d) \/ CancelRequests(d) \/ DestroyDocument(d)
    PROVE  MapOKNext
<1> DEFINE X == Pretending
           E == EndingLoads
<1>1. /\ X \in SUBSET Resources /\ Sound(mem) /\ MapOK(mem, X, E) /\ BaseInv /\ mem \in Memory
  BY MapNow
<1>o. {"refusedNew"} \subseteq LoadOps /\ Ending \subseteq LoadOps
  BY DEF LoadOps, Ending
<1>2. ASSUME stack' = stack, MapOK(mem', X, E) PROVE MapOKNext
  BY <1>2, <1>o, SameLoads DEF MapOKNext, Pretending, EndingLoads
<1>p. ASSUME NEW m, m.inCache \subseteq mem.inCache, NEW S \in SUBSET Prunable(m)
      PROVE  /\ S \in SUBSET Resources /\ S \cap X = {}
             /\ \A r \in S : m.revalidates[r] = None
  <2>1. \A r \in S : /\ r \in m.inCache /\ m.revalidates[r] = None
                     /\ \A i \in DOMAIN stack : stack[i].op = "refusedNew" => stack[i].res # r
    BY <1>p DEF Prunable
  <2>2. \A r \in S : r \notin X
    BY <2>1 DEF Pretending, Loads, FramesOn
  <2> QED  BY <1>1, <1>p, <2>1, <2>2 DEF Memory
<1> HIDE DEF X, E
<1>3. ASSUME NEW r \in Resources, NEW c \in Clients, AddClient(r, c) PROVE MapOKNext
  <2>1. /\ mem' = [mem EXCEPT !.clients[r] = @ \cup {c}, !.referenced = @ \cup {r}]
        /\ HasHandles(mem, r) /\ stack' = stack
    BY <1>3, Zenon DEF AddClient
  <2>2. /\ SameMap(mem, mem') /\ mem'.request = mem.request /\ mem'.revalidates = mem.revalidates
        /\ mem'.handle = mem.handle /\ mem'.preloads = mem.preloads
        /\ mem'.response = mem.response
        /\ \A x \in Resources : x # r => mem'.clients[x] = mem.clients[x]
    BY <1>1, <2>1 DEF Memory, SameMap
  <2>3. r \notin X
    BY <1>1, <2>1 DEF MapOK, Unnamed
  <2>4. Unnamed(mem', X)
    BY <1>1, <2>2, <2>3 DEF MapOK, Unnamed, Preloaded, HasHandles
  <2>5. Exact(mem', X) /\ Chained(mem') /\ Cached(mem', E)
    BY <1>1, <2>2 DEF MapOK, Exact, Chained, Cached, SameMap, Preloaded
  <2> QED  BY <1>2, <2>1, <2>4, <2>5 DEF MapOK
<1>4. ASSUME NEW r \in Resources, NEW c \in Clients, RemoveClient(r, c) PROVE MapOKNext
  <2> DEFINE m == [mem EXCEPT !.clients[r] = @ \ {c}]
  <2>1. m \in Memory /\ Drops(mem, m) /\ m.inCache = mem.inCache
        /\ m.revalidates = mem.revalidates /\ m.response = mem.response
    BY <1>1 DEF Memory, Drops, SameMap
  <2>2. /\ \/ mem' = DeleteIfPossible(m, {r})
           \/ mem' = m
           \/ m.response[r] = "noStore" /\ \E S \in SUBSET {r} : mem' = Evict(m, S)
           \/ \E S \in SUBSET Prunable(m) : mem' = Evict(m, S)
        /\ stack' = stack /\ c \in mem.clients[r]
    BY <1>4 DEF RemoveClient
  <2> HIDE DEF m
  <2>3. Onto(mem, m)
    BY <1>1, <2>1, DropsLess, LessOnto, SameMapNamed DEF Sound, Drops
  <2>4. MapOK(m, X, E)
    BY <1>1, <2>1, DropsLess, LessMap DEF Drops
  <2>5. CASE mem' = DeleteIfPossible(m, {r})
    <3>1. MapOK(mem', X, E)
      BY <1>1, <2>1, <2>4, <2>5, DeleteIfPossibleLess, LessMap
    <3> QED  BY <1>2, <2>2, <3>1
  <2>6. ASSUME NEW S \in SUBSET Resources, S \cap X = {}, \A x \in S : m.revalidates[x] = None,
               mem' = Evict(m, S)
        PROVE  MapOKNext
    <3>1. MapOK(mem', X, E)
      BY <1>1, <2>3, <2>4, <2>6, EvictMap DEF Onto
    <3> QED  BY <1>2, <2>2, <3>1
  <2>7. ASSUME m.response[r] = "noStore", NEW S \in SUBSET {r} PROVE
            S \in SUBSET Resources /\ S \cap X = {} /\ \A x \in S : m.revalidates[x] = None
    <3>1. r \notin X
      BY <1>1, <2>2 DEF MapOK, Unnamed
    <3>2. m.revalidates[r] = None
      BY <2>4, <2>7 DEF MapOK, Chained
    <3> QED  BY <3>1, <3>2
  <2>8. CASE m.response[r] = "noStore" /\ \E S \in SUBSET {r} : mem' = Evict(m, S)
    BY <2>6, <2>7, <2>8
  <2>9. CASE \E S \in SUBSET Prunable(m) : mem' = Evict(m, S)
    BY <1>p, <2>1, <2>6, <2>9
  <2>a. CASE mem' = m
    BY <1>2, <2>2, <2>4, <2>a
  <2> QED  BY <2>2, <2>5, <2>8, <2>9, <2>a
<1>5. CASE Prune
  <2>1. PICK S \in SUBSET Prunable(mem) : mem' = Evict(mem, S)
    BY <1>5 DEF Prune
  <2>2. stack' = stack
    BY <1>5 DEF Prune
  <2>3. MapOK(mem', X, E)
    BY <1>1, <1>p, <2>1, EvictMap
  <2> QED  BY <1>2, <2>2, <2>3
<1>6. ASSUME NEW d \in Documents
      PROVE  MapOK(WithoutPreloads(mem, d), X, E)
  <2>1. PICK k \in Memory, G \in SUBSET Resources :
              /\ Less(mem, k) /\ SameMap(mem, k)
              /\ k.revalidates = mem.revalidates
              /\ G \subseteq mem.preloads[d]
              /\ WithoutPreloads(mem, d) = Evict(k, G)
    BY <1>1, WithoutPreloadsLess
  <2>2. MapOK(k, X, E)
    BY <1>1, <2>1, LessMap
  <2>3. Sound(k)
    BY <1>1, <2>1, LessOnto, SameMapNamed DEF Sound, Onto
  <2>4. \A r \in G : Preloaded(mem, r)
    BY <2>1 DEF Preloaded
  <2>5. G \cap X = {} /\ \A r \in G : k.revalidates[r] = None
    BY <1>1, <2>1, <2>4 DEF MapOK, Unnamed, Chained
  <2> QED  BY <1>1, <2>1, <2>2, <2>3, <2>5, EvictMap
<1>7. ASSUME NEW d \in Documents, ClearPreloads(d) PROVE MapOKNext
  BY <1>2, <1>6, <1>7 DEF ClearPreloads
<1>8. ASSUME NEW d \in Documents, CancelRequests(d) PROVE MapOKNext
  <2>1. PICK S \in SUBSET Resources : stack' = <<[op |-> "cancelAll", left |-> S]>> \o stack
    BY <1>8 DEF CancelRequests
  <2> DEFINE f == [op |-> "cancelAll", left |-> S]
  <2>2. f \in Frames /\ f.op \notin LoadOps /\ stack' = <<f>> \o stack
    BY <2>1 DEF Frames, CancelFrame, LoadOps
  <2>3. mem' = mem
    BY <1>8 DEF CancelRequests
  <2> HIDE DEF f
  <2> QED  BY <2>2, <2>3, MapSteady
<1>9. ASSUME NEW d \in Documents, DestroyDocument(d) PROVE MapOKNext
  <2> DEFINE m == WithoutPreloads(mem, d)
             S == {m.handle[d][u] : u \in URLs} \ {None}
             a == [m EXCEPT !.handle[d] = [u \in URLs |-> None]]
  <2>1. mem' = DeleteIfPossible(a, S) /\ stack' = stack
    BY <1>9 DEF DestroyDocument
  <2>2. Onto(mem, m) /\ MapOK(m, X, E)
    BY <1>1, <1>6, WithoutPreloadsOnto
  <2> HIDE DEF m, S
  <2>3. m \in Memory
    BY <2>2 DEF Onto, Sound
  <2>4. a \in Memory /\ Drops(m, a)
    BY <2>3 DEF Memory, Drops, SameMap
  <2> HIDE DEF a
  <2>5. MapOK(a, X, E)
    BY <1>1, <2>2, <2>3, <2>4, DropsLess, LessMap DEF Drops
  <2>6. MapOK(DeleteIfPossible(a, S), X, E)
    BY <1>1, <2>4, <2>5, DeleteIfPossibleLess, LessMap
  <2> QED  BY <1>2, <2>1, <2>6
<1> QED  BY <1>3, <1>4, <1>5, <1>7, <1>8, <1>9 DEF Calm, Flush

\* What Loader does with the reports of a load.
LEMMA NetworkMap ==
    ASSUME MapInv, Network
    PROVE  MapOKNext
<1>1. /\ Sound(mem) /\ MapOK(mem, Pretending, EndingLoads) /\ BaseInv /\ mem \in Memory
  BY MapNow
<1>r. ASSUME NEW r, Reports(r)
      PROVE  stack = <<>> /\ Pretending = {} /\ EndingLoads = {} /\ MapOK(mem, {}, {})
  <2>1. stack = <<>> /\ Pretending = {} /\ EndingLoads = {}
    BY <1>r, NoLoads DEF Reports, Pretending, EndingLoads
  <2> QED  BY <1>1, <2>1
<1>2. ASSUME NEW r \in Resources, Reports(r), NEW f, f.op # "refusedNew",
             \/ stack' = <<f>>
             \/ \E g : g.op # "refusedNew" /\ stack' = <<f, g>>
      PROVE  Loads(stack', {"refusedNew"}) = {}
  <2>1. CASE stack' = <<f>>
    <3>1. FramesOn(stack') = {f}
      BY <2>1, FewFrames
    <3> QED  BY <1>2, <3>1 DEF Loads
  <2>2. ASSUME NEW g, g.op # "refusedNew", stack' = <<f, g>>
        PROVE  Loads(stack', {"refusedNew"}) = {}
    <3>1. FramesOn(stack') = {f, g}
      BY <2>2, FewFrames
    <3> QED  BY <1>2, <2>2, <3>1 DEF Loads
  <2> QED  BY <1>2, <2>1, <2>2
<1>3. ASSUME NEW r \in Resources, Reports(r), NEW F, MapOK(mem', {}, F),
             Loads(stack', {"refusedNew"}) = {}, F \subseteq Loads(stack', Ending)
      PROVE  MapOKNext
  BY <1>3, EndedMap DEF MapOKNext
<1>l. \A op, r, left : Load(op, r, left).op = op /\ Load(op, r, left).res = r
  BY DEF Load
<1>4. ASSUME NEW v \in Resources, NEW answer \in Answers, NotModified(v, answer)
      PROVE  MapOKNext
  <2> DEFINE r == mem.revalidates[v]
             m == Evict(mem, {v})
             f == Load("switched", v, mem.clients[v])
  <2>1. /\ r \in Resources /\ mem' \in Memory /\ Readmits(m, mem', r, v, answer)
        /\ Reports(v)
    BY <1>1, <1>4, NotModifiedHeap
  <2>2. stack' = <<f>>
    BY <1>4, Zenon DEF NotModified, Switched
  <2>3. f.op = "switched" /\ f.res = v
    BY <1>l
  <2> HIDE DEF f
  <2>4. Loads(stack', {"refusedNew"}) = {} /\ {v} \subseteq Loads(stack', Ending)
    <3>1. FramesOn(stack') = {f} /\ "switched" \in Ending
      BY <2>2, FewFrames DEF Ending, LoadOps
    <3> QED  BY <2>3, <3>1 DEF Loads
  <2>5. MapOK(mem, {}, {v})
    BY <1>r, <2>1, EndedMap
  <2>6. /\ MapOK(m, {}, {v}) /\ Onto(mem, m) /\ SameReasons(mem, m) /\ m.at = mem.at
        /\ \A u \in URLs : m.map[u] = IF Unmapped(mem, {v}, u) THEN None ELSE mem.map[u]
    BY <1>1, <2>5, EvictMap, EvictOnto, EvictLess DEF Less
  <2>7. m.map[m.at[r]] = None
    <3>1. v \in mem.inCache /\ mem.at[v] = mem.at[r] /\ mem.at[r] \in URLs
      <4>1. InFlight(v)
        BY <2>1 DEF Reports
      <4>2. mem.request[v] # None /\ mem.revalidates[v] # None
        BY <2>1, <4>1, NoneAssumption DEF InFlight
      <4> QED  BY <1>1, <1>r, <2>1, <4>2 DEF MapOK, Cached, Chained, Memory
    <3> HIDE DEF r, m
    <3>2. Unmapped(mem, {v}, mem.at[r])
      BY <3>1 DEF Unmapped
    <3> QED  BY <2>6, <3>1, <3>2
  <2>8. m.revalidates[v] = r
    BY <2>6 DEF SameReasons
  <2> HIDE DEF r, m
  <2>9. MapOK(mem', {}, {v})
    BY <2>1, <2>6, <2>7, <2>8, ReadmitsMap DEF Onto
  <2> QED  BY <1>3, <2>1, <2>4, <2>9
<1>5. ASSUME NEW r \in Resources, NEW m \in Memory, MapOK(m, {}, {}),
             NEW n \in {Finished(m, r), Failed(m, r), Rejected(m, r)}
      PROVE  MapOK(n, {}, {})
  <2>m. m \in Memory /\ n \in {Finished(m, r), Failed(m, r), Rejected(m, r)}
    OBVIOUS
  <2>f. Flags(m, n, r)
    BY <2>m, EndedFields, Zenon
  <2>0. Flags(m, n, r) /\ n.response = m.response
    <3>1. /\ Finished(m, r).response = m.response /\ Failed(m, r).response = m.response
          /\ Rejected(m, r).response = m.response
      BY <2>m DEF Memory, Finished, Failed, Rejected
    <3> QED  BY <2>f, <2>m, <3>1
  <2>1. SameMap(m, n) /\ SameReasons(m, n) /\ n.response = m.response
    BY <2>0 DEF Flags
  <2> QED  BY <1>5, <2>1, FlagsMap DEF MapOK, Chained
<1>f. ASSUME NEW r \in Resources, Reports(r)
      PROVE  LET k == RevalidationFailed(mem, r)
             IN MapOK(k, {}, {}) /\ k \in Memory /\ k.revalidates[r] = None
  <2> DEFINE k == RevalidationFailed(mem, r)
  <2>1. k \in Memory /\ Less(mem, k) /\ SameMap(mem, k)
        /\ k.revalidates = [mem.revalidates EXCEPT ![r] = None]
    BY <1>1, RevalidationFailedLess
  <2> HIDE DEF k
  <2>2. MapOK(k, {}, {})
    BY <1>1, <1>f, <1>r, <2>1, LessMap
  <2>3. k.revalidates[r] = None
    BY <1>1, <2>1 DEF Memory
  <2> QED  BY <2>1, <2>2, <2>3 DEF k
<1>6. ASSUME NEW r \in Resources, NEW answer \in Answers, DidReceiveResponse(r, answer)
      PROVE  MapOKNext
  <2> DEFINE k == RevalidationFailed(mem, r)
             a == [k EXCEPT !.response[r] = answer]
  <2>1. mem' = a /\ Reports(r) /\ stack' = stack
    BY <1>6, ReportOutcomes
  <2>2. MapOK(k, {}, {}) /\ k \in Memory /\ k.revalidates[r] = None
    BY <1>f, <2>1
  <2> HIDE DEF k
  <2>3. /\ SameMap(k, a) /\ SameReasons(k, a)
        /\ \A x \in Resources : x # r => a.response[x] = k.response[x]
    BY <2>2 DEF Memory, SameMap, SameReasons
  <2> HIDE DEF a
  <2>4. MapOK(a, {}, {})
    BY <2>2, <2>3, FlagsMap DEF MapOK, Chained
  <2>5. Loads(stack', {"refusedNew"}) = {}
    BY <1>r, <2>1, NoLoads
  <2> QED  BY <1>3, <2>1, <2>4, <2>5
<1>7. ASSUME NEW r \in Resources, DidReceiveData(r) PROVE MapOKNext
  <2>1. PICK op \in {"dataError", "decodeError"} : stack' = <<Load(op, r, mem.clients[r])>>
    BY <1>7, ReportOutcomes
  <2>2. Reports(r) /\ mem' = Failed(mem, r)
    BY <1>7, ReportOutcomes
  <2>3. MapOK(mem', {}, {})
    BY <1>1, <1>5, <1>r, <2>2
  <2>4. Loads(stack', {"refusedNew"}) = {}
    BY <1>2, <1>l, <2>1, <2>2
  <2> QED  BY <1>3, <2>2, <2>3, <2>4
<1>8. ASSUME NEW r \in Resources, DidFail(r) PROVE MapOKNext
  <2>1. /\ Reports(r) /\ mem' = Failed(RevalidationFailed(mem, r), r)
        /\ stack' = <<Load("fail", r, mem.clients[r])>>
    BY <1>8, ReportOutcomes
  <2>2. MapOK(RevalidationFailed(mem, r), {}, {}) /\ RevalidationFailed(mem, r) \in Memory
    BY <1>f, <2>1
  <2>3. MapOK(mem', {}, {})
    BY <1>5, <2>1, <2>2
  <2>4. Loads(stack', {"refusedNew"}) = {}
    BY <1>2, <1>l, <2>1
  <2> QED  BY <1>3, <2>1, <2>3, <2>4
<1>9. ASSUME NEW r \in Resources, DidFinishLoading(r) PROVE MapOKNext
  <2>1. /\ Reports(r)
        /\ \/ mem' = EndRequest(mem, r) /\ stack' = stack
           \/ mem' = Finished(mem, r) /\ stack' = <<Load("finish", r, mem.clients[r])>>
           \/ /\ mem' = Rejected(mem, r)
              /\ stack' = <<Load("decodeError", r, mem.clients[r]), Load("finish", r, {})>>
    BY <1>9, ReportOutcomes
  <2>2. MapOK(EndRequest(mem, r), {}, {})
    BY <1>1, <1>r, <2>1, EndRequestLess, LessMap
  <2>3. MapOK(mem', {}, {})
    BY <1>1, <1>5, <1>r, <2>1, <2>2
  <2>4. Loads(stack', {"refusedNew"}) = {}
    BY <1>2, <1>l, <1>r, <2>1, NoLoads
  <2> QED  BY <1>3, <2>1, <2>3, <2>4
<1> QED  BY <1>4, <1>6, <1>7, <1>8, <1>9 DEF Network

LEMMA ClearedLess ==
    ASSUME NEW m \in Memory, NEW n \in Resources
    PROVE  LET d == ClearRevalidation(m, n)
           IN /\ d \in Memory /\ Less(m, d) /\ SameMap(m, d)
              /\ d.request = m.request
              /\ d.revalidates = [m.revalidates EXCEPT ![n] = None]
              /\ m.revalidates[n] = None => d.proxy = m.proxy
<1>1. CASE m.revalidates[n] # None
  BY <1>1, ClearRevalidationLess
<1>2. CASE m.revalidates[n] = None
  <2> DEFINE a == [m EXCEPT !.proxy[None] = None]
             b(x) == [x EXCEPT !.revalidates[n] = None]
  <2>1. a = m
    BY NoneAssumption DEF Memory
  <2>2. \A x \in Memory : x.revalidates = m.revalidates => b(x) = x
    BY <1>2 DEF Memory
  <2> DEFINE m1 == IF m.proxy[None] = n THEN DeleteIfPossible(a, {None}) ELSE m
  <2>3. ClearRevalidation(m, n) = DeleteIfPossible(b(m1), {n})
    BY <1>2 DEF ClearRevalidation
  <2> HIDE DEF a, b
  <2>4. /\ Less(m, m1) /\ SameMap(m, m1) /\ m1 \in Memory /\ m1.revalidates = m.revalidates
        /\ m1.proxy = m.proxy /\ m1.request = m.request
    <3>1. LET x == DeleteIfPossible(m, {None})
          IN /\ Less(m, x) /\ SameMap(m, x) /\ x \in Memory /\ x.revalidates = m.revalidates
             /\ x.proxy = m.proxy /\ x.request = m.request
      BY DeleteIfPossibleLess DEF SameReasons
    <3>2. Less(m, m) /\ SameMap(m, m)
      BY DEF Less, SameMap
    <3> QED  BY <2>1, <3>1, <3>2
  <2> HIDE DEF m1
  <2>5. b(m1) = m1
    BY <2>2, <2>4
  <2> DEFINE d == DeleteIfPossible(m1, {n})
  <2>6. /\ Less(m1, d) /\ SameMap(m1, d) /\ d \in Memory /\ d.revalidates = m1.revalidates
        /\ d.proxy = m1.proxy /\ d.request = m1.request
    BY <2>4, DeleteIfPossibleLess DEF SameReasons
  <2> HIDE DEF d
  <2>7. d.revalidates = [m.revalidates EXCEPT ![n] = None]
    BY <1>2, <2>4, <2>6 DEF Memory
  <2>8. Less(m, d)
    BY <2>4, <2>6, LessTransitive
  <2>9. SameMap(m, d)
    BY <2>4, <2>6 DEF SameMap
  <2> QED  BY <1>2, <2>3, <2>4, <2>5, <2>6, <2>7, <2>8, <2>9 DEF d
<1> QED  BY <1>1, <1>2

\* A load that ends, having been evicted or not, is no longer ending.
LEMMA EndedLoadMap ==
    ASSUME NEW m, Sound(m), NEW X \in SUBSET Resources, NEW E, MapOK(m, X, E),
           NEW r \in Resources, NEW F, E \subseteq F \cup {r},
           NEW n, \/ n = EndRequest(m, r)
                  \/ r \notin X /\ r \in E /\ n = EndRequest(Evict(m, {r}), r)
    PROVE  MapOK(n, X, F)
<1>1. ASSUME NEW k \in Memory, MapOK(k, X, E), n = EndRequest(k, r)
      PROVE  MapOK(n, X, F)
  <2>1. Less(k, n) /\ SameMap(k, n) /\ n.request = [k.request EXCEPT ![r] = None] /\ n \in Memory
    BY <1>1, EndRequestLess
  <2>2. MapOK(n, X, E)
    BY <1>1, <2>1, LessMap
  <2>3. n.request[r] = None
    BY <1>1, <2>1 DEF Memory
  <2> QED  BY <2>2, <2>3, EndedMap
<1>2. CASE r \notin X /\ r \in E /\ n = EndRequest(Evict(m, {r}), r)
  <2>1. Evict(m, {r}) \in Memory
    BY EvictLess DEF Sound
  <2>2. {r} \in SUBSET Resources /\ {r} \cap X = {}
    BY <1>2
  <2>3. MapOK(Evict(m, {r}), X, E)
    BY <1>2, <2>2, EvictMap
  <2> QED  BY <1>1, <1>2, <2>1, <2>3
<1> QED  BY <1>1, <1>2 DEF Sound

\* What functions do when the calls they made have returned.
LEMMA ReturnMap ==
    ASSUME MapInv, Returning, ~RequestResource
    PROVE  MapOKNext
<1> DEFINE X == Pretending
           E == EndingLoads
           r == Top.res
<1>1. /\ X \in SUBSET Resources /\ Sound(mem) /\ MapOK(mem, X, E) /\ BaseInv /\ mem \in Memory
      /\ stack \in Seq(Frames)
  BY MapNow
<1>o. {"refusedNew"} \subseteq LoadOps /\ Ending \subseteq LoadOps
  BY DEF LoadOps, Ending
<1>t. ASSUME stack # <<>>, Top.op \in LoadOps
      PROVE  /\ r \in Resources /\ Below \in Seq(Frames)
             /\ Top.op \in {"decodeError", "refused", "refusedNew"} => mem.revalidates[r] = None
             /\ Top.op # "refusedNew" => r \notin X
             /\ Top.op \in Ending => r \in E
             /\ X \subseteq Loads(Below, {"refusedNew"}) \cup {r}
             /\ Top.op # "refusedNew" => Loads(Below, {"refusedNew"}) = X
             /\ E \subseteq Loads(Below, Ending) \cup {r}
             /\ Top.op \notin Ending => Loads(Below, Ending) = E
             /\ Loads(Below, {"refusedNew"}) \subseteq X
  <2>1. r \in Resources /\ Below \in Seq(Frames) /\ Top \in FramesOn(stack)
    BY <1>1, <1>t, TopFacts
  <2>2. Top.op \in {"decodeError", "refused", "refusedNew"} => mem.revalidates[r] = None
    BY <2>1 DEF MapInv, Done
  <2>3. ASSUME Top.op # "refusedNew", r \in X PROVE FALSE
    <3>1. PICK f \in FramesOn(stack) : f.op = "refusedNew" /\ f.res = r
      BY <2>3 DEF Pretending, Loads
    <3> QED  BY <1>t, <2>1, <2>3, <3>1 DEF MapInv, Alone
  <2>4. \A ops : /\ Top.op \in ops => Loads(stack, ops) = {r} \cup Loads(Below, ops)
                 /\ Top.op \notin ops => Loads(stack, ops) = Loads(Below, ops)
    BY <1>1, <1>t, PopLoads DEF Top, Below
  <2> QED  BY <2>1, <2>2, <2>3, <2>4 DEF Pretending, EndingLoads
<1>2. CASE CancelReturn \/ LoadDone \/ DataErrorReturn \/ \E c \in Clients : Tell(c)
  <2>1. CASE CancelReturn \/ DataErrorReturn
    <3>1. /\ mem' = mem /\ stack # <<>> /\ stack' = Below
          /\ Top.op \notin {"refusedNew"} \cup Ending
      BY <1>1, <2>1, ReturnOutcomes DEF Running, CancelReturn, Ending, LoadOps
    <3> QED  BY <3>1, MapSteady
  <2>2. CASE LoadDone \/ \E c \in Clients : Tell(c)
    <3>1. mem' = mem /\ \E f : Goes(f) /\ f.res = Top.res
      BY <1>1, <2>2, GoingOn
    <3> QED  BY <3>1, MapSteady
  <2> QED  BY <1>2, <2>1, <2>2
<1>3. CASE RefusedReturn \/ Switch
  <2>1. /\ stack # <<>> /\ Top.op \in LoadOps
        /\ mem' = EndRequest(mem, r) \/ mem' = ClearRevalidation(mem, r)
        /\ \E f : Goes(f) /\ f.res = Top.res
    BY <1>1, <1>3, GoingOn DEF Goes, Refused, Running, LoadOps
  <2>2. r \in Resources
    BY <1>t, <2>1
  <2>3. Less(mem, mem') /\ SameMap(mem, mem') /\ mem' \in Memory
    <3>1. LET d == EndRequest(mem, r) IN Less(mem, d) /\ SameMap(mem, d) /\ d \in Memory
      BY <1>1, <2>2, EndRequestLess
    <3>2. LET d == ClearRevalidation(mem, r) IN Less(mem, d) /\ SameMap(mem, d) /\ d \in Memory
      BY <1>1, <2>2, ClearedLess
    <3> QED  BY <2>1, <3>1, <3>2
  <2>4. Loads(stack', {"refusedNew"}) = X /\ Loads(stack', Ending) = E
    BY <1>o, <2>1, SameLoads DEF Pretending, EndingLoads
  <2> HIDE DEF X, E, r
  <2>6. MapOK(mem', X, E)
    BY <1>1, <2>3, LessMap
  <2> QED  BY <2>4, <2>6 DEF MapOKNext
<1>4. ASSUME NEW v \in Resources, CancelOne(v) PROVE MapOKNext
  <2>1. PICK f \in Frames :
           /\ f.op = "cancelAll"
           /\ \/ mem' = mem /\ stack' = <<f>> \o Below
              \/ /\ InFlight(v) /\ mem' = RevalidationFailed(mem, v)
                 /\ stack' = <<Load("cancelled", v, {})>> \o (<<f>> \o Below)
    BY <1>1, <1>4, CancelOutcomes
  <2>2. stack # <<>> /\ Top.op = "cancelAll" /\ f.op \notin LoadOps /\ Below \in Seq(Frames)
    BY <1>1, <1>4, <2>1, CancelOutcomes, TopFacts DEF Running, LoadOps
  <2>o. "refusedNew" \in LoadOps /\ "cancelAll" \notin Ending /\ "cancelled" \in Ending
    BY DEF LoadOps, Ending
  <2>3. /\ Loads(Below, {"refusedNew"}) = X /\ Loads(Below, Ending) = E
        /\ <<f>> \o Below \in Seq(Frames)
        /\ Loads(<<f>> \o Below, {"refusedNew"}) = X /\ Loads(<<f>> \o Below, Ending) = E
    <3>1. Loads(Below, {"refusedNew"}) = X /\ Loads(Below, Ending) = E
      BY <1>1, <2>2, <2>o, PopLoads DEF Pretending, EndingLoads, Top, Below
    <3> QED  BY <2>1, <2>2, <2>o, <3>1, PushLoads
  <2> HIDE DEF X, E
  <2>4. CASE mem' = mem /\ stack' = <<f>> \o Below
    BY <1>1, <2>3, <2>4 DEF MapOKNext
  <2>5. CASE /\ mem' = RevalidationFailed(mem, v)
             /\ stack' = <<Load("cancelled", v, {})>> \o (<<f>> \o Below)
    <3> DEFINE g == Load("cancelled", v, {})
    <3>1. g \in Frames /\ g.op = "cancelled" /\ g.res = v
      BY NewFrames DEF Load, LoadOps
    <3> DEFINE s == <<f>> \o Below
    <3>2. /\ stack' = <<g>> \o s /\ s \in Seq(Frames)
          /\ Loads(s, {"refusedNew"}) = X /\ Loads(s, Ending) = E
      BY <2>3, <2>5
    <3> HIDE DEF g, s
    <3>3. /\ Loads(stack', {"refusedNew"}) = X
          /\ Loads(stack', Ending) = {v} \cup E
      <4>1. Loads(<<g>> \o s, {"refusedNew"}) = X
        BY <3>1, <3>2, PushLoads
      <4>2. Loads(<<g>> \o s, Ending) = {g.res} \cup E
        BY <2>o, <3>1, <3>2, PushLoads
      <4> QED  BY <3>1, <3>2, <4>1, <4>2
    <3>4. Less(mem, mem') /\ SameMap(mem, mem') /\ mem' \in Memory
      BY <1>1, <2>5, RevalidationFailedLess
    <3>5. MapOK(mem', X, E)
      BY <1>1, <3>4, LessMap
    <3> QED  BY <3>3, <3>5, EndedMap DEF MapOKNext
  <2> QED  BY <2>1, <2>4, <2>5
<1>5. CASE FinishReturn \/ FailReturn \/ CancelledReturn \/ SwitchReturn
  <2>1. /\ stack # <<>> /\ Top.op \in Ending /\ Top.op # "refusedNew" /\ stack' = Below
        /\ mem' = EndRequest(mem, r) \/ mem' = EndRequest(Evict(mem, {r}), r)
    BY <1>1, <1>5, ReturnOutcomes DEF Running, Ending, LoadOps
  <2>2. /\ r \in Resources /\ r \notin X /\ r \in E /\ Loads(Below, {"refusedNew"}) = X
        /\ E \subseteq Loads(Below, Ending) \cup {r}
    BY <1>o, <1>t, <2>1
  <2> HIDE DEF X, E, r
  <2>3. MapOK(mem', X, Loads(Below, Ending))
    BY <1>1, <2>1, <2>2, EndedLoadMap
  <2> QED  BY <2>1, <2>2, <2>3 DEF MapOKNext
<1>6. CASE DecodeErrorReturn
  <2>1. /\ stack # <<>> /\ Top.op = "decodeError" /\ stack' = Below
        /\ mem' = mem \/ mem' = Evict(mem, {r})
    BY <1>1, <1>6, ReturnOutcomes DEF Running
  <2>2. /\ r \in Resources /\ r \notin X /\ Loads(Below, {"refusedNew"}) = X
        /\ mem.revalidates[r] = None /\ Loads(Below, Ending) = E
    BY <1>t, <2>1 DEF Ending, LoadOps
  <2> HIDE DEF X, E, r
  <2>3. {r} \in SUBSET Resources /\ {r} \cap X = {}
    BY <2>2
  <2>4. MapOK(mem', X, E)
    BY <1>1, <2>1, <2>2, <2>3, EvictMap
  <2> QED  BY <2>1, <2>2, <2>4 DEF MapOKNext
<1>7. CASE RevalidateReturn
  <2> DEFINE a == [mem EXCEPT !.loading = @ \cup {r}]
  <2>1. stack # <<>> /\ Top.op = "refused" /\ stack' = Below /\ mem' = a
    BY <1>1, <1>7, ReturnOutcomes DEF Running
  <2>2. /\ r \in Resources /\ mem.revalidates[r] = None
        /\ Loads(Below, {"refusedNew"}) = X
        /\ E \subseteq Loads(Below, Ending) \cup {r}
    BY <1>t, <2>1 DEF LoadOps
  <2> HIDE DEF X, E, r
  <2>3. SameMap(mem, a) /\ SameReasons(mem, a) /\ a.response = mem.response
    BY <1>1 DEF Memory, SameMap, SameReasons
  <2> HIDE DEF a
  <2>4. MapOK(a, X, E)
    BY <1>1, <2>3, FlagsMap DEF MapOK, Chained
  <2>5. a.revalidates[r] = None
    BY <2>2, <2>3 DEF SameReasons
  <2>6. MapOK(a, X, Loads(Below, Ending))
    BY <2>2, <2>4, <2>5, EndedMap
  <2> QED  BY <2>1, <2>2, <2>6 DEF MapOKNext
<1>8. CASE LoadReturn /\ ~RevalidateReturn
  <2>1. stack # <<>> /\ Top.op = "refusedNew" /\ stack' = Below /\ mem' = Dropped(mem, r)
    BY <1>1, <1>8, LoadReturnOnto DEF Running
  <2> DEFINE Y == Loads(Below, {"refusedNew"})
             F == Loads(Below, Ending)
  <2>2. /\ r \in Resources /\ X \subseteq Y \cup {r} /\ Y \subseteq X
        /\ mem.revalidates[r] = None /\ E \subseteq F \cup {r}
    BY <1>t, <2>1 DEF LoadOps
  <2>3. r \in X
    BY <1>1, <2>1, PopLoads DEF Pretending, Top
  <2> HIDE DEF X, E, r, Y, F
  <2>4. MapOK(mem', Y, E)
    BY <1>1, <2>1, <2>2, <2>3, DroppedMap
  <2>5. mem'.revalidates[r] = None
    BY <1>1, <2>1, <2>2, DroppedFields DEF SameReasons
  <2>6. MapOK(mem', Y, F)
    BY <2>2, <2>4, <2>5, EndedMap
  <2> QED  BY <2>1, <2>6 DEF MapOKNext, Y, F
<1>9. \/ \E v \in Resources : CancelOne(v)
      \/ CancelReturn \/ LoadDone \/ DataErrorReturn \/ \E c \in Clients : Tell(c)
      \/ RefusedReturn \/ Switch
      \/ FinishReturn \/ FailReturn \/ CancelledReturn \/ SwitchReturn
      \/ DecodeErrorReturn \/ LoadReturn
  BY DEF Returning
<1> HIDE DEF X, E, r
<1> QED  BY <1>2, <1>3, <1>4, <1>5, <1>6, <1>7, <1>8, <1>9

LEMMA MapStep == Calm /\ MapInv /\ [Next]_vars => MapInv'
<1> SUFFICES ASSUME Calm, MapInv, [Next]_vars PROVE MapInv'
  OBVIOUS
<1>1. BaseInv'
  BY BaseStep DEF MapInv
<1>2. CASE Next
  <2>1. MapOKNext
    <3>1. CASE Network
      BY <3>1, NetworkMap
    <3>2. CASE RequestResource
      BY <3>2, RequestMap
    <3>3. CASE Returning /\ ~RequestResource
      BY <3>3, ReturnMap
    <3>4. CASE \E d \in Documents, u \in URLs, p \in Policies, b \in Preloads :
                  CheckForReload(d, u, p, b)
      BY <3>4, CheckMap
    <3>5. CASE \/ \E r \in Resources, c \in Clients : AddClient(r, c) \/ RemoveClient(r, c)
               \/ Prune \/ Flush
               \/ \E d \in Documents : ClearPreloads(d) \/ CancelRequests(d) \/ DestroyDocument(d)
      BY <3>5, OutsideMap
    <3> QED  BY <1>2, <3>1, <3>2, <3>3, <3>4, <3>5 DEF Next, Outside
  <2>2. Onto(mem, mem') /\ StackFrom /\ BaseInv
    BY <1>2, HeapStep, StackOrigin DEF MapInv
  <2>3. /\ \A f \in FramesOn(stack') : f.op \in LoadOps => f.res \in Resources
        /\ \A f \in FramesOn(stack) : f.op \in LoadOps =>
              f.res \in Resources /\ mem.life[f.res] # "unused"
    <3>1. stack \in Seq(Frames) /\ stack' \in Seq(Frames)
      BY <1>1, <2>2, BaseTypes DEF BaseInv, LeakInv, TypeOK, Frames
    <3> QED  BY <2>2, <3>1, FrameResources DEF BaseInv, UsedFrames
  <2>o. {"decodeError", "refused", "refusedNew"} \subseteq LoadOps /\ "refusedNew" \in Ending
    BY DEF LoadOps, Ending
  <2>4. ASSUME NEW f \in FramesOn(stack'), f.op \in {"decodeError", "refused", "refusedNew"}
        PROVE  mem'.revalidates[f.res] = None
    <3>1. ASSUME mem.life[f.res] # "unused", mem.revalidates[f.res] = None
          PROVE  mem'.revalidates[f.res] = None
      BY <2>2, <2>3, <2>4, <2>o, <3>1 DEF Onto, Persists
    <3>2. CASE Known(f)
      <4>1. PICK g \in FramesOn(stack) : g.op = f.op /\ g.res = f.res
        BY <3>2 DEF Known
      <4> QED  BY <2>3, <2>4, <2>o, <3>1, <4>1 DEF MapInv, Done
    <3>3. CASE NewLoad(f)
      <4>1. CASE f.op = "decodeError"
        <5>1. InFlight(f.res) /\ mem.response[f.res] # "none" /\ f.res \in Resources
          BY <2>3, <2>o, <3>3, <4>1 DEF NewLoad, Reports, Refused
        <5>2. mem.revalidates[f.res] = None
          BY <5>1 DEF MapInv, MapOK, Chained
        <5> QED  BY <2>2, <3>1, <5>1, <5>2, ReferencesUsed
      <4> QED  BY <2>4, <3>3, <4>1 DEF NewLoad
    <3> QED  BY <2>2, <2>4, <2>o, <3>2, <3>3 DEF StackFrom
  <2>5. ASSUME NEW f \in FramesOn(stack'), NEW g \in FramesOn(stack'),
               f.op = "refusedNew", g.op \in LoadOps, g.res = f.res
        PROVE  g.op = "refusedNew"
    <3>0. (Known(f) \/ NewLoad(f)) /\ (Known(g) \/ NewLoad(g))
      BY <2>2, <2>5, <2>o DEF StackFrom
    <3>1. ASSUME Known(f)
          PROVE  mem.life[f.res] # "unused" /\ ~InFlight(f.res)
      <4>1. PICK h \in FramesOn(stack) : h.op = f.op /\ h.res = f.res
        BY <3>1 DEF Known
      <4> QED  BY <2>3, <2>5, <2>o, <4>1, InFlightFrames
    <3>2. CASE Known(f) /\ Known(g)
      BY <2>5, <3>2 DEF Known, MapInv, Alone
    <3>3. CASE Known(f) /\ NewLoad(g)
      BY <2>5, <3>1, <3>3 DEF NewLoad, Reports
    <3>4. ASSUME NewLoad(f)
          PROVE  mem.life[f.res] = "unused" /\ Running("request")
      BY <2>5, <3>4 DEF NewLoad
    <3>5. CASE NewLoad(f) /\ Known(g)
      BY <2>3, <2>5, <3>4, <3>5 DEF Known
    <3>6. CASE NewLoad(f) /\ NewLoad(g)
      BY <2>5, <3>4, <3>6 DEF NewLoad, Reports, Running
    <3> QED  BY <3>0, <3>2, <3>3, <3>5, <3>6
  <2> QED  BY <1>1, <2>1, <2>4, <2>5 DEF MapInv, MapOKNext, Pretending, EndingLoads, Done, Alone
<1>3. CASE UNCHANGED vars
  <2>1. mem' = mem /\ stack' = stack
    BY <1>3 DEF vars
  <2>2. /\ Loads(stack', {"refusedNew"}) = Loads(stack, {"refusedNew"})
        /\ Loads(stack', Ending) = Loads(stack, Ending)
        /\ FramesOn(stack') = FramesOn(stack)
    BY <2>1
  <2> QED  BY <1>1, <2>1, <2>2 DEF MapInv, Pretending, EndingLoads, Done, Alone
<1> QED  BY <1>2, <1>3

LEMMA MapInit == Init => MapInv
<1> SUFFICES ASSUME Init PROVE MapInv
  OBVIOUS
<1>1. BaseInv /\ stack = <<>>
  BY BaseInit DEF Init
<1>2. Pretending = {} /\ EndingLoads = {} /\ Done /\ Alone
  BY <1>1, NoLoads, NoFrames DEF Pretending, EndingLoads, Done, Alone
<1>3. mem.inCache = {} /\ \A r \in Resources : mem.revalidates[r] = None
  BY DEF Init
<1>4. MapOK(mem, {}, {})
  BY <1>3 DEF MapOK, Unnamed, Exact, Chained, Cached
<1> QED  BY <1>1, <1>2, <1>4 DEF MapInv

\* Until a frame reloads a page or the embedder empties the cache, m_resources
\* and m_inCache agree: a URL names a resource that thinks it is cached, and
\* one that thinks so is what its URL names, unless the refusal of its load is
\* still being reported (MemoryCache::requestResource, evict, revalidateResource,
\* revalidationSucceeded).
THEOREM MapIsExact == Calm => (Spec => []CacheMapExact)
<1> SUFFICES ASSUME Calm PROVE Spec => []CacheMapExact
  OBVIOUS
<1>1. MapInv => CacheMapExact
  <2> SUFFICES ASSUME MapInv PROVE CacheMapExact
    OBVIOUS
  <2>1. MapOK(mem, Pretending, EndingLoads) /\ Sound(mem)
    BY MapNow
  <2>2. \A u \in URLs : mem.map[u] # None => mem.map[u] \in mem.inCache
    BY <2>1 DEF Sound, Named
  <2>3. \A r \in Pretending :
           \E i \in DOMAIN stack : stack[i].op = "refusedNew" /\ stack[i].res = r
    BY DEF Pretending, Loads, FramesOn
  <2> QED  BY <2>1, <2>2, <2>3 DEF MapOK, Exact, CacheMapExact
<1> QED  BY <1>1, MapInit, MapStep, PTL DEF Spec

\* Until a frame reloads a page or the embedder empties the cache, a resource that
\* revalidates another one is cached for as long as its load may still be
\* answered, which CachedResource::revalidationSucceeded and MemoryCache::
\* revalidationSucceeded rely on.
THEOREM ValidatorStaysCached == Calm => (Spec => []ValidatorIsCached)
<1> SUFFICES ASSUME Calm PROVE Spec => []ValidatorIsCached
  OBVIOUS
<1>1. MapInv => ValidatorIsCached
  BY MapPresent DEF MapInv, MapOK, Cached, ValidatorIsCached
<1> QED  BY <1>1, MapInit, MapStep, PTL DEF Spec

(***************************************************************************)
(* Nobody refers to what was deleted.  W are the resources whose clients   *)
(* are told that what they revalidated is valid.                           *)
(***************************************************************************)
Kept(m) == \A r \in Resources : ~CanDelete(m, r) \/ r \in m.inCache => m.life[r] = "alive"

Linked(m, W) ==
    /\ \A n \in Resources : m.revalidates[n] # None =>
          /\ m.proxy[m.revalidates[n]] # None
          /\ m.proxy[m.revalidates[n]] = n \/ n \in W
          /\ m.revalidates[n] \in m.inCache => n \in W
    /\ \A r \in Resources : m.proxy[r] # None => m.revalidates[m.proxy[r]] = r

SafeHeap(m, W) == Kept(m) /\ Linked(m, W)

LEMMA LessKept ==
    ASSUME NEW m, NEW n, Kept(m), Less(m, n)
    PROVE  Kept(n)
<1>1. ASSUME NEW r \in Resources, ~CanDelete(n, r) PROVE n.life[r] = "alive"
  <2>1. ~CanDelete(m, r)
    BY <1>1, LessCanDelete
  <2> QED  BY <1>1, <2>1 DEF Kept, Less
<1>2. ASSUME NEW r \in Resources, r \in n.inCache PROVE n.life[r] = "alive"
  BY <1>2 DEF Kept, Less
<1> QED  BY <1>1, <1>2 DEF Kept

LEMMA LessSafe ==
    ASSUME NEW m, NEW n, NEW W, SafeHeap(m, W), Less(m, n),
           n.revalidates = m.revalidates, n.proxy = m.proxy
    PROVE  SafeHeap(n, W)
<1>1. Kept(n)
  BY LessKept DEF SafeHeap
<1>2. Linked(n, W)
  BY DEF SafeHeap, Linked, Less
<1> QED  BY <1>1, <1>2 DEF SafeHeap

\* Neither flags nor answers nor names make a reference.
LEMMA SameSafe ==
    ASSUME NEW m, NEW n, NEW W, SafeHeap(m, W), SameReasons(m, n),
           n.inCache = m.inCache, n.life = m.life
    PROVE  SafeHeap(n, W)
<1>1. \A r : CanDelete(n, r) = CanDelete(m, r)
  BY SameCanDelete
<1>2. Kept(n)
  BY <1>1 DEF SafeHeap, Kept
<1>3. Linked(n, W)
  BY DEF SafeHeap, Linked, SameReasons
<1> QED  BY <1>2, <1>3 DEF SafeHeap

LEMMA MoreSafe ==
    ASSUME NEW m, NEW W, NEW V, SafeHeap(m, W), W \subseteq V
    PROVE  SafeHeap(m, V)
BY DEF SafeHeap, Linked

\* A revalidation that ends while no other is reported.
LEMMA ClearedSafe ==
    ASSUME NEW m \in Memory, NEW W, SafeHeap(m, W), NEW n \in Resources, W \subseteq {n}
    PROVE  /\ SafeHeap(ClearRevalidation(m, n), {})
           /\ W = {} => SafeHeap(RevalidationFailed(m, n), {})
<1> DEFINE d == ClearRevalidation(m, n)
           r == m.revalidates[n]
<1>1. /\ d \in Memory /\ Less(m, d) /\ SameMap(m, d)
      /\ d.revalidates = [m.revalidates EXCEPT ![n] = None]
      /\ r = None => d.proxy = m.proxy
  BY ClearedLess
<1>2. r # None => d.proxy = IF m.proxy[r] = n THEN [m.proxy EXCEPT ![r] = None] ELSE m.proxy
  BY ClearRevalidationLess
<1> HIDE DEF d
<1>3. /\ \A x \in Resources \ {n} : d.revalidates[x] = m.revalidates[x]
      /\ d.revalidates[n] = None
      /\ \A x \in Resources : /\ d.proxy[x] \in {m.proxy[x], None}
                              /\ x = r /\ m.proxy[x] = n => d.proxy[x] = None
                              /\ ~(x = r /\ m.proxy[x] = n) => d.proxy[x] = m.proxy[x]
  <2>1. /\ m.revalidates \in [Resources -> Resources \cup {None}]
        /\ m.proxy \in [Resources -> Resources \cup {None}]
    BY DEF Memory
  <2>2. CASE r = None
    BY <1>1, <2>1, <2>2, NoneAssumption
  <2>3. CASE r # None
    BY <1>1, <1>2, <2>1, <2>3
  <2> QED  BY <2>2, <2>3
<1> HIDE DEF r
<1>4. Kept(d)
  BY <1>1, LessKept DEF SafeHeap
<1>5. ASSUME NEW x \in Resources, d.revalidates[x] # None
      PROVE  /\ d.proxy[d.revalidates[x]] # None
             /\ d.proxy[d.revalidates[x]] = x
             /\ d.revalidates[x] \notin d.inCache
  <2>1. x # n /\ x \notin W /\ d.revalidates[x] = m.revalidates[x]
    BY <1>3, <1>5
  <2>2. m.revalidates[x] \in Resources /\ d.inCache = m.inCache
    BY <1>1, <1>5, <2>1 DEF Memory, SameMap
  <2>3. m.proxy[m.revalidates[x]] = x /\ m.revalidates[x] \notin m.inCache
    BY <1>5, <2>1 DEF SafeHeap, Linked
  <2> QED  BY <1>3, <2>1, <2>2, <2>3, NoneAssumption
<1>6. ASSUME NEW x \in Resources, d.proxy[x] # None PROVE d.revalidates[d.proxy[x]] = x
  <2>1. d.proxy[x] = m.proxy[x] /\ m.proxy[x] \in Resources /\ m.revalidates[m.proxy[x]] = x
    BY <1>3, <1>6 DEF Memory, SafeHeap, Linked
  <2>2. m.proxy[x] # n
    BY <1>3, <1>6, <2>1 DEF r
  <2> QED  BY <1>3, <2>1, <2>2
<1>7. SafeHeap(d, {})
  BY <1>4, <1>5, <1>6 DEF SafeHeap, Linked
<1>8. W = {} => SafeHeap(RevalidationFailed(m, n), {})
  BY <1>7 DEF RevalidationFailed, d
<1> QED  BY <1>7, <1>8 DEF d

LEMMA CreateSafe ==
    ASSUME NEW m, Sound(m), NEW W, SafeHeap(m, W), NEW n \in Resources, m.life[n] = "unused",
           NEW u \in URLs, NEW d \in Documents
    PROVE  SafeHeap(Create(m, n, u, d), W)
<1> DEFINE c == Create(m, n, u, d)
<1>0. m \in Memory /\ \A x \in Resources : m.revalidates[x] # n
  BY DEF Sound, Fresh
<1>1. Creates(m, c, n, u, d)
  BY <1>0, CreateFields
<1> HIDE DEF c
<1>2. /\ c.life[n] = "alive" /\ c.inCache = m.inCache \cup {n}
      /\ \A x \in Resources \ {n} : c.life[x] = m.life[x] /\ c.request[x] = m.request[x]
      /\ c.clients = m.clients /\ c.revalidates = m.revalidates /\ c.proxy = m.proxy
      /\ c.handle = m.handle /\ c.preloads = m.preloads
  BY <1>0, <1>1 DEF Memory, Creates
<1>3. \A x \in Resources \ {n} : CanDelete(m, x) => CanDelete(c, x)
  BY <1>2 DEF CanDelete, Preloaded, HasHandles
<1>4. Kept(c)
  BY <1>2, <1>3 DEF SafeHeap, Kept
<1>5. Linked(c, W)
  BY <1>0, <1>2 DEF SafeHeap, Linked
<1> QED  BY <1>4, <1>5 DEF SafeHeap, c

LEMMA CreateValidatorSafe ==
    ASSUME NEW m, Sound(m), NEW W, SafeHeap(m, W), NEW n \in Resources, m.life[n] = "unused",
           NEW r \in Resources, r \in m.inCache, NEW d \in Documents
    PROVE  SafeHeap(CreateValidator(m, n, r, d), W)
<1> DEFINE e == CreateValidator(m, n, r, d)
<1>0. /\ m \in Memory /\ n # r /\ CanDelete(m, n)
      /\ \A x \in Resources : m.revalidates[x] # n /\ m.proxy[x] # n
  BY DEF Sound, Fresh
<1>1. Validates(m, e, n, r, d)
  BY <1>0, CreateValidatorFields
<1> HIDE DEF e
<1>2. /\ e.life[n] = "alive" /\ e.inCache = (m.inCache \ {r}) \cup {n}
      /\ \A x \in Resources \ {n} : /\ e.life[x] = m.life[x] /\ e.request[x] = m.request[x]
                                    /\ e.revalidates[x] = m.revalidates[x]
      /\ e.revalidates[n] = r /\ e.proxy[r] = n
      /\ \A x \in Resources \ {r} : e.proxy[x] = m.proxy[x]
      /\ e.clients = m.clients /\ e.handle = m.handle /\ e.preloads = m.preloads
  BY <1>0, <1>1 DEF Memory, Validates
<1>3. \A x \in Resources \ {n, r} : CanDelete(m, x) => CanDelete(e, x)
  BY <1>2 DEF CanDelete, Preloaded, HasHandles
<1>4. m.life[r] = "alive"
  BY DEF SafeHeap, Kept
<1>5. Kept(e)
  BY <1>0, <1>2, <1>3, <1>4 DEF SafeHeap, Kept
<1>6. ASSUME NEW x \in Resources, e.revalidates[x] # None
      PROVE  /\ e.proxy[e.revalidates[x]] # None
             /\ e.proxy[e.revalidates[x]] = x \/ x \in W
             /\ e.revalidates[x] \in e.inCache => x \in W
  <2>1. CASE x = n
    BY <1>0, <1>2, <2>1, NoneAssumption
  <2>2. CASE x # n
    <3>1. /\ e.revalidates[x] = m.revalidates[x] /\ m.revalidates[x] \in Resources
          /\ m.revalidates[x] # n
      BY <1>0, <1>2, <1>6, <2>2 DEF Memory
    <3>2. CASE m.revalidates[x] = r
      BY <1>2, <3>1, <3>2, NoneAssumption DEF SafeHeap, Linked
    <3>3. CASE m.revalidates[x] # r
      BY <1>2, <1>6, <3>1, <3>3 DEF SafeHeap, Linked
    <3> QED  BY <3>2, <3>3
  <2> QED  BY <2>1, <2>2
<1>7. ASSUME NEW x \in Resources, e.proxy[x] # None PROVE e.revalidates[e.proxy[x]] = x
  <2>1. CASE x = r
    BY <1>2, <2>1
  <2>2. CASE x # r
    <3>1. e.proxy[x] = m.proxy[x] /\ m.proxy[x] \in Resources \ {n}
      BY <1>0, <1>2, <1>7, <2>2 DEF Memory
    <3> QED  BY <1>2, <1>7, <3>1 DEF SafeHeap, Linked
  <2> QED  BY <2>1, <2>2
<1> QED  BY <1>5, <1>6, <1>7 DEF SafeHeap, Linked, e

LEMMA GiveSafe ==
    ASSUME NEW m \in Memory, NEW W, SafeHeap(m, W), NEW d \in Documents, NEW u \in URLs,
           NEW r \in Resources, r \in m.inCache, NEW preload
    PROVE  SafeHeap(Give(m, d, u, r, preload), W)
<1> DEFINE g == Give(m, d, u, r, preload)
<1>1. /\ \E a : Wants(m, a, r) /\ Less(a, g)
      /\ SameMap(m, g) /\ g.revalidates = m.revalidates /\ g.proxy = m.proxy
  BY GiveWants
<1> HIDE DEF g
<1>2. PICK a : Wants(m, a, r) /\ Less(a, g)
  BY <1>1
<1>3. \A x \in Resources \ {r} : CanDelete(m, x) => CanDelete(a, x)
  BY <1>2, ReasonsCanDelete DEF Wants
<1>4. Kept(a)
  BY <1>2, <1>3 DEF Kept, SafeHeap, Wants, SameMap
<1>5. Kept(g)
  BY <1>2, <1>4, LessKept
<1>6. Linked(g, W)
  BY <1>1 DEF SafeHeap, Linked, SameMap
<1> QED  BY <1>5, <1>6 DEF SafeHeap, g

LEMMA StartLoadSafe ==
    ASSUME NEW m, Sound(m), NEW W, SafeHeap(m, W), NEW n \in Resources, m.life[n] = "unused",
           NEW u \in URLs, NEW d \in Documents, NEW preload
    PROVE  SafeHeap(StartLoad(m, n, u, d, preload), W)
<1> DEFINE c == Create(m, n, u, d)
           e == [c EXCEPT !.map[u] = n, !.loading = @ \cup {n}]
<1>1. SafeHeap(c, W)
  BY CreateSafe
<1>2. c \in Memory /\ Creates(m, c, n, u, d)
  BY CreateFields DEF Sound
<1>3. StartLoad(m, n, u, d, preload) = Give(e, d, u, n, preload)
  BY DEF StartLoad
<1> HIDE DEF c
<1>4. e \in Memory /\ SameReasons(c, e) /\ e.inCache = c.inCache /\ e.life = c.life
  BY <1>2 DEF Memory, SameReasons
<1> HIDE DEF e
<1>5. n \in e.inCache
  BY <1>2, <1>4 DEF Creates
<1>6. SafeHeap(e, W)
  BY <1>1, <1>4, SameSafe
<1> QED  BY <1>3, <1>4, <1>5, <1>6, GiveSafe

LEMMA ReadmitsSafe ==
    ASSUME NEW m, Sound(m), SafeHeap(m, {}), NEW v \in Resources, NEW r \in Resources,
           m.revalidates[v] = r, NEW answer, NEW n \in Memory, Readmits(m, n, r, v, answer)
    PROVE  SafeHeap(n, {v})
<1>1. r # None /\ m.proxy[r] = v
  BY NoneAssumption DEF SafeHeap, Linked
<1>2. m.life[r] = "alive"
  BY <1>1, NoneAssumption DEF SafeHeap, Kept, CanDelete
<1>3. Reasons(m, n, r)
  BY <1>2, ReadmitsOnto
<1>4. \A x \in Resources \ {r} : CanDelete(m, x) => CanDelete(n, x)
  BY <1>3, ReasonsCanDelete
<1>5. n.life = m.life /\ n.inCache = m.inCache \cup {r}
      /\ n.revalidates = m.revalidates /\ n.proxy = m.proxy
  BY DEF Readmits
<1>6. Kept(n)
  BY <1>2, <1>4, <1>5 DEF SafeHeap, Kept
<1>7. ASSUME NEW x \in Resources, n.revalidates[x] # None
      PROVE  /\ n.proxy[n.revalidates[x]] = x
             /\ n.revalidates[x] \in n.inCache => x = v
  BY <1>1, <1>5, <1>7 DEF SafeHeap, Linked
<1>8. Linked(n, {v})
  BY <1>5, <1>7, NoneAssumption DEF SafeHeap, Linked
<1> QED  BY <1>6, <1>8 DEF SafeHeap

(***************************************************************************)
(* The order of the functions under way: below the lowest load of the      *)
(* stack there is only what may have asked for it.                         *)
(***************************************************************************)
Lowest == (LoadOps \ {"decodeError"}) \cup {"cancelAll"}
Shape(s) == \A i, j \in DOMAIN s : i < j /\ s[j].op \in LoadOps => s[i].op \notin Lowest
Idle(s) == \A f \in FramesOn(s) : f.op \notin LoadOps
Switches(s) ==
    {f.res : f \in {g \in FramesOn(s) : g.op = "switched" /\ g.stage # "loadDone"}}

LEMMA PushShape ==
    ASSUME NEW s \in Seq(Frames), NEW f \in Frames, Shape(s), f.op \notin Lowest \/ Idle(s)
    PROVE  Shape(<<f>> \o s)
<1> DEFINE t == <<f>> \o s
<1>0. <<f>> \in Seq(Frames) /\ Len(<<f>>) = 1 /\ <<f>>[1] = f
  OBVIOUS
<1>1. /\ t \in Seq(Frames) /\ Len(t) = 1 + Len(s)
      /\ \A i \in 1..(1 + Len(s)) : t[i] = IF i <= 1 THEN f ELSE s[i - 1]
  BY <1>0, ConcatProperties
<1> HIDE DEF t
<1>2. DOMAIN t = 1..(1 + Len(s)) /\ DOMAIN s = 1..Len(s) /\ Len(s) \in Nat
  BY <1>1
<1>3. ASSUME NEW i \in DOMAIN t, NEW j \in DOMAIN t, i < j, t[j].op \in LoadOps
      PROVE  t[i].op \notin Lowest
  <2>1. j - 1 \in DOMAIN s /\ t[j] = s[j - 1]
    BY <1>1, <1>2, <1>3
  <2>2. CASE i = 1
    <3>1. s[j - 1] \in FramesOn(s)
      BY <2>1 DEF FramesOn
    <3>2. ~Idle(s) /\ t[i] = f
      BY <1>1, <1>2, <1>3, <2>1, <2>2, <3>1 DEF Idle
    <3> QED  BY <3>2
  <2>3. CASE i # 1
    <3>1. i - 1 \in DOMAIN s /\ t[i] = s[i - 1] /\ i - 1 < j - 1
      BY <1>1, <1>2, <1>3, <2>3
    <3> QED  BY <1>3, <2>1, <3>1 DEF Shape
  <2> QED  BY <2>2, <2>3
<1> QED  BY <1>3 DEF Shape, t

LEMMA PopShape ==
    ASSUME NEW s \in Seq(Frames), s # <<>>, Shape(s)
    PROVE  /\ Shape(Tail(s))
           /\ Head(s).op \in Lowest => Idle(Tail(s))
<1> DEFINE t == Tail(s)
<1>1. /\ t \in Seq(Frames) /\ Head(s) = s[1]
      /\ Len(s) \in Nat \ {0} /\ Len(t) = Len(s) - 1
      /\ \A i \in 1..(Len(s) - 1) : t[i] = s[i + 1]
  BY EmptySeq, HeadTailProperties
<1> HIDE DEF t
<1>2. DOMAIN s = 1..Len(s) /\ DOMAIN t = 1..(Len(s) - 1) /\ 1 \in DOMAIN s
  BY <1>1
<1>3. \A i \in DOMAIN t : i + 1 \in DOMAIN s /\ t[i] = s[i + 1] /\ 1 < i + 1
  BY <1>1, <1>2
<1>4. Shape(t)
  <2>1. ASSUME NEW i \in DOMAIN t, NEW j \in DOMAIN t, i < j, t[j].op \in LoadOps
        PROVE  t[i].op \notin Lowest
    <3>1. i + 1 < j + 1
      BY <1>2, <2>1
    <3> QED  BY <1>3, <2>1, <3>1 DEF Shape
  <2> QED  BY <2>1 DEF Shape
<1>5. ASSUME Head(s).op \in Lowest, NEW i \in DOMAIN t PROVE t[i].op \notin LoadOps
  BY <1>1, <1>2, <1>3, <1>5 DEF Shape
<1> QED  BY <1>4, <1>5 DEF Idle, FramesOn, t

LEMMA FewShape ==
    ASSUME NEW f, NEW g
    PROVE  /\ Shape(<<>>) /\ Idle(<<>>) /\ Switches(<<>>) = {}
           /\ Shape(<<f>>)
           /\ f.op \notin Lowest => Shape(<<f, g>>)
<1>1. DOMAIN <<f>> = {1}
  OBVIOUS
<1>2. DOMAIN <<f, g>> = {1, 2} /\ <<f, g>>[1] = f
  OBVIOUS
<1>3. Shape(<<>>) /\ Idle(<<>>) /\ Switches(<<>>) = {}
  BY NoFrames DEF Shape, Idle, Switches
<1>4. Shape(<<f>>)
  BY <1>1 DEF Shape
<1>5. ASSUME f.op \notin Lowest PROVE Shape(<<f, g>>)
  <2> DEFINE t == <<f, g>>
  <2>1. \A i, j \in {1, 2} : i < j => i = 1
    OBVIOUS
  <2>2. DOMAIN t = {1, 2} /\ t[1] = f
    BY <1>2
  <2> HIDE DEF t
  <2>3. Shape(t)
    BY <1>5, <2>1, <2>2 DEF Shape
  <2> QED  BY <2>3 DEF t
<1> QED  BY <1>3, <1>4, <1>5

LEMMA PushSwitches ==
    ASSUME NEW s \in Seq(Frames), NEW f \in Frames
    PROVE  /\ f.op = "switched" /\ f.stage # "loadDone" =>
                 Switches(<<f>> \o s) = {f.res} \cup Switches(s)
           /\ f.op # "switched" \/ f.stage = "loadDone" => Switches(<<f>> \o s) = Switches(s)
<1> DEFINE t == <<f>> \o s
<1>1. FramesOn(t) = {f} \cup FramesOn(s)
  BY PushFrames
<1> HIDE DEF t
<1>2. /\ f.op = "switched" /\ f.stage # "loadDone" => Switches(t) = {f.res} \cup Switches(s)
      /\ f.op # "switched" \/ f.stage = "loadDone" => Switches(t) = Switches(s)
  BY <1>1 DEF Switches
<1> QED  BY <1>2 DEF t

LEMMA PopSwitches ==
    ASSUME NEW s \in Seq(Frames), s # <<>>
    PROVE  LET f == Head(s)
           IN /\ f.op = "switched" /\ f.stage # "loadDone" =>
                    Switches(s) = {f.res} \cup Switches(Tail(s))
              /\ f.op # "switched" \/ f.stage = "loadDone" => Switches(s) = Switches(Tail(s))
BY PopFrames DEF Switches

LEMMA IdleSwitches == \A s : Idle(s) => Switches(s) = {}
BY DEF Idle, Switches, LoadOps

(***************************************************************************)
(* No load is refused, and code outside stops the loads of a document only *)
(* when no load calls it.                                                  *)
(***************************************************************************)
Tame == ~Refusals /\ (Stops => MaxCalls <= 1)

Busy == \A f \in FramesOn(stack) : f.op \in LoadOps => mem.request[f.res] # None
Unrefused == \A f \in FramesOn(stack) : f.op \notin Refused

SafeInv ==
    /\ BaseInv
    /\ SafeHeap(mem, Switches(stack))
    /\ Shape(stack)
    /\ Busy
    /\ Unrefused

RequestsStay == \A r \in Resources : mem.request[r] # None => mem'.request[r] # None

SafeNext ==
    /\ SafeHeap(mem', Switches(stack'))
    /\ Shape(stack')
    /\ RequestsStay \/ Idle(stack')

LEMMA SafeNow ==
    ASSUME SafeInv
    PROVE  /\ mem \in Memory /\ Sound(mem) /\ stack \in Seq(Frames) /\ BaseInv
           /\ SafeHeap(mem, Switches(stack)) /\ Shape(stack)
           /\ stack # <<>> => /\ Below \in Seq(Frames) /\ Top \in Frames /\ Shape(Below)
                              /\ Top.op \in Lowest => Idle(Below) /\ Switches(Below) = {}
<1>1. mem \in Memory /\ Sound(mem) /\ stack \in Seq(Frames)
  BY BaseTypes DEF SafeInv
<1>2. stack # <<>> => /\ Below \in Seq(Frames) /\ Top \in Frames /\ Shape(Below)
                      /\ Top.op \in Lowest => Idle(Below)
  BY <1>1, PopShape, TopFacts DEF SafeInv, Top, Below
<1> QED  BY <1>1, <1>2, IdleSwitches DEF SafeInv

\* What stays of the stack.
LEMMA SafeStack ==
    ASSUME SafeInv
    PROVE  /\ stack' = stack => Shape(stack') /\ Switches(stack') = Switches(stack)
           /\ \A f \in Frames : f.op \notin Lowest \cup LoadOps /\ stack' = <<f>> \o stack =>
                 Shape(stack') /\ Switches(stack') = Switches(stack)
           /\ stack # <<>> /\ stack' = Below =>
                 /\ Shape(stack')
                 /\ Top.op \in Lowest => Idle(stack')
                 /\ Top.op # "switched" \/ Top.stage = "loadDone" =>
                       Switches(stack') = Switches(stack)
           /\ \A f : Goes(f) /\ f.res = Top.res =>
                 /\ Shape(stack')
                 /\ f.op # "switched" \/ f.stage # "loadDone" =>
                       Switches(stack) \subseteq Switches(stack')
<1>0. /\ stack \in Seq(Frames) /\ Shape(stack)
      /\ stack # <<>> => /\ Below \in Seq(Frames) /\ Top \in Frames /\ Shape(Below)
                         /\ Top.op \in Lowest => Idle(Below)
  BY SafeNow
<1>1. ASSUME NEW f \in Frames, f.op \notin Lowest \cup LoadOps, stack' = <<f>> \o stack
      PROVE  Shape(stack') /\ Switches(stack') = Switches(stack)
  BY <1>0, <1>1, PushShape, PushSwitches DEF LoadOps
<1>2. stack # <<>> =>
         /\ Top.op = "switched" /\ Top.stage # "loadDone" =>
               Switches(stack) = {Top.res} \cup Switches(Below)
         /\ Top.op # "switched" \/ Top.stage = "loadDone" => Switches(stack) = Switches(Below)
  BY <1>0, PopSwitches DEF Top, Below
<1>3. ASSUME NEW f, Goes(f), f.res = Top.res
      PROVE  /\ Shape(stack')
             /\ f.op # "switched" \/ f.stage # "loadDone" =>
                   Switches(stack) \subseteq Switches(stack')
  <2>1. /\ f \in Frames /\ stack # <<>> /\ stack' = <<f>> \o Below /\ f.op = Top.op
        /\ f.res = Top.res
    BY <1>3 DEF Goes
  <2>2. Shape(stack')
    BY <1>0, <2>1, PushShape
  <2>3. CASE f.op # "switched"
    <3>1. Switches(stack') = Switches(Below)
      BY <1>0, <2>1, <2>3, PushSwitches
    <3> QED  BY <1>2, <2>1, <2>2, <2>3, <3>1
  <2>4. CASE f.op = "switched" /\ f.stage # "loadDone"
    <3>1. Switches(stack') = {f.res} \cup Switches(Below)
      BY <1>0, <2>1, <2>4, PushSwitches
    <3> QED  BY <1>2, <2>1, <2>2, <2>4, <3>1
  <2> QED  BY <2>2, <2>3, <2>4
<1> QED  BY <1>0, <1>1, <1>2, <1>3

\* A step that neither drops references nor begins or ends a switch.
LEMMA SafeSteady ==
    ASSUME SafeInv, SafeHeap(mem', Switches(stack)), RequestsStay \/ Idle(stack'),
           \/ stack' = stack
           \/ \E f \in Frames : f.op \notin Lowest \cup LoadOps /\ stack' = <<f>> \o stack
           \/ /\ stack # <<>> /\ stack' = Below
              /\ Top.op # "switched" \/ Top.stage = "loadDone"
           \/ \E f : Goes(f) /\ f.res = Top.res /\ (f.op # "switched" \/ f.stage # "loadDone")
    PROVE  SafeNext
<1>1. Shape(stack') /\ Switches(stack) \subseteq Switches(stack')
  BY SafeStack
<1> QED  BY <1>1, MoreSafe DEF SafeNext

LEMMA SameRequests ==
    ASSUME mem'.request = mem.request
    PROVE  RequestsStay
BY DEF RequestsStay

LEMMA CheckSafe ==
    ASSUME SafeInv, Tame, NEW d \in Documents, NEW u \in URLs, NEW p \in Policies,
           NEW b \in Preloads, CheckForReload(d, u, p, b)
    PROVE  SafeNext
<1> DEFINE f == [op |-> "request", doc |-> d, url |-> u, policy |-> p, preload |-> b]
           r == mem.map[u]
           W == Switches(stack)
<1>1. f \in Frames /\ f.op \notin Lowest \cup LoadOps /\ Waiting(d, u, p, b) = <<f>> \o stack
  BY DEF Frames, RequestFrame, LoadOps, Lowest, Waiting
<1> HIDE DEF f
<1>2. /\ mem \in Memory /\ Sound(mem) /\ SafeHeap(mem, W)
      /\ r # None => r \in Resources /\ r \in mem.inCache
  BY SafeNow, ReferencesUsed
<1>3. ASSUME stack' = Waiting(d, u, p, b), SafeHeap(mem', W), RequestsStay PROVE SafeNext
  BY <1>1, <1>3, SafeSteady
<1> HIDE DEF W, r
<1>4. CASE mem' = mem /\ stack' = Waiting(d, u, p, b)
  BY <1>2, <1>3, <1>4, SameRequests
<1>5. CASE Rechecks(d, u, p, b)
  <2>1. mem' = Evict(mem, {r}) /\ stack' = Waiting(d, u, p, b)
    BY <1>5 DEF Rechecks, r
  <2>2. LET e == Evict(mem, {r})
        IN Less(mem, e) /\ e.request = mem.request /\ e.revalidates = mem.revalidates
           /\ e.proxy = mem.proxy
    BY <1>2, EvictLess DEF SameReasons
  <2>3. SafeHeap(mem', W)
    BY <1>2, <2>1, <2>2, LessSafe
  <2> QED  BY <1>3, <2>1, <2>2, <2>3, SameRequests
<1>6. ASSUME NEW n \in Resources, Validating(d, u, p, b, n) PROVE SafeNext
  <2> DEFINE e == CreateValidator(mem, n, r, d)
             a == [e EXCEPT !.loading = @ \cup {n}]
  <2>1. mem' = a /\ stack' = Waiting(d, u, p, b) /\ r # None /\ mem.life[n] = "unused"
    BY <1>6 DEF Validating, Renews, StartValidator, r
  <2>2. n # r
    BY <1>2, <2>1 DEF Sound, Fresh
  <2>3. e \in Memory /\ Validates(mem, e, n, r, d)
    BY <1>2, <2>1, <2>2, CreateValidatorFields
  <2>4. SafeHeap(e, W)
    BY <1>2, <2>1, CreateValidatorSafe
  <2> HIDE DEF e
  <2>5. SameReasons(e, a) /\ a.inCache = e.inCache /\ a.life = e.life
    BY <2>3 DEF Memory, SameReasons
  <2> HIDE DEF a
  <2>6. SafeHeap(a, W)
    BY <2>4, <2>5, SameSafe
  <2>7. \A x \in Resources : mem.request[x] # None => a.request[x] # None
    BY <1>2, <2>3, <2>5, NoneAssumption DEF Memory, Validates, SameReasons
  <2> QED  BY <1>3, <2>1, <2>6, <2>7 DEF RequestsStay
<1> QED  BY <1>4, <1>5, <1>6, CheckOutcomes DEF Tame, Refusing

LEMMA RequestSafe ==
    ASSUME SafeInv, Tame, RequestResource
    PROVE  SafeNext
<1> DEFINE W == Switches(stack)
           u == Top.url
<1>1. stack # <<>> /\ Top.op = "request"
  BY RequestOutcomes
<1>2. PICK m : /\ Served(m)
               /\ \/ Skipping(m) \/ Giving(m)
                  \/ \E n \in Resources : Starting(m, n) \/ RefusingNew(m, n)
  BY RequestOutcomes
<1>3. /\ mem \in Memory /\ SafeHeap(mem, W) /\ BaseInv
      /\ Top.doc \in Documents /\ u \in URLs
  BY <1>1, SafeNow, TopFacts
<1>4. /\ Onto(mem, m) /\ m \in Memory /\ Sound(m)
      /\ \A n \in Resources : mem.life[n] = "unused" => m.life[n] = "unused"
  BY <1>1, <1>2, <1>3, ServedOnto DEF Onto, Sound
<1>5. ASSUME stack' = Below, SafeHeap(mem', W), RequestsStay PROVE SafeNext
  BY <1>1, <1>5, SafeSteady
<1> HIDE DEF W
<1>6. SafeHeap(m, W) /\ m.request = mem.request
  <2>1. CASE m = mem
    BY <1>3, <2>1
  <2>2. ASSUME NEW e, m = Evict(mem, {e}) PROVE SafeHeap(m, W) /\ m.request = mem.request
    <3>1. LET x == Evict(mem, {e})
          IN Less(mem, x) /\ x.request = mem.request /\ x.revalidates = mem.revalidates
             /\ x.proxy = mem.proxy
      BY <1>3, EvictLess DEF SameReasons
    <3> QED  BY <1>3, <2>2, <3>1, LessSafe
  <2> QED  BY <1>2, <2>1, <2>2 DEF Served
<1>7. CASE Skipping(m)
  BY <1>5, <1>6, <1>7, SameRequests DEF Skipping
<1>8. CASE Giving(m)
  <2> DEFINE r == m.map[u]
             g == Give(m, Top.doc, u, r, Top.preload)
  <2>1. r # None /\ stack' = Below /\ mem' = g
    BY <1>8 DEF Giving
  <2>2. r \in Resources /\ r \in m.inCache
    BY <1>3, <1>4, <2>1 DEF Sound, Named, Memory
  <2> HIDE DEF r
  <2>3. SafeHeap(g, W)
    BY <1>3, <1>4, <1>6, <2>2, GiveSafe
  <2>4. g.request = m.request
    BY <1>3, <1>4, <2>2, GiveWants
  <2> QED  BY <1>5, <1>6, <2>1, <2>3, <2>4, SameRequests
<1>9. ASSUME NEW n \in Resources, Starting(m, n) PROVE SafeNext
  <2> DEFINE g == StartLoad(m, n, u, Top.doc, Top.preload)
  <2>1. mem.life[n] = "unused" /\ stack' = Below /\ mem' = g
    BY <1>9 DEF Starting
  <2>2. SafeHeap(g, W)
    BY <1>3, <1>4, <1>6, <2>1, StartLoadSafe
  <2>3. \A x \in Resources : m.request[x] # None => g.request[x] # None
    <3> DEFINE c == Create(m, n, u, Top.doc)
               e == [c EXCEPT !.map[u] = n, !.loading = @ \cup {n}]
    <3>1. c \in Memory /\ Creates(m, c, n, u, Top.doc)
      BY <1>3, <1>4, CreateFields
    <3>2. g = Give(e, Top.doc, u, n, Top.preload)
      BY DEF StartLoad
    <3> HIDE DEF c
    <3>3. e \in Memory
      BY <3>1 DEF Memory
    <3>4. e.request = c.request
      BY <3>1 DEF Memory
    <3> HIDE DEF e, g
    <3>5. g.request = e.request
      BY <1>3, <3>2, <3>3, GiveWants
    <3>6. m.request \in [Resources -> Documents \cup {None}]
      BY <1>4 DEF Memory
    <3> QED  BY <1>3, <3>1, <3>4, <3>5, <3>6, NoneAssumption DEF Creates
  <2> HIDE DEF g
  <2> QED  BY <1>5, <1>6, <2>1, <2>2, <2>3 DEF RequestsStay
<1> QED  BY <1>2, <1>7, <1>8, <1>9 DEF Tame, RefusingNew

\* Only stopping a document's loads, when nothing is under way, adds to the stack.
LEMMA CancelSafe ==
    ASSUME SafeInv, Tame, NEW d \in Documents, CancelRequests(d)
    PROVE  SafeNext
<1>1. PICK S \in SUBSET Resources : stack' = <<[op |-> "cancelAll", left |-> S]>> \o stack
  BY DEF CancelRequests
<1>2. mem' = mem /\ Stops /\ InControl /\ MayCall /\ MaxCalls <= 1
  BY DEF CancelRequests, Tame
<1>3. stack = <<>>
  <2> SUFFICES ASSUME stack # <<>> PROVE FALSE
    OBVIOUS
  <2> DEFINE L == {i \in DOMAIN stack : stack[i].op \in LoadOps}
  <2>1. stack \in Seq(Frames) /\ stack[1].op \in LoadOps /\ 1 \in DOMAIN stack
    BY <1>2, SafeNow, EmptySeq DEF InControl, Top
  <2>2. IsFiniteSet(DOMAIN stack)
    <3>1. DOMAIN stack = 1..Len(stack) /\ Len(stack) \in Nat
      BY <2>1
    <3> QED  BY <3>1, FS_Interval
  <2>3. IsFiniteSet(L) /\ L # {}
    BY <2>1, <2>2, FS_Subset
  <2>4. Cardinality(L) \in Nat /\ Cardinality(L) # 0
    BY <2>3, FS_CardinalityType, FS_EmptySet
  <2>5. Cardinality(L) < MaxCalls
    BY <1>2 DEF MayCall
  <2> QED  BY <1>2, <2>4, <2>5, MaxCallsAssumption
<1> DEFINE f == [op |-> "cancelAll", left |-> S]
<1>4. f \in Frames /\ f.op = "cancelAll" /\ stack' = <<f>> \o <<>>
  BY <1>1, <1>3 DEF Frames, CancelFrame
<1> HIDE DEF f
<1>5. Shape(stack')
  <2>1. <<>> \in Seq(Frames)
    OBVIOUS
  <2> QED  BY <1>4, <2>1, PushShape, FewShape
<1>6. Switches(stack') = {} /\ Switches(stack) = {}
  <2>1. <<>> \in Seq(Frames)
    OBVIOUS
  <2> QED  BY <1>3, <1>4, <2>1, PushSwitches, FewShape
<1>7. SafeHeap(mem', Switches(stack'))
  BY <1>2, <1>6, SafeNow
<1> QED  BY <1>2, <1>5, <1>7, SameRequests DEF SafeNext

\* Clients, preloads, documents, pruning.
LEMMA OutsideSafe ==
    ASSUME SafeInv, Tame,
           \/ \E r \in Resources, c \in Clients : AddClient(r, c) \/ RemoveClient(r, c)
           \/ Prune \/ Flush
           \/ \E d \in Documents : ClearPreloads(d) \/ CancelRequests(d) \/ DestroyDocument(d)
    PROVE  SafeNext
<1> DEFINE W == Switches(stack)
<1>1. mem \in Memory /\ Sound(mem) /\ SafeHeap(mem, W) /\ BaseInv
  BY SafeNow
<1>2. ASSUME stack' = stack, SafeHeap(mem', W), mem'.request = mem.request PROVE SafeNext
  BY <1>2, SafeSteady, SameRequests
<1> HIDE DEF W
<1>3. ASSUME NEW m \in Memory, SafeHeap(m, W), m.request = mem.request, NEW S,
             mem' = Evict(m, S) \/ mem' = DeleteIfPossible(m, S) \/ mem' = m
      PROVE  SafeHeap(mem', W) /\ mem'.request = mem.request
  <2>1. LET x == Evict(m, S)
        IN Less(m, x) /\ x.request = m.request /\ x.revalidates = m.revalidates
           /\ x.proxy = m.proxy
    BY EvictLess DEF SameReasons
  <2>2. LET x == DeleteIfPossible(m, S)
        IN Less(m, x) /\ x.request = m.request /\ x.revalidates = m.revalidates
           /\ x.proxy = m.proxy
    BY DeleteIfPossibleLess DEF SameReasons
  <2>3. SafeHeap(Evict(m, S), W) /\ SafeHeap(DeleteIfPossible(m, S), W)
    BY <1>3, <2>1, <2>2, LessSafe
  <2> QED  BY <1>3, <2>1, <2>2, <2>3
<1>4. ASSUME NEW r \in Resources, NEW c \in Clients, AddClient(r, c) PROVE SafeNext
  <2>1. /\ mem' = [mem EXCEPT !.clients[r] = @ \cup {c}, !.referenced = @ \cup {r}]
        /\ HasHandles(mem, r) /\ stack' = stack
    BY <1>4, Zenon DEF AddClient
  <2>2. /\ mem'.request = mem.request /\ mem'.revalidates = mem.revalidates
        /\ mem'.handle = mem.handle /\ mem'.preloads = mem.preloads
        /\ mem'.proxy = mem.proxy /\ mem'.inCache = mem.inCache /\ mem'.life = mem.life
        /\ \A x \in Resources : x # r => mem'.clients[x] = mem.clients[x]
    BY <1>1, <2>1 DEF Memory
  <2>3. mem.life[r] = "alive"
    BY <1>1, <2>1 DEF SafeHeap, Kept, CanDelete
  <2>4. \A x \in Resources : x # r => (CanDelete(mem', x) <=> CanDelete(mem, x))
    BY <2>2 DEF CanDelete, Preloaded, HasHandles
  <2>5. Kept(mem')
    BY <1>1, <2>2, <2>3, <2>4 DEF SafeHeap, Kept
  <2>6. Linked(mem', W)
    BY <1>1, <2>2 DEF SafeHeap, Linked
  <2> QED  BY <1>2, <2>1, <2>2, <2>5, <2>6 DEF SafeHeap
<1>5. ASSUME NEW r \in Resources, NEW c \in Clients, RemoveClient(r, c) PROVE SafeNext
  <2> DEFINE m == [mem EXCEPT !.clients[r] = @ \ {c}]
  <2>1. m \in Memory /\ Drops(mem, m) /\ m.request = mem.request
        /\ m.revalidates = mem.revalidates /\ m.proxy = mem.proxy
    BY <1>1 DEF Memory, Drops, SameMap
  <2>2. /\ mem' = m \/ \E S : mem' = Evict(m, S) \/ mem' = DeleteIfPossible(m, S)
        /\ stack' = stack
    BY <1>5 DEF RemoveClient
  <2> HIDE DEF m
  <2>3. SafeHeap(m, W)
    BY <1>1, <2>1, DropsLess, LessSafe
  <2> QED  BY <1>2, <1>3, <2>1, <2>2, <2>3
<1>6. CASE Prune \/ Flush
  <2>1. stack' = stack /\ \E S : mem' = Evict(mem, S)
    BY <1>6 DEF Prune, Flush
  <2> QED  BY <1>1, <1>2, <1>3, <2>1
<1>7. ASSUME NEW d \in Documents
      PROVE  LET m == WithoutPreloads(mem, d)
             IN SafeHeap(m, W) /\ m.request = mem.request /\ m \in Memory
  <2>1. PICK k \in Memory, G \in SUBSET Resources :
              /\ Less(mem, k) /\ k.request = mem.request
              /\ k.revalidates = mem.revalidates /\ k.proxy = mem.proxy
              /\ WithoutPreloads(mem, d) = Evict(k, G)
    BY <1>1, WithoutPreloadsLess
  <2>2. LET x == Evict(k, G)
        IN Less(k, x) /\ x.request = k.request /\ x.revalidates = k.revalidates
           /\ x.proxy = k.proxy /\ x \in Memory
    BY EvictLess DEF SameReasons
  <2>3. SafeHeap(k, W)
    BY <1>1, <2>1, LessSafe
  <2>4. SafeHeap(Evict(k, G), W)
    BY <2>2, <2>3, LessSafe
  <2> QED  BY <2>1, <2>2, <2>4
<1>8. ASSUME NEW d \in Documents, ClearPreloads(d) PROVE SafeNext
  <2>1. mem' = WithoutPreloads(mem, d) /\ stack' = stack
    BY <1>8 DEF ClearPreloads
  <2> QED  BY <1>2, <1>7, <2>1
<1>9. ASSUME NEW d \in Documents, DestroyDocument(d) PROVE SafeNext
  <2> DEFINE m == WithoutPreloads(mem, d)
             S == {m.handle[d][u] : u \in URLs} \ {None}
             a == [m EXCEPT !.handle[d] = [u \in URLs |-> None]]
  <2>1. mem' = DeleteIfPossible(a, S) /\ stack' = stack
    BY <1>9 DEF DestroyDocument
  <2>2. SafeHeap(m, W) /\ m.request = mem.request /\ m \in Memory
    BY <1>7
  <2> HIDE DEF m, S
  <2>3. a \in Memory /\ Drops(m, a) /\ a.request = m.request
        /\ a.revalidates = m.revalidates /\ a.proxy = m.proxy
    BY <2>2 DEF Memory, Drops, SameMap
  <2> HIDE DEF a
  <2>4. SafeHeap(a, W)
    BY <2>2, <2>3, DropsLess, LessSafe
  <2> QED  BY <1>2, <1>3, <2>1, <2>2, <2>3, <2>4
<1> QED  BY <1>4, <1>5, <1>6, <1>8, <1>9, CancelSafe

\* What Loader does with the reports of a load.
LEMMA NetworkSafe ==
    ASSUME SafeInv, Network
    PROVE  SafeNext
<1>1. mem \in Memory /\ Sound(mem) /\ BaseInv /\ SafeHeap(mem, Switches(stack))
  BY SafeNow
<1>r. ASSUME NEW r, Reports(r) PROVE stack = <<>> /\ SafeHeap(mem, {})
  BY <1>1, <1>r, FewShape DEF Reports
<1>2. ASSUME NEW r, Reports(r), SafeHeap(mem', {}), RequestsStay \/ stack' = stack,
             \/ stack' = stack
             \/ \E f : stack' = <<f>>
             \/ \E f, g : stack' = <<f, g>> /\ f.op = "decodeError"
      PROVE  SafeNext
  <2>1. "decodeError" \notin Lowest
    BY DEF Lowest
  <2>2. Shape(stack') /\ (RequestsStay \/ Idle(stack'))
    BY <1>2, <1>r, <2>1, FewShape
  <2>3. SafeHeap(mem', Switches(stack'))
    BY <1>2, MoreSafe
  <2> QED  BY <2>2, <2>3 DEF SafeNext
<1>3. ASSUME NEW v \in Resources, NEW answer \in Answers, NotModified(v, answer)
      PROVE  SafeNext
  <2> DEFINE r == mem.revalidates[v]
             m == Evict(mem, {v})
             f == Load("switched", v, mem.clients[v])
  <2>1. /\ r \in Resources /\ mem' \in Memory /\ Readmits(m, mem', r, v, answer)
        /\ Reports(v)
    BY <1>1, <1>3, NotModifiedHeap
  <2>2. stack' = <<f>>
    BY <1>3, Zenon DEF NotModified, Switched
  <2>3. f.op = "switched" /\ f.res = v /\ f.stage = "walk"
    BY DEF Load
  <2> HIDE DEF f
  <2>4. Switches(stack') = {v}
    <3>1. FramesOn(stack') = {f}
      BY <2>2, FewFrames
    <3> QED  BY <2>3, <3>1 DEF Switches
  <2>5. /\ Less(mem, m) /\ m.revalidates = mem.revalidates /\ m.proxy = mem.proxy
        /\ m.request = mem.request
    BY <1>1, EvictLess DEF SameReasons
  <2>6. Sound(m)
    BY <1>1, EvictOnto DEF Onto
  <2>7. m.revalidates[v] = r
    BY <2>5
  <2> HIDE DEF m, r
  <2>8. SafeHeap(m, {})
    BY <1>r, <2>1, <2>5, LessSafe
  <2>9. SafeHeap(mem', {v})
    BY <2>1, <2>6, <2>7, <2>8, ReadmitsSafe
  <2>a. RequestsStay
    BY <2>1, <2>5, SameRequests DEF Readmits
  <2> QED  BY <2>2, <2>4, <2>9, <2>a, FewShape DEF SafeNext
<1>f. ASSUME NEW r \in Resources, Reports(r)
      PROVE  LET k == RevalidationFailed(mem, r)
             IN SafeHeap(k, {}) /\ k \in Memory /\ k.request = mem.request
  BY <1>1, <1>f, <1>r, RevalidationFailedLess, ClearedSafe
<1>4. ASSUME NEW r \in Resources, NEW m \in Memory, SafeHeap(m, {}), m.request = mem.request,
             mem' \in {Finished(m, r), Failed(m, r), Rejected(m, r)}
      PROVE  SafeHeap(mem', {}) /\ RequestsStay
  <2>1. m \in Memory /\ mem' \in {Finished(m, r), Failed(m, r), Rejected(m, r)}
    BY <1>4
  <2>2. Flags(m, mem', r)
    BY <2>1, EndedFields, Zenon
  <2>3. SameReasons(m, mem') /\ mem'.inCache = m.inCache /\ mem'.life = m.life
    BY <2>2 DEF Flags, SameMap
  <2>4. mem'.request = mem.request
    BY <1>4, <2>3 DEF SameReasons
  <2> QED  BY <1>4, <2>3, <2>4, SameSafe, SameRequests
<1>5. ASSUME NEW r \in Resources, NEW answer \in Answers, DidReceiveResponse(r, answer)
      PROVE  SafeNext
  <2> DEFINE k == RevalidationFailed(mem, r)
             a == [k EXCEPT !.response[r] = answer]
  <2>1. mem' = a /\ Reports(r) /\ stack' = stack
    BY <1>5, ReportOutcomes
  <2>2. SafeHeap(k, {}) /\ k \in Memory /\ k.request = mem.request
    BY <1>f, <2>1
  <2> HIDE DEF k
  <2>3. SameReasons(k, a) /\ a.inCache = k.inCache /\ a.life = k.life
    BY <2>2 DEF Memory, SameReasons
  <2> HIDE DEF a
  <2>4. SafeHeap(a, {})
    BY <2>2, <2>3, SameSafe
  <2>5. a.request = mem.request
    BY <2>2, <2>3 DEF SameReasons
  <2> QED  BY <1>2, <2>1, <2>4, <2>5, SameRequests
<1>6. ASSUME NEW r \in Resources, DidReceiveData(r) PROVE SafeNext
  <2>1. /\ Reports(r) /\ mem' = Failed(mem, r) /\ \E f : stack' = <<f>>
    BY <1>6, ReportOutcomes
  <2>2. SafeHeap(mem', {}) /\ RequestsStay
    BY <1>1, <1>4, <1>r, <2>1
  <2> QED  BY <1>2, <2>1, <2>2
<1>7. ASSUME NEW r \in Resources, DidFail(r) PROVE SafeNext
  <2>1. /\ Reports(r) /\ mem' = Failed(RevalidationFailed(mem, r), r) /\ \E f : stack' = <<f>>
    BY <1>7, ReportOutcomes
  <2>2. SafeHeap(mem', {}) /\ RequestsStay
    BY <1>4, <1>f, <2>1
  <2> QED  BY <1>2, <2>1, <2>2
<1>8. ASSUME NEW r \in Resources, DidFinishLoading(r) PROVE SafeNext
  <2>1. /\ Reports(r)
        /\ \/ mem' = EndRequest(mem, r) /\ stack' = stack
           \/ mem' = Finished(mem, r) /\ \E f : stack' = <<f>>
           \/ mem' = Rejected(mem, r) /\ \E f, g : stack' = <<f, g>> /\ f.op = "decodeError"
    <3>1. Load("decodeError", r, mem.clients[r]).op = "decodeError"
      BY DEF Load
    <3> QED  BY <1>8, <3>1, ReportOutcomes
  <2>2. LET x == EndRequest(mem, r)
        IN Less(mem, x) /\ x.revalidates = mem.revalidates /\ x.proxy = mem.proxy
    BY <1>1, EndRequestLess
  <2>3. SafeHeap(EndRequest(mem, r), {})
    BY <1>r, <2>1, <2>2, LessSafe
  <2>4. CASE mem' = EndRequest(mem, r) /\ stack' = stack
    BY <1>2, <2>1, <2>3, <2>4
  <2>5. CASE mem' = Finished(mem, r) /\ \E f : stack' = <<f>>
    <3>1. SafeHeap(mem', {}) /\ RequestsStay
      BY <1>1, <1>4, <1>r, <2>1, <2>5
    <3> QED  BY <1>2, <2>1, <2>5, <3>1
  <2>6. CASE mem' = Rejected(mem, r) /\ \E f, g : stack' = <<f, g>> /\ f.op = "decodeError"
    <3>1. SafeHeap(mem', {}) /\ RequestsStay
      BY <1>1, <1>4, <1>r, <2>1, <2>6
    <3> QED  BY <1>2, <2>1, <2>6, <3>1
  <2> QED  BY <2>1, <2>4, <2>5, <2>6
<1> QED  BY <1>3, <1>5, <1>6, <1>7, <1>8 DEF Network

\* What the functions under way do when the calls return.
LEMMA ReturnSafe ==
    ASSUME SafeInv, Tame, Returning, ~RequestResource
    PROVE  SafeNext
<1> DEFINE r == Top.res
           W == Switches(stack)
<1>1. mem \in Memory /\ Sound(mem) /\ BaseInv /\ stack \in Seq(Frames) /\ SafeHeap(mem, W)
  BY SafeNow
<1>t. ASSUME stack # <<>>, Top.op \in LoadOps
      PROVE  r \in Resources /\ Below \in Seq(Frames) /\ Top.op \notin Refused
  <2>1. r \in Resources /\ Below \in Seq(Frames) /\ Top \in FramesOn(stack)
    BY <1>1, <1>t, TopFacts
  <2> QED  BY <2>1 DEF SafeInv, Unrefused
<1>l. ASSUME stack # <<>>, stack' = Below, Top.op \in Lowest,
             Top.op # "switched" \/ Top.stage = "loadDone", SafeHeap(mem', W)
      PROVE  SafeNext
  BY <1>l, SafeStack, SafeSteady
<1> HIDE DEF W
<1>2. CASE CancelReturn \/ DataErrorReturn
  <2>1. mem' = mem /\ stack # <<>> /\ stack' = Below /\ Top.op \in {"cancelAll", "dataError"}
    BY <1>1, <1>2, ReturnOutcomes DEF Running, CancelReturn
  <2>2. Top.op \in Lowest /\ Top.op # "switched"
    BY <2>1 DEF Lowest, LoadOps
  <2> QED  BY <1>1, <1>l, <2>1, <2>2
<1>3. CASE LoadDone \/ \E c \in Clients : Tell(c)
  <2>1. /\ mem' = mem
        /\ \E f : Goes(f) /\ f.res = Top.res /\ (f.op # "switched" \/ f.stage # "loadDone")
    <3>1. CASE LoadDone
      <4>1. PICK f : Goes(f) /\ f.res = Top.res
                     /\ Top.op \in {"fail", "cancelled", "refused", "refusedNew"}
        BY <1>1, <3>1, GoingOn
      <4>2. f.op # "switched"
        BY <4>1 DEF Goes
      <4> QED  BY <1>1, <3>1, <4>1, <4>2, GoingOn
    <3>2. CASE \E c \in Clients : Tell(c)
      BY <1>1, <3>2, GoingOn
    <3> QED  BY <1>3, <3>1, <3>2
  <2>2. RequestsStay
    BY <2>1, SameRequests
  <2> QED  BY <1>1, <2>1, <2>2, SafeSteady DEF W
<1>4. CASE FinishReturn \/ FailReturn \/ CancelledReturn \/ SwitchReturn
  <2>1. /\ stack # <<>> /\ Top.op \in {"finish", "fail", "cancelled", "switched"} /\ stack' = Below
        /\ mem' = EndRequest(mem, r) \/ mem' = EndRequest(Evict(mem, {r}), r)
    BY <1>1, <1>4, ReturnOutcomes DEF Running
  <2>2. Top.op # "switched" \/ Top.stage = "loadDone"
    BY <1>1, <1>4, ReturnOutcomes DEF Running, SwitchReturn, Ends
  <2>3. r \in Resources /\ Top.op \in Lowest
    BY <1>t, <2>1 DEF LoadOps, Lowest
  <2> HIDE DEF r
  <2>4. ASSUME NEW m \in Memory, SafeHeap(m, W) PROVE SafeHeap(EndRequest(m, r), W)
    <3>1. LET x == EndRequest(m, r)
          IN Less(m, x) /\ x.revalidates = m.revalidates /\ x.proxy = m.proxy
      BY <2>3, EndRequestLess
    <3> QED  BY <2>4, <3>1, LessSafe
  <2>5. Evict(mem, {r}) \in Memory /\ SafeHeap(Evict(mem, {r}), W)
    <3>1. LET x == Evict(mem, {r})
          IN Less(mem, x) /\ x.revalidates = mem.revalidates /\ x.proxy = mem.proxy /\ x \in Memory
      BY <1>1, EvictLess DEF SameReasons
    <3> QED  BY <1>1, <3>1, LessSafe
  <2>6. SafeHeap(mem', W)
    BY <1>1, <2>1, <2>4, <2>5
  <2> QED  BY <1>l, <2>1, <2>2, <2>3, <2>6
<1>5. CASE DecodeErrorReturn
  <2>1. /\ stack # <<>> /\ Top.op = "decodeError" /\ stack' = Below
        /\ mem' = mem \/ mem' = Evict(mem, {r})
    BY <1>1, <1>5, ReturnOutcomes DEF Running
  <2>2. LET x == Evict(mem, {r})
        IN Less(mem, x) /\ x.revalidates = mem.revalidates /\ x.proxy = mem.proxy
           /\ x.request = mem.request
    BY <1>1, EvictLess DEF SameReasons
  <2>3. SafeHeap(mem', W) /\ mem'.request = mem.request
    BY <1>1, <2>1, <2>2, LessSafe
  <2> QED  BY <2>1, <2>3, SameRequests, SafeSteady DEF W
<1>6. CASE Switch
  <2>1. /\ stack # <<>> /\ Top.op = "switched" /\ mem' = ClearRevalidation(mem, r)
        /\ \E f : Goes(f) /\ f.res = r /\ f.stage = "loadDone"
    BY <1>1, <1>6, GoingOn DEF Running
  <2>2. PICK f : Goes(f) /\ f.res = r /\ f.stage = "loadDone"
    BY <2>1
  <2>3. r \in Resources /\ Below \in Seq(Frames) /\ f \in Frames /\ stack' = <<f>> \o Below
    BY <1>t, <2>1, <2>2 DEF LoadOps, Goes
  <2>4. Switches(Below) = {}
    BY <1>1, <2>1, SafeNow DEF Lowest, LoadOps
  <2>5. Switches(stack') = {}
    BY <2>2, <2>3, <2>4, PushSwitches
  <2>6. W \subseteq {r}
    BY <1>1, <2>1, <2>4, PopSwitches DEF W, Top, Below
  <2>7. Shape(stack')
    BY <2>2, SafeStack DEF r
  <2> HIDE DEF r
  <2>8. SafeHeap(mem', {}) /\ RequestsStay
    BY <1>1, <2>1, <2>3, <2>6, ClearedSafe, ClearedLess, SameRequests
  <2> QED  BY <2>5, <2>7, <2>8 DEF SafeNext
<1>7. ASSUME NEW v \in Resources, CancelOne(v) PROVE SafeNext
  <2>1. PICK f \in Frames :
           /\ f.op = "cancelAll"
           /\ \/ mem' = mem /\ stack' = <<f>> \o Below
              \/ /\ mem' = RevalidationFailed(mem, v)
                 /\ stack' = <<Load("cancelled", v, {})>> \o (<<f>> \o Below)
    BY <1>1, <1>7, CancelOutcomes
  <2>2. stack # <<>> /\ Top.op = "cancelAll" /\ "cancelAll" \in Lowest
        /\ "cancelAll" \notin LoadOps
    BY <1>1, <1>7, CancelOutcomes DEF Running, Lowest, LoadOps
  <2>3. Below \in Seq(Frames) /\ Shape(Below) /\ Idle(Below) /\ Switches(Below) = {}
    BY <2>2, SafeNow
  <2>4. W = {}
    BY <1>1, <2>2, <2>3, PopSwitches DEF W, Top, Below
  <2> DEFINE s == <<f>> \o Below
  <2>5. s \in Seq(Frames) /\ Shape(s) /\ Switches(s) = {}
    BY <2>1, <2>3, PushShape, PushSwitches
  <2>6. Idle(s)
    BY <2>1, <2>2, <2>3, PushFrames DEF Idle
  <2>7. \/ mem' = mem /\ stack' = s
        \/ mem' = RevalidationFailed(mem, v) /\ stack' = <<Load("cancelled", v, {})>> \o s
    BY <2>1
  <2> HIDE DEF s
  <2>8. CASE mem' = mem /\ stack' = s
    BY <1>1, <2>4, <2>5, <2>8, SameRequests DEF SafeNext
  <2>9. CASE mem' = RevalidationFailed(mem, v) /\ stack' = <<Load("cancelled", v, {})>> \o s
    <3> DEFINE g == Load("cancelled", v, {})
    <3>1. g \in Frames /\ g.op = "cancelled"
      BY NewFrames DEF Load, LoadOps
    <3>2. stack' = <<g>> \o s
      BY <2>9
    <3> HIDE DEF g
    <3>3. Shape(stack') /\ Switches(stack') = {}
      BY <2>5, <2>6, <3>1, <3>2, PushShape, PushSwitches
    <3>4. SafeHeap(mem', {}) /\ mem'.request = mem.request
      BY <1>1, <2>4, <2>9, ClearedSafe, RevalidationFailedLess
    <3> QED  BY <3>3, <3>4, SameRequests DEF SafeNext
  <2> QED  BY <2>7, <2>8, <2>9
<1>8. ~RefusedReturn /\ ~LoadReturn
  <2>1. RefusedReturn \/ LoadReturn => stack # <<>> /\ Top.op \in Refused
    BY DEF RefusedReturn, LoadReturn, RevalidateReturn, Ends, Running, Refused
  <2> QED  BY <1>t, <2>1 DEF Refused, LoadOps
<1>9. \/ \E v \in Resources : CancelOne(v)
      \/ CancelReturn \/ LoadDone \/ DataErrorReturn \/ \E c \in Clients : Tell(c)
      \/ RefusedReturn \/ Switch
      \/ FinishReturn \/ FailReturn \/ CancelledReturn \/ SwitchReturn
      \/ DecodeErrorReturn \/ LoadReturn
  BY DEF Returning
<1> QED  BY <1>2, <1>3, <1>4, <1>5, <1>6, <1>7, <1>8, <1>9

LEMMA SafeStep == Tame /\ SafeInv /\ [Next]_vars => SafeInv'
<1> SUFFICES ASSUME Tame, SafeInv, [Next]_vars PROVE SafeInv'
  OBVIOUS
<1>1. BaseInv'
  BY BaseStep DEF SafeInv
<1>2. CASE Next
  <2>1. SafeNext
    <3>1. CASE Network
      BY <3>1, NetworkSafe
    <3>2. CASE RequestResource
      BY <3>2, RequestSafe
    <3>3. CASE Returning /\ ~RequestResource
      BY <3>3, ReturnSafe
    <3>4. CASE \E d \in Documents, u \in URLs, p \in Policies, b \in Preloads :
                  CheckForReload(d, u, p, b)
      BY <3>4, CheckSafe
    <3>5. CASE \/ \E r \in Resources, c \in Clients : AddClient(r, c) \/ RemoveClient(r, c)
               \/ Prune \/ Flush
               \/ \E d \in Documents : ClearPreloads(d) \/ CancelRequests(d) \/ DestroyDocument(d)
      BY <3>5, OutsideSafe
    <3> QED  BY <1>2, <3>1, <3>2, <3>3, <3>4, <3>5 DEF Next, Outside
  <2>2. StackFrom
    BY <1>2, StackOrigin DEF SafeInv
  <2>3. \A f \in FramesOn(stack') : f.op \in LoadOps => f.res \in Resources
    <3>1. stack' \in Seq(Frames)
      BY <1>1, BaseTypes DEF BaseInv, LeakInv, TypeOK, Frames
    <3> QED  BY <3>1, FrameResources
  <2>4. ASSUME NEW f \in FramesOn(stack'), f.op \in LoadOps PROVE f.op \notin Refused
    <3>1. CASE Known(f)
      BY <3>1 DEF Known, SafeInv, Unrefused
    <3>2. CASE NewLoad(f)
      BY <3>2 DEF NewLoad, Tame, Refused
    <3> QED  BY <2>2, <2>4, <3>1, <3>2 DEF StackFrom
  <2>5. Unrefused'
    BY <2>4 DEF Unrefused, Refused, LoadOps
  <2>6. ASSUME NEW f \in FramesOn(stack'), f.op \in LoadOps, RequestsStay
        PROVE  mem'.request[f.res] # None
    <3>1. mem.request[f.res] # None
      <4>1. CASE Known(f)
        BY <2>6, <4>1 DEF Known, SafeInv, Busy
      <4>2. CASE NewLoad(f)
        BY <2>4, <2>6, <4>2 DEF NewLoad, Reports, InFlight
      <4> QED  BY <2>2, <2>6, <4>1, <4>2 DEF StackFrom
    <3> QED  BY <2>3, <2>6, <3>1 DEF RequestsStay
  <2>7. Busy'
    BY <2>1, <2>6 DEF Busy, SafeNext, Idle
  <2> QED  BY <1>1, <2>1, <2>5, <2>7 DEF SafeInv, SafeNext
<1>3. CASE UNCHANGED vars
  <2>1. mem' = mem /\ stack' = stack
    BY <1>3 DEF vars
  <2> QED  BY <1>1, <2>1 DEF SafeInv, Busy, Unrefused
<1> QED  BY <1>2, <1>3

LEMMA SafeInit == Init => SafeInv
<1> SUFFICES ASSUME Init PROVE SafeInv
  OBVIOUS
<1>1. BaseInv /\ stack = <<>>
  BY BaseInit DEF Init
<1>2. Switches(stack) = {} /\ Shape(stack) /\ Busy /\ Unrefused
  BY <1>1, FewShape, NoFrames DEF Busy, Unrefused
<1>3. /\ mem.inCache = {}
      /\ \A r \in Resources : /\ mem.revalidates[r] = None /\ mem.proxy[r] = None
                              /\ mem.request[r] = None /\ mem.clients[r] = {}
      /\ \A d \in Documents : mem.preloads[d] = {} /\ \A u \in URLs : mem.handle[d][u] = None
  BY DEF Init
<1>4. \A r \in Resources : CanDelete(mem, r)
  BY <1>3, NoneAssumption DEF CanDelete, Preloaded, HasHandles
<1>5. SafeHeap(mem, {})
  BY <1>3, <1>4 DEF SafeHeap, Kept, Linked
<1> QED  BY <1>1, <1>2, <1>5 DEF SafeInv

LEMMA SafeImplies == SafeInv => NoDanglingPointers
<1> SUFFICES ASSUME SafeInv PROVE NoDanglingPointers
  OBVIOUS
<1> DEFINE Alive == {r \in Resources : mem.life[r] = "alive"}
<1>1. mem \in Memory /\ Sound(mem) /\ stack \in Seq(Frames)
      /\ Kept(mem) /\ Linked(mem, Switches(stack))
  BY SafeNow DEF SafeHeap
<1>2. \A r \in Resources : ~CanDelete(mem, r) \/ r \in mem.inCache => r \in Alive
  BY <1>1 DEF Kept
<1> HIDE DEF Alive
<1>3. mem.inCache \subseteq Alive
  BY <1>1, <1>2 DEF Memory
<1>4. \A u \in URLs : mem.map[u] \in Alive \cup {None}
  BY <1>1, <1>3 DEF Sound, Named, Memory
<1>5. \A d \in Documents, u \in URLs : mem.handle[d][u] \in Alive \cup {None}
  BY <1>1, <1>2 DEF CanDelete, HasHandles, Memory
<1>6. \A d \in Documents : mem.preloads[d] \subseteq Alive
  BY <1>1, <1>2 DEF CanDelete, Preloaded, Memory
<1>7. ASSUME NEW r \in Alive PROVE {mem.revalidates[r], mem.proxy[r]} \subseteq Alive \cup {None}
  <2>1. r \in Resources
    BY DEF Alive
  <2>2. mem.revalidates[r] \in Resources \cup {None} /\ mem.proxy[r] \in Resources \cup {None}
    BY <1>1, <2>1 DEF Memory
  <2>3. mem.revalidates[r] # None => mem.revalidates[r] \in Alive
    BY <1>1, <1>2, <2>1, <2>2 DEF Linked, CanDelete
  <2>4. mem.proxy[r] # None => mem.proxy[r] \in Alive
    <3>1. r # None
      BY <2>1, NoneAssumption
    <3> QED  BY <1>1, <1>2, <2>1, <2>2, <3>1 DEF Linked, CanDelete
  <2> QED  BY <2>2, <2>3, <2>4
<1>8. ASSUME NEW i \in DOMAIN stack, stack[i].op \in LoadOps PROVE stack[i].res \in Alive
  <2>1. stack[i] \in FramesOn(stack)
    BY DEF FramesOn
  <2>2. stack[i].res \in Resources /\ mem.request[stack[i].res] # None
    BY <1>1, <1>8, <2>1, FrameResources DEF SafeInv, Busy
  <2> QED  BY <1>2, <2>2 DEF CanDelete
<1> QED  BY <1>3, <1>4, <1>5, <1>6, <1>7, <1>8 DEF NoDanglingPointers, Alive

\* If no load is refused, and code that stops the loads of a document does so while
\* no load calls it, nothing refers to a CachedResource after its deletion: neither
\* m_resources, nor a document's handles and preloads, nor the two ends of a
\* revalidation, nor a function of a load that waits for a call to return
\* (CachedResource::deleteIfPossible, canDelete, MemoryCache::evict).
THEOREM NothingDangles == Tame => (Spec => []NoDanglingPointers)
<1> SUFFICES ASSUME Tame PROVE Spec => []NoDanglingPointers
  OBVIOUS
<1> QED  BY SafeImplies, SafeInit, SafeStep, PTL DEF Spec

(***************************************************************************)
(* Clients are told.  t and K are the clients told and the loads stopped,  *)
(* F the functions under way.                                              *)
(***************************************************************************)
\* What no client can come to watch.
Orphan(m, r) ==
    /\ m.clients[r] = {}
    /\ ~HasHandles(m, r)
    /\ \A u \in URLs : m.map[u] # r

Settled(m, K) ==
    /\ \A r \in m.loading :
          /\ r \notin m.error
          /\ m.request[r] # None \/ r \in K \/ Orphan(m, r)
    /\ \A n \in Resources : m.revalidates[n] \notin m.loading /\ m.revalidates[n] # n

\* f is going to tell c about r.
Telling == {"finish", "dataError", "decodeError", "fail"}
Owes(m, f, r, c) ==
    /\ \/ f.op \in Telling /\ f.res = r
       \/ f.op = "switched" /\ m.revalidates[f.res] = r
    /\ c \in f.left

Told(m, t, F) ==
    \A r \in Resources : r \notin m.loading =>
        \A c \in m.clients[r] : c \in t[r] \/ \E f \in F : Owes(m, f, r, c)

Heeds(m, K, f) ==
    /\ f.op \in {"finish", "fail"} => f.res \notin m.loading
    /\ f.op = "switched" => Orphan(m, f.res)
    /\ f.op = "cancelled" => f.res \in K

Informed(m, t, K, F) ==
    /\ Settled(m, K)
    /\ Told(m, t, F)
    /\ \A f \in F : Heeds(m, K, f)

Used(m, F) == \A f \in F : f.op \in LoadOps => f.res \in Resources /\ m.life[f.res] # "unused"

\* A heap without new clients and loads.
Keeps(m, n, K, F) ==
    /\ n.loading \subseteq m.loading /\ n.error \subseteq m.error
    /\ \A r \in Resources :
          /\ n.clients[r] \subseteq m.clients[r]
          /\ n.revalidates[r] \in {m.revalidates[r], None}
          /\ Orphan(m, r) => Orphan(n, r)
          /\ r \in m.loading \ n.loading => n.clients[r] = {}
          /\ r \in n.loading /\ m.request[r] # None =>
                n.request[r] # None \/ r \in K \/ Orphan(n, r)
    /\ \A f \in F : f.op = "switched" =>
          f.left = {} \/ n.revalidates[f.res] = m.revalidates[f.res]

LEMMA KeepsInformed ==
    ASSUME NEW m \in Memory, NEW n, NEW t, NEW K, NEW F, Used(m, F),
           Informed(m, t, K, F), Keeps(m, n, K, F)
    PROVE  Informed(n, t, K, F)
<1>0. m.loading \subseteq Resources /\ None \notin Resources
  BY NoneAssumption DEF Memory
<1>1. Settled(n, K)
  <2>1. ASSUME NEW r \in n.loading
        PROVE  r \notin n.error /\ (n.request[r] # None \/ r \in K \/ Orphan(n, r))
    <3>1. r \in m.loading /\ r \in Resources
      BY <1>0 DEF Keeps
    <3> QED  BY <3>1 DEF Keeps, Informed, Settled
  <2>2. ASSUME NEW x \in Resources PROVE n.revalidates[x] \notin n.loading /\ n.revalidates[x] # x
    <3>1. n.revalidates[x] \in {m.revalidates[x], None} /\ n.loading \subseteq m.loading
      BY DEF Keeps
    <3>2. m.revalidates[x] \notin m.loading /\ m.revalidates[x] # x
      BY DEF Informed, Settled
    <3> QED  BY <1>0, <3>1, <3>2
  <2> QED  BY <2>1, <2>2 DEF Settled
<1>2. ASSUME NEW r \in Resources, r \notin n.loading, NEW c \in n.clients[r]
      PROVE  c \in t[r] \/ \E f \in F : Owes(n, f, r, c)
  <2>1. r \notin m.loading /\ c \in m.clients[r]
    BY <1>2 DEF Keeps
  <2>2. ASSUME NEW f \in F, Owes(m, f, r, c) PROVE Owes(n, f, r, c)
    BY <2>2 DEF Owes, Keeps
  <2> QED  BY <2>1, <2>2 DEF Informed, Told
<1>3. ASSUME NEW f \in F PROVE Heeds(n, K, f)
  <2>1. f.op = "switched" => f.res \in Resources
    BY DEF Used, LoadOps
  <2>2. Heeds(m, K, f)
    BY DEF Informed
  <2> QED  BY <2>1, <2>2 DEF Heeds, Keeps
<1> QED  BY <1>1, <1>2, <1>3 DEF Informed, Told

LEMMA OrphanLess ==
    ASSUME NEW m, NEW n, Less(m, n), NEW r \in Resources, Orphan(m, r)
    PROVE  Orphan(n, r)
<1>1. n.clients[r] = {}
  BY DEF Orphan, Less
<1>2. ~HasHandles(n, r)
  BY NoneAssumption DEF Orphan, Less, HasHandles
<1>3. \A u \in URLs : n.map[u] # r
  BY NoneAssumption DEF Orphan, Less
<1> QED  BY <1>1, <1>2, <1>3 DEF Orphan

LEMMA LessInformed ==
    ASSUME NEW m \in Memory, NEW n, NEW t, NEW K, NEW F, Used(m, F),
           Informed(m, t, K, F), Less(m, n),
           \A r \in n.loading : m.request[r] # None =>
               n.request[r] # None \/ r \in K \/ Orphan(n, r),
           \A f \in F : f.op = "switched" =>
               f.left = {} \/ n.revalidates[f.res] = m.revalidates[f.res]
    PROVE  Informed(n, t, K, F)
<1>1. ASSUME NEW r \in Resources
      PROVE  /\ n.clients[r] \subseteq m.clients[r]
             /\ n.revalidates[r] \in {m.revalidates[r], None}
             /\ r \in m.loading \ n.loading => n.clients[r] = {}
  BY DEF Less, CanDelete
<1>2. n.loading \subseteq m.loading /\ n.error \subseteq m.error
  BY DEF Less
<1>3. Keeps(m, n, K, F)
  BY <1>1, <1>2, OrphanLess DEF Keeps
<1> QED  BY <1>3, KeepsInformed

LEMMA GiveInformed ==
    ASSUME NEW m \in Memory, NEW t, NEW K, NEW F, Used(m, F), Informed(m, t, K, F),
           NEW d \in Documents, NEW u \in URLs, NEW r \in Resources, r = m.map[u], NEW preload
    PROVE  Informed(Give(m, d, u, r, preload), t, K, F)
<1> DEFINE g == Give(m, d, u, r, preload)
<1>1. /\ \E a : Wants(m, a, r) /\ Less(a, g)
      /\ SameMap(m, g) /\ g.request = m.request /\ g.clients = m.clients
      /\ g.revalidates = m.revalidates
  BY GiveWants
<1> HIDE DEF g
<1>2. PICK a : Wants(m, a, r) /\ Less(a, g)
  BY <1>1
<1>3. g.loading \subseteq m.loading /\ g.error \subseteq m.error
  BY <1>2 DEF Wants, Less
<1>4. \A x \in Resources : x \in m.loading \ g.loading => g.clients[x] = {}
  BY <1>2 DEF Wants, Less, CanDelete
<1>5. ASSUME NEW x \in Resources, Orphan(m, x) PROVE Orphan(g, x)
  <2>1. x # r
    BY <1>5 DEF Orphan
  <2>2. \A e \in Documents, v \in URLs : g.handle[e][v] \in {m.handle[e][v], r, None}
    BY <1>2 DEF Wants, Reasons, Less
  <2>3. ~HasHandles(g, x)
    BY <1>5, <2>1, <2>2, NoneAssumption DEF Orphan, HasHandles
  <2> QED  BY <1>1, <1>5, <2>3 DEF Orphan, SameMap
<1>6. Keeps(m, g, K, F)
  BY <1>1, <1>3, <1>4, <1>5 DEF Keeps
<1> QED  BY <1>6, KeepsInformed DEF g

\* A new resource that is loaded.
LEMMA NewInformed ==
    ASSUME NEW m, Sound(m), NEW t, NEW K, NEW F, Used(m, F), Informed(m, t, K, F),
           NEW n \in Resources, m.life[n] = "unused", NEW e,
           e.loading = m.loading \cup {n}, e.error = m.error, e.request[n] # None,
           e.clients = m.clients, e.handle = m.handle,
           \A u \in URLs : e.map[u] \in {m.map[u], n, None},
           \A x \in Resources \ {n} : /\ e.request[x] = m.request[x]
                                      /\ e.revalidates[x] = m.revalidates[x],
           e.revalidates[n] \notin m.loading, e.revalidates[n] # n
    PROVE  Informed(e, t, K, F)
<1>0. /\ n \notin m.loading /\ n \notin m.error /\ m.clients[n] = {}
      /\ \A x \in Resources : m.revalidates[x] # n
      /\ m.loading \subseteq Resources /\ None \notin Resources
  BY NoneAssumption DEF Sound, Fresh, CanDelete, Memory
<1>1. ASSUME NEW x \in Resources \ {n}, Orphan(m, x) PROVE Orphan(e, x)
  BY <1>0, <1>1 DEF Orphan, HasHandles
<1>2. Settled(e, K)
  <2>1. ASSUME NEW r \in e.loading
        PROVE  r \notin e.error /\ (e.request[r] # None \/ r \in K \/ Orphan(e, r))
    <3>1. CASE r = n
      BY <1>0, <3>1
    <3>2. CASE r # n
      <4>1. r \in m.loading /\ r \in Resources \ {n}
        BY <1>0, <3>2
      <4> QED  BY <1>1, <4>1 DEF Informed, Settled
    <3> QED  BY <3>1, <3>2
  <2>2. ASSUME NEW x \in Resources PROVE e.revalidates[x] \notin e.loading /\ e.revalidates[x] # x
    <3>1. CASE x = n
      BY <3>1
    <3>2. CASE x # n
      <4>1. m.revalidates[x] \notin m.loading /\ m.revalidates[x] # x /\ m.revalidates[x] # n
        BY <1>0 DEF Informed, Settled
      <4> QED  BY <3>2, <4>1
    <3> QED  BY <3>1, <3>2
  <2> QED  BY <2>1, <2>2 DEF Settled
<1>3. ASSUME NEW f \in F, f.op \in LoadOps PROVE f.res \in Resources \ {n}
  BY <1>3 DEF Used
<1>4. ASSUME NEW r \in Resources, r \notin e.loading, NEW c \in e.clients[r]
      PROVE  c \in t[r] \/ \E f \in F : Owes(e, f, r, c)
  <2>1. ASSUME NEW f \in F, Owes(m, f, r, c) PROVE Owes(e, f, r, c)
    BY <1>3, <2>1 DEF Owes, LoadOps
  <2> QED  BY <1>4, <2>1 DEF Informed, Told
<1>5. ASSUME NEW f \in F PROVE Heeds(e, K, f)
  <2>1. Heeds(m, K, f)
    BY DEF Informed
  <2>2. f.op \in {"finish", "fail", "switched"} => f.res \in Resources \ {n}
    BY <1>3 DEF LoadOps
  <2> QED  BY <1>1, <2>1, <2>2 DEF Heeds
<1> QED  BY <1>2, <1>4, <1>5 DEF Informed, Told

\* Other functions are under way.
LEMMA FramesInformed ==
    ASSUME NEW m, NEW t, NEW K, NEW F, Informed(m, t, K, F), NEW L, K \subseteq L, NEW G,
           \A f \in F : f \in G \/ f.op \notin Telling \cup {"switched"} \/ f.left = {},
           \A f \in G : f \in F \/ Heeds(m, L, f)
    PROVE  Informed(m, t, L, G)
<1>1. Settled(m, L)
  BY DEF Informed, Settled
<1>2. Told(m, t, G)
  BY DEF Informed, Told, Owes
<1>3. \A f \in G : Heeds(m, L, f)
  BY DEF Informed, Heeds
<1> QED  BY <1>1, <1>2, <1>3 DEF Informed

\* A load that ends while nothing else is under way tells its clients.
LEMMA EndedInformed ==
    ASSUME NEW m \in Memory, NEW t, NEW K, Informed(m, t, K, {}), NEW r \in Resources,
           NEW n, Flags(m, n, r), n.loading = m.loading \ {r},
           NEW f, f.op \in Telling, f.res = r, f.left = m.clients[r],
           NEW G, f \in G, \A g \in G : g.op \in Telling /\ g.res = r
    PROVE  Informed(n, t, K, G)
<1>1. /\ SameMap(m, n) /\ SameReasons(m, n) /\ n.error \subseteq m.error \cup {r}
  BY DEF Flags
<1>2. \A x : Orphan(m, x) <=> Orphan(n, x)
  BY <1>1 DEF Orphan, HasHandles, SameMap, SameReasons
<1>3. Settled(n, K)
  BY <1>1, <1>2 DEF Informed, Settled, SameReasons
<1>4. ASSUME NEW x \in Resources, x \notin n.loading, NEW c \in n.clients[x]
      PROVE  c \in t[x] \/ \E g \in G : Owes(n, g, x, c)
  <2>1. CASE x = r
    <3>1. Owes(n, f, x, c)
      BY <1>1, <2>1 DEF Owes, SameReasons
    <3> QED  BY <3>1
  <2>2. CASE x # r
    <3>1. x \notin m.loading /\ c \in m.clients[x]
      BY <1>1, <1>4, <2>2 DEF SameReasons
    <3> QED  BY <3>1 DEF Informed, Told
  <2> QED  BY <2>1, <2>2
<1>5. \A g \in G : Heeds(n, K, g)
  BY <1>1 DEF Heeds, Telling
<1> QED  BY <1>3, <1>4, <1>5 DEF Informed, Told

\* A 304 answer, with the clients that the validator had.
LEMMA ReadmitsInformed ==
    ASSUME NEW m, Sound(m), NEW t, NEW K, Informed(m, t, K, {}), NEW v \in Resources,
           v \notin m.inCache, m.request[v] # None, NEW r \in Resources, m.revalidates[v] = r,
           NEW answer, NEW n \in Memory, Readmits(m, n, r, v, answer),
           NEW f, f.op = "switched", f.res = v, f.left = m.clients[v],
           NEW s, \A x \in Resources \ {v} : s[x] = t[x]
    PROVE  Informed(n, s, K, {f})
<1>1. r # v /\ r \notin m.loading /\ m \in Memory /\ m.loading \subseteq Resources
  BY DEF Informed, Settled, Sound, Memory
<1>2. n.loading = m.loading /\ n.error = m.error /\ n.request = m.request
      /\ n.revalidates = m.revalidates
  BY DEF Readmits
<1>3. /\ \A u \in URLs : n.map[u] \in {r, m.map[u]}
      /\ \A d \in Documents, u \in URLs : n.handle[d][u] \in {r, m.handle[d][u]} \ {v}
      /\ \A x \in Resources \ {r} : n.clients[x] \subseteq m.clients[x]
  BY <1>1 DEF Readmits, Memory
<1>4. ASSUME NEW x \in Resources \ {r}, Orphan(m, x) PROVE Orphan(n, x)
  BY <1>3, <1>4 DEF Orphan, HasHandles
<1>5. Orphan(n, v)
  <2>1. n.clients[v] = {}
    BY DEF Readmits
  <2>2. \A u \in URLs : m.map[u] # v
    BY NoneAssumption DEF Sound, Named
  <2> QED  BY <1>1, <1>3, <2>1, <2>2 DEF Orphan, HasHandles
<1>6. Settled(n, K)
  BY <1>1, <1>2, <1>4 DEF Informed, Settled
<1>7. ASSUME NEW x \in Resources, x \notin n.loading, NEW c \in n.clients[x]
      PROVE  c \in s[x] \/ Owes(n, f, x, c)
  <2>1. CASE x = v
    BY <2>1 DEF Readmits
  <2>2. CASE x = r
    <3>1. c \in m.clients[r] \cup m.clients[v]
      BY <1>1, <2>2 DEF Readmits
    <3>2. CASE c \in m.clients[r]
      BY <1>1, <2>2, <3>2 DEF Informed, Told
    <3>3. CASE c \in m.clients[v]
      BY <1>2, <2>2, <3>3 DEF Owes
    <3> QED  BY <3>1, <3>2, <3>3
  <2>3. CASE x # v /\ x # r
    <3>1. c \in m.clients[x] /\ x \notin m.loading
      BY <1>2, <1>7, <2>3 DEF Readmits
    <3> QED  BY <2>3, <3>1 DEF Informed, Told
  <2> QED  BY <2>1, <2>2, <2>3
<1>8. Heeds(n, K, f)
  BY <1>5 DEF Heeds
<1> QED  BY <1>6, <1>7, <1>8 DEF Informed, Told

(***************************************************************************)
(* Step by step.  Only what answers a 304 starts a switch.                 *)
(***************************************************************************)
Bottom(s) == \A i \in DOMAIN s : s[i].op = "switched" => i = Len(s)

ToldInv ==
    /\ BaseInv
    /\ Unrefused
    /\ Bottom(stack)
    /\ Informed(mem, told, stopped, FramesOn(stack))

ToldNext ==
    /\ Bottom(stack')
    /\ Informed(mem', told', stopped', FramesOn(stack'))

LEMMA PushBottom ==
    ASSUME NEW s \in Seq(Frames), NEW f \in Frames, Bottom(s), f.op # "switched" \/ s = <<>>
    PROVE  Bottom(<<f>> \o s)
<1> DEFINE t == <<f>> \o s
<1>0. <<f>> \in Seq(Frames) /\ Len(<<f>>) = 1 /\ <<f>>[1] = f
  OBVIOUS
<1>1. /\ t \in Seq(Frames) /\ Len(t) = 1 + Len(s)
      /\ \A i \in 1..(1 + Len(s)) : t[i] = IF i <= 1 THEN f ELSE s[i - 1]
  BY <1>0, ConcatProperties
<1> HIDE DEF t
<1>2. DOMAIN t = 1..(1 + Len(s)) /\ DOMAIN s = 1..Len(s) /\ Len(s) \in Nat
      /\ s = <<>> => Len(s) = 0
  BY <1>1
<1>3. ASSUME NEW i \in DOMAIN t, t[i].op = "switched" PROVE i = Len(t)
  <2>1. CASE i = 1
    BY <1>1, <1>2, <1>3, <2>1
  <2>2. CASE i # 1
    <3>1. i - 1 \in DOMAIN s /\ t[i] = s[i - 1]
      BY <1>1, <1>2, <2>2
    <3>2. i - 1 = Len(s)
      BY <1>3, <3>1 DEF Bottom
    <3> QED  BY <1>1, <1>2, <3>1, <3>2
  <2> QED  BY <2>1, <2>2
<1> QED  BY <1>3 DEF Bottom, t

LEMMA PopBottom ==
    ASSUME NEW s \in Seq(Frames), s # <<>>, Bottom(s)
    PROVE  Bottom(Tail(s)) /\ (Head(s).op = "switched" => Tail(s) = <<>>)
<1> DEFINE t == Tail(s)
<1>1. /\ t \in Seq(Frames) /\ Head(s) = s[1]
      /\ Len(s) \in Nat \ {0} /\ Len(t) = Len(s) - 1
      /\ \A i \in 1..(Len(s) - 1) : t[i] = s[i + 1]
  BY EmptySeq, HeadTailProperties
<1> HIDE DEF t
<1>2. DOMAIN s = 1..Len(s) /\ DOMAIN t = 1..(Len(s) - 1) /\ 1 \in DOMAIN s
  BY <1>1
<1>3. ASSUME NEW i \in DOMAIN t, t[i].op = "switched" PROVE i = Len(t)
  <2>1. i + 1 \in DOMAIN s /\ s[i + 1].op = "switched"
    BY <1>1, <1>2, <1>3
  <2>2. i + 1 = Len(s)
    BY <2>1 DEF Bottom
  <2> QED  BY <1>1, <1>2, <2>2
<1>4. ASSUME Head(s).op = "switched" PROVE t = <<>>
  <2>1. Len(s) = 1
    BY <1>1, <1>2, <1>4 DEF Bottom
  <2> QED  BY <1>1, <2>1, EmptySeq
<1> QED  BY <1>3, <1>4 DEF Bottom, t

LEMMA FewBottom ==
    ASSUME NEW f, NEW g
    PROVE  Bottom(<<>>) /\ Bottom(<<f>>) /\ (f.op # "switched" => Bottom(<<f, g>>))
<1>1. Bottom(<<>>) /\ Bottom(<<f>>)
  BY DEF Bottom
<1>2. ASSUME f.op # "switched" PROVE Bottom(<<f, g>>)
  <2> DEFINE t == <<f, g>>
  <2>1. DOMAIN t = {1, 2} /\ t[1] = f /\ Len(t) = 2
    OBVIOUS
  <2> HIDE DEF t
  <2>2. Bottom(t)
    BY <1>2, <2>1 DEF Bottom
  <2> QED  BY <2>2 DEF t
<1> QED  BY <1>1, <1>2

LEMMA ToldNow ==
    ASSUME ToldInv
    PROVE  /\ mem \in Memory /\ Sound(mem) /\ stack \in Seq(Frames) /\ BaseInv
           /\ Bottom(stack) /\ Used(mem, FramesOn(stack))
           /\ Informed(mem, told, stopped, FramesOn(stack))
           /\ stack # <<>> => /\ Below \in Seq(Frames) /\ Top \in Frames /\ Bottom(Below)
                              /\ Top.op = "switched" => Below = <<>>
                              /\ FramesOn(stack) = {Top} \cup FramesOn(Below)
<1>1. mem \in Memory /\ Sound(mem) /\ stack \in Seq(Frames)
  BY BaseTypes DEF ToldInv
<1>2. Used(mem, FramesOn(stack))
  BY <1>1, FrameResources DEF ToldInv, BaseInv, UsedFrames, Used
<1>3. stack # <<>> => /\ Below \in Seq(Frames) /\ Top \in Frames /\ Bottom(Below)
                      /\ Top.op = "switched" => Below = <<>>
                      /\ FramesOn(stack) = {Top} \cup FramesOn(Below)
  BY <1>1, PopBottom, TopFacts DEF ToldInv, Top, Below
<1> QED  BY <1>1, <1>2, <1>3 DEF ToldInv

\* A step that neither starts a function of a load nor stops loads.
LEMMA ToldSteady ==
    ASSUME ToldInv, stopped' = stopped, Informed(mem', told', stopped, FramesOn(stack)),
           \/ stack' = stack
           \/ \E f \in Frames : f.op \notin LoadOps /\ stack' = <<f>> \o stack
           \/ /\ stack # <<>> /\ stack' = Below
              /\ Top.op \notin Telling \cup {"switched"} \/ Top.left = {}
           \/ \E f : Goes(f) /\ f.res = Top.res /\ f.left = Top.left
    PROVE  ToldNext
<1>0. /\ stack \in Seq(Frames) /\ Bottom(stack)
      /\ stack # <<>> => /\ Below \in Seq(Frames) /\ Top \in Frames /\ Bottom(Below)
                         /\ Top.op = "switched" => Below = <<>>
                         /\ FramesOn(stack) = {Top} \cup FramesOn(Below)
  BY ToldNow
<1>1. CASE stack' = stack
  BY <1>0, <1>1 DEF ToldNext
<1>2. ASSUME NEW f \in Frames, f.op \notin LoadOps, stack' = <<f>> \o stack PROVE ToldNext
  <2>1. FramesOn(stack') = {f} \cup FramesOn(stack)
    BY <1>0, <1>2, PushFrames
  <2>2. f.op # "switched" /\ Heeds(mem', stopped, f)
    BY <1>2 DEF LoadOps, Heeds
  <2>3. Bottom(stack')
    BY <1>0, <1>2, <2>2, PushBottom
  <2>4. Informed(mem', told', stopped, FramesOn(stack'))
    BY <2>1, <2>2, FramesInformed
  <2> QED  BY <2>3, <2>4 DEF ToldNext
<1>3. CASE /\ stack # <<>> /\ stack' = Below
           /\ Top.op \notin Telling \cup {"switched"} \/ Top.left = {}
  <2>1. Informed(mem', told', stopped, FramesOn(Below))
    BY <1>0, <1>3, FramesInformed
  <2> QED  BY <1>0, <1>3, <2>1 DEF ToldNext
<1>4. ASSUME NEW f, Goes(f), f.res = Top.res, f.left = Top.left PROVE ToldNext
  <2>1. /\ f \in Frames /\ stack # <<>> /\ stack' = <<f>> \o Below /\ f.op = Top.op
    BY <1>4 DEF Goes
  <2>2. FramesOn(stack') = {f} \cup FramesOn(Below)
    BY <1>0, <2>1, PushFrames
  <2>3. Bottom(stack')
    BY <1>0, <2>1, PushBottom
  <2>4. \A r, c : Owes(mem', Top, r, c) => Owes(mem', f, r, c)
    BY <1>4, <2>1 DEF Owes
  <2>5. Heeds(mem', stopped, f)
    <3>1. Heeds(mem', stopped, Top)
      BY <1>0, <2>1 DEF Informed
    <3> QED  BY <1>4, <2>1, <3>1 DEF Heeds
  <2>6. Informed(mem', told', stopped, FramesOn(stack'))
    BY <1>0, <2>1, <2>2, <2>4, <2>5 DEF Informed, Told
  <2> QED  BY <2>3, <2>6 DEF ToldNext
<1> QED  BY <1>1, <1>2, <1>3, <1>4

\* Fewer references, and the requests and revalidations as they were.
LEMMA FewerInformed ==
    ASSUME NEW m \in Memory, NEW n, NEW t, NEW K, NEW F, Used(m, F), Informed(m, t, K, F),
           Less(m, n), n.request = m.request, n.revalidates = m.revalidates
    PROVE  Informed(n, t, K, F)
BY LessInformed

LEMMA LessUsed ==
    ASSUME NEW m, NEW n, NEW F, Used(m, F), Less(m, n)
    PROVE  Used(n, F)
BY DEF Used, Less

LEMMA CheckTold ==
    ASSUME ToldInv, ~Refusals, NEW d \in Documents, NEW u \in URLs, NEW p \in Policies,
           NEW b \in Preloads, CheckForReload(d, u, p, b)
    PROVE  ToldNext
<1> DEFINE f == [op |-> "request", doc |-> d, url |-> u, policy |-> p, preload |-> b]
           r == mem.map[u]
           F == FramesOn(stack)
<1>1. f \in Frames /\ f.op \notin LoadOps /\ Waiting(d, u, p, b) = <<f>> \o stack
  BY DEF Frames, RequestFrame, LoadOps, Waiting
<1> HIDE DEF f
<1>2. /\ mem \in Memory /\ Sound(mem) /\ Informed(mem, told, stopped, F) /\ Used(mem, F)
      /\ r # None => r \in Resources /\ r \in mem.inCache
      /\ told' = told /\ stopped' = stopped
  BY ToldNow, ReferencesUsed DEF CheckForReload
<1>3. ASSUME stack' = Waiting(d, u, p, b), Informed(mem', told, stopped, F) PROVE ToldNext
  BY <1>1, <1>2, <1>3, ToldSteady
<1> HIDE DEF F, r
<1>4. CASE mem' = mem /\ stack' = Waiting(d, u, p, b)
  BY <1>2, <1>3, <1>4
<1>5. CASE Rechecks(d, u, p, b)
  <2>1. mem' = Evict(mem, {r}) /\ stack' = Waiting(d, u, p, b)
    BY <1>5 DEF Rechecks, r
  <2>2. LET e == Evict(mem, {r})
        IN Less(mem, e) /\ e.request = mem.request /\ e.revalidates = mem.revalidates
    BY <1>2, EvictLess DEF SameReasons
  <2>3. Informed(mem', told, stopped, F)
    BY <1>2, <2>1, <2>2, FewerInformed
  <2> QED  BY <1>3, <2>1, <2>3
<1>6. ASSUME NEW n \in Resources, Validating(d, u, p, b, n) PROVE ToldNext
  <2> DEFINE e == CreateValidator(mem, n, r, d)
             a == [e EXCEPT !.loading = @ \cup {n}]
  <2>1. /\ mem' = a /\ stack' = Waiting(d, u, p, b) /\ r # None /\ mem.life[n] = "unused"
        /\ r \notin mem.loading
    BY <1>6 DEF Validating, Renews, StartValidator, CanUseValidator, r
  <2>2. n # r /\ d # None
    BY <1>2, <2>1, NoneAssumption DEF Sound, Fresh
  <2>3. e \in Memory /\ Validates(mem, e, n, r, d)
    BY <1>2, <2>1, <2>2, CreateValidatorFields
  <2> HIDE DEF e
  <2>4. /\ a.loading = e.loading \cup {n} /\ a.error = e.error /\ a.request = e.request
        /\ a.clients = e.clients /\ a.handle = e.handle /\ a.map = e.map
        /\ a.revalidates = e.revalidates
    BY <2>3 DEF Memory
  <2> HIDE DEF a
  <2>5. /\ a.loading = mem.loading \cup {n} /\ a.error = mem.error /\ a.request[n] = d
        /\ a.clients = mem.clients /\ a.handle = mem.handle
        /\ \A w \in URLs : a.map[w] \in {mem.map[w], n, None}
        /\ \A x \in Resources \ {n} : /\ a.request[x] = mem.request[x]
                                      /\ a.revalidates[x] = mem.revalidates[x]
        /\ a.revalidates[n] = r
    BY <1>2, <2>3, <2>4 DEF Validates, Memory
  <2>6. Informed(a, told, stopped, F)
    BY <1>2, <2>1, <2>2, <2>5, NewInformed
  <2> QED  BY <1>3, <2>1, <2>6
<1> QED  BY <1>4, <1>5, <1>6, CheckOutcomes DEF Refusing

LEMMA RequestTold ==
    ASSUME ToldInv, ~Refusals, RequestResource
    PROVE  ToldNext
<1> DEFINE F == FramesOn(stack)
           u == Top.url
<1>1. stack # <<>> /\ Top.op = "request"
  BY RequestOutcomes
<1>2. PICK m : /\ Served(m)
               /\ \/ Skipping(m) \/ Giving(m)
                  \/ \E n \in Resources : Starting(m, n) \/ RefusingNew(m, n)
  BY RequestOutcomes
<1>3. /\ mem \in Memory /\ Informed(mem, told, stopped, F) /\ Used(mem, F) /\ BaseInv
      /\ Top.doc \in Documents /\ u \in URLs
  BY <1>1, ToldNow, TopFacts
<1>t. told' = told /\ stopped' = stopped
  BY Zenon DEF RequestResource
<1>4. /\ Onto(mem, m) /\ m \in Memory /\ Sound(m)
      /\ \A n \in Resources : mem.life[n] = "unused" => m.life[n] = "unused"
  BY <1>1, <1>2, <1>3, ServedOnto DEF Onto, Sound
<1>5. ASSUME stack' = Below, Informed(mem', told, stopped, F) PROVE ToldNext
  <2>1. Top.op \notin Telling \cup {"switched"}
    BY <1>1 DEF Telling
  <2> QED  BY <1>1, <1>t, <1>5, <2>1, ToldSteady
<1> HIDE DEF F
<1>6. Informed(m, told, stopped, F) /\ Used(m, F)
  <2>1. CASE m = mem
    BY <1>3, <2>1
  <2>2. ASSUME NEW e, m = Evict(mem, {e}) PROVE Informed(m, told, stopped, F) /\ Used(m, F)
    <3>1. LET x == Evict(mem, {e})
          IN Less(mem, x) /\ x.request = mem.request /\ x.revalidates = mem.revalidates
      BY <1>3, EvictLess DEF SameReasons
    <3> QED  BY <1>3, <2>2, <3>1, FewerInformed, LessUsed
  <2> QED  BY <1>2, <2>1, <2>2 DEF Served
<1>7. CASE Skipping(m)
  BY <1>5, <1>6, <1>7 DEF Skipping
<1>8. CASE Giving(m)
  <2> DEFINE r == m.map[u]
  <2>1. r # None /\ stack' = Below /\ mem' = Give(m, Top.doc, u, r, Top.preload)
    BY <1>8 DEF Giving
  <2>2. r \in Resources
    BY <1>3, <1>4, <2>1 DEF Memory
  <2>3. Informed(mem', told, stopped, F)
    BY <1>3, <1>4, <1>6, <2>1, <2>2, GiveInformed
  <2> QED  BY <1>5, <2>1, <2>3
<1>9. ASSUME NEW n \in Resources, Starting(m, n) PROVE ToldNext
  <2> DEFINE c == Create(m, n, u, Top.doc)
             e == [c EXCEPT !.map[u] = n, !.loading = @ \cup {n}]
             g == Give(e, Top.doc, u, n, Top.preload)
  <2>1. mem.life[n] = "unused" /\ stack' = Below /\ mem' = g
    BY <1>9 DEF Starting, StartLoad
  <2>2. c \in Memory /\ Creates(m, c, n, u, Top.doc)
    BY <1>3, <1>4, CreateFields
  <2> HIDE DEF c
  <2>3. e \in Memory /\ e.map[u] = n
    BY <1>3, <2>2 DEF Memory
  <2>4. /\ e.loading = c.loading \cup {n} /\ e.error = c.error /\ e.request = c.request
        /\ e.clients = c.clients /\ e.handle = c.handle /\ e.life = c.life
        /\ e.revalidates = c.revalidates /\ \A w \in URLs : e.map[w] \in {c.map[w], n, None}
    BY <2>2 DEF Memory
  <2> HIDE DEF e
  <2>5. /\ e.loading = m.loading \cup {n} /\ e.error = m.error /\ e.request[n] = Top.doc
        /\ e.clients = m.clients /\ e.handle = m.handle
        /\ \A w \in URLs : e.map[w] \in {m.map[w], n, None}
        /\ \A x \in Resources \ {n} : e.request[x] = m.request[x] /\ e.life[x] = m.life[x]
        /\ e.revalidates = m.revalidates
    BY <1>4, <2>2, <2>4 DEF Creates, Memory
  <2>6. m.revalidates[n] = None /\ None \notin m.loading /\ Top.doc # None /\ n # None
    BY <1>3, <1>4, <2>1, NoneAssumption DEF Sound, Fresh, CanDelete, Memory
  <2>7. Informed(e, told, stopped, F)
    BY <1>4, <1>6, <2>1, <2>5, <2>6, NewInformed
  <2>8. Used(e, F)
    BY <1>4, <1>6, <2>1, <2>5 DEF Used
  <2>9. Informed(g, told, stopped, F)
    BY <1>3, <2>3, <2>7, <2>8, GiveInformed
  <2> QED  BY <1>5, <2>1, <2>9
<1>a. \A n : ~RefusingNew(m, n)
  BY DEF RefusingNew
<1> QED  BY <1>2, <1>7, <1>8, <1>9, <1>a

\* Clients, preloads, documents, pruning.
LEMMA OutsideTold ==
    ASSUME ToldInv,
           \/ \E r \in Resources, c \in Clients : AddClient(r, c) \/ RemoveClient(r, c)
           \/ Prune \/ Flush
           \/ \E d \in Documents : ClearPreloads(d) \/ CancelRequests(d) \/ DestroyDocument(d)
    PROVE  ToldNext
<1> DEFINE F == FramesOn(stack)
<1>1. /\ mem \in Memory /\ Informed(mem, told, stopped, F) /\ Used(mem, F)
      /\ told \in [Resources -> SUBSET Clients]
  BY ToldNow, BaseTypes DEF TypeOK
<1>2. ASSUME stopped' = stopped, Informed(mem', told', stopped, F),
             \/ stack' = stack
             \/ \E f \in Frames : f.op \notin LoadOps /\ stack' = <<f>> \o stack
      PROVE  ToldNext
  BY <1>2, ToldSteady
<1> HIDE DEF F
<1>3. ASSUME NEW m \in Memory, NEW t, Informed(m, t, stopped, F), Used(m, F), NEW S,
             NEW n, n = Evict(m, S) \/ n = DeleteIfPossible(m, S) \/ n = m
      PROVE  Informed(n, t, stopped, F)
  <2>1. LET x == Evict(m, S)
        IN Less(m, x) /\ x.request = m.request /\ x.revalidates = m.revalidates
    BY EvictLess DEF SameReasons
  <2>2. LET x == DeleteIfPossible(m, S)
        IN Less(m, x) /\ x.request = m.request /\ x.revalidates = m.revalidates
    BY DeleteIfPossibleLess DEF SameReasons
  <2>3. Informed(Evict(m, S), t, stopped, F) /\ Informed(DeleteIfPossible(m, S), t, stopped, F)
    BY <1>3, <2>1, <2>2, FewerInformed
  <2> QED  BY <1>3, <2>3
<1>4. ASSUME NEW r \in Resources, NEW c \in Clients, AddClient(r, c) PROVE ToldNext
  <2>1. /\ mem' = [mem EXCEPT !.clients[r] = @ \cup {c}, !.referenced = @ \cup {r}]
        /\ HasHandles(mem, r) /\ stack' = stack /\ stopped' = stopped
        /\ told' = IF r \in mem.loading THEN told ELSE [told EXCEPT ![r] = @ \cup {c}]
    BY <1>4, Zenon DEF AddClient
  <2>2. /\ mem'.request = mem.request /\ mem'.revalidates = mem.revalidates
        /\ mem'.handle = mem.handle /\ mem'.map = mem.map
        /\ mem'.loading = mem.loading /\ mem'.error = mem.error
        /\ mem'.clients[r] = mem.clients[r] \cup {c}
        /\ \A x \in Resources : x # r => mem'.clients[x] = mem.clients[x]
    BY <1>1, <2>1 DEF Memory
  <2>3. /\ r \in mem.loading \/ told'[r] = told[r] \cup {c}
        /\ r \in mem.loading => told' = told
        /\ \A x \in Resources : x # r => told'[x] = told[x]
    BY <1>1, <2>1
  <2>4. \A x \in Resources : Orphan(mem, x) => Orphan(mem', x)
    <3>1. ASSUME NEW x \in Resources, Orphan(mem, x) PROVE x # r
      BY <2>1, <3>1 DEF Orphan
    <3> QED  BY <2>2, <3>1 DEF Orphan, HasHandles
  <2>5. Settled(mem', stopped)
    <3>1. mem.loading \subseteq Resources
      BY <1>1 DEF Memory
    <3> QED  BY <1>1, <2>2, <2>4, <3>1 DEF Informed, Settled
  <2>6. ASSUME NEW x \in Resources, x \notin mem'.loading, NEW y \in mem'.clients[x]
        PROVE  y \in told'[x] \/ \E f \in F : Owes(mem', f, x, y)
    <3>1. y \in mem.clients[x] => y \in told[x] \/ \E f \in F : Owes(mem, f, x, y)
      BY <1>1, <2>2, <2>6 DEF Informed, Told
    <3>2. \A f \in F : Owes(mem, f, x, y) => Owes(mem', f, x, y)
      BY <2>2 DEF Owes
    <3> QED  BY <2>2, <2>3, <2>6, <3>1, <3>2
  <2>7. ASSUME NEW f \in F PROVE Heeds(mem', stopped, f)
    <3>1. Heeds(mem, stopped, f) /\ (f.op = "switched" => f.res \in Resources)
      BY <1>1 DEF Informed, Used, LoadOps
    <3> QED  BY <2>2, <2>4, <3>1 DEF Heeds
  <2> QED  BY <1>2, <2>1, <2>5, <2>6, <2>7 DEF Informed, Told
<1>5. ASSUME NEW r \in Resources, NEW c \in Clients, RemoveClient(r, c) PROVE ToldNext
  <2> DEFINE m == [mem EXCEPT !.clients[r] = @ \ {c}]
  <2>1. /\ m \in Memory /\ Drops(mem, m) /\ m.request = mem.request
        /\ m.revalidates = mem.revalidates /\ m.loading = mem.loading /\ m.life = mem.life
        /\ m.clients[r] = mem.clients[r] \ {c}
        /\ \A x \in Resources : x # r => m.clients[x] = mem.clients[x]
    BY <1>1 DEF Memory, Drops, SameMap
  <2>2. /\ mem' = m \/ \E S : mem' = Evict(m, S) \/ mem' = DeleteIfPossible(m, S)
        /\ stack' = stack
    BY <1>5 DEF RemoveClient
  <2>3. stopped' = stopped /\ told' = [told EXCEPT ![r] = @ \ {c}]
    BY <1>5, Zenon DEF RemoveClient
  <2> HIDE DEF m
  <2>4. Informed(m, told, stopped, F)
    BY <1>1, <2>1, DropsLess, FewerInformed
  <2>5. told'[r] = told[r] \ {c} /\ \A x \in Resources : x # r => told'[x] = told[x]
    BY <1>1, <2>3
  <2>6. Told(m, told', F)
    BY <2>1, <2>4, <2>5 DEF Informed, Told
  <2>7. Informed(m, told', stopped, F) /\ Used(m, F)
    BY <1>1, <2>1, <2>4, <2>6 DEF Informed, Used
  <2>8. Informed(mem', told', stopped, F)
    BY <1>3, <2>1, <2>2, <2>7
  <2> QED  BY <1>2, <2>2, <2>3, <2>8
<1>6. CASE Prune \/ Flush
  <2>1. stack' = stack /\ told' = told /\ stopped' = stopped /\ \E S : mem' = Evict(mem, S)
    BY <1>6 DEF Prune, Flush
  <2> QED  BY <1>1, <1>2, <1>3, <2>1
<1>7. ASSUME NEW d \in Documents
      PROVE  LET m == WithoutPreloads(mem, d)
             IN Informed(m, told, stopped, F) /\ Used(m, F) /\ m \in Memory
  <2>1. PICK k \in Memory, G \in SUBSET Resources :
              /\ Less(mem, k) /\ k.request = mem.request /\ k.revalidates = mem.revalidates
              /\ WithoutPreloads(mem, d) = Evict(k, G)
    BY <1>1, WithoutPreloadsLess
  <2>2. LET x == Evict(k, G)
        IN Less(k, x) /\ x.request = k.request /\ x.revalidates = k.revalidates /\ x \in Memory
    BY EvictLess DEF SameReasons
  <2>3. Informed(k, told, stopped, F) /\ Used(k, F)
    BY <1>1, <2>1, FewerInformed, LessUsed
  <2>4. Informed(Evict(k, G), told, stopped, F) /\ Used(Evict(k, G), F)
    BY <2>2, <2>3, FewerInformed, LessUsed
  <2> QED  BY <2>1, <2>2, <2>4
<1>8. ASSUME NEW d \in Documents, ClearPreloads(d) PROVE ToldNext
  <2>1. mem' = WithoutPreloads(mem, d) /\ stack' = stack /\ told' = told /\ stopped' = stopped
    BY <1>8 DEF ClearPreloads
  <2> QED  BY <1>2, <1>7, <2>1
<1>9. ASSUME NEW d \in Documents, DestroyDocument(d) PROVE ToldNext
  <2> DEFINE m == WithoutPreloads(mem, d)
             S == {m.handle[d][u] : u \in URLs} \ {None}
             a == [m EXCEPT !.handle[d] = [u \in URLs |-> None]]
  <2>1. mem' = DeleteIfPossible(a, S) /\ stack' = stack /\ told' = told /\ stopped' = stopped
    BY <1>9 DEF DestroyDocument
  <2>2. Informed(m, told, stopped, F) /\ Used(m, F) /\ m \in Memory
    BY <1>7
  <2> HIDE DEF m, S
  <2>3. a \in Memory /\ Drops(m, a) /\ a.request = m.request /\ a.revalidates = m.revalidates
    BY <2>2 DEF Memory, Drops, SameMap
  <2> HIDE DEF a
  <2>4. Informed(a, told, stopped, F) /\ Used(a, F)
    BY <2>2, <2>3, DropsLess, FewerInformed, LessUsed
  <2>5. Informed(mem', told, stopped, F)
    BY <1>3, <2>1, <2>3, <2>4
  <2> QED  BY <1>2, <2>1, <2>5
<1>a. ASSUME NEW d \in Documents, CancelRequests(d) PROVE ToldNext
  <2>1. /\ mem' = mem /\ told' = told /\ stopped' = stopped
        /\ \E S \in SUBSET Resources : stack' = <<[op |-> "cancelAll", left |-> S]>> \o stack
    BY <1>a DEF CancelRequests
  <2>2. \A S \in SUBSET Resources : /\ [op |-> "cancelAll", left |-> S] \in Frames
                                    /\ [op |-> "cancelAll", left |-> S].op \notin LoadOps
    BY DEF Frames, CancelFrame, LoadOps
  <2> QED  BY <1>1, <1>2, <2>1, <2>2
<1> QED  BY <1>4, <1>5, <1>6, <1>8, <1>9, <1>a

\* What Loader does with the reports of a load.
LEMMA NetworkTold ==
    ASSUME ToldInv, Network
    PROVE  ToldNext
<1>1. mem \in Memory /\ Sound(mem) /\ BaseInv /\ told \in [Resources -> SUBSET Clients]
  BY ToldNow, BaseTypes DEF TypeOK
<1>n. \A m : Used(m, {})
  BY DEF Used
<1>r. ASSUME NEW r, Reports(r)
      PROVE  /\ stack = <<>> /\ FramesOn(stack) = {} /\ Informed(mem, told, stopped, {})
             /\ mem.request[r] # None
  BY <1>r, ToldNow, NoFrames DEF Reports, InFlight
<1>2. ASSUME NEW r, Reports(r), stopped' = stopped, NEW G,
             Informed(mem', told', stopped, G),
             \/ stack' = stack /\ G = {}
             \/ \E f : stack' = <<f>> /\ G = {f}
             \/ \E f, g : stack' = <<f, g>> /\ f.op = "decodeError" /\ G = {f, g}
      PROVE  ToldNext
  <2>1. Bottom(stack')
    BY <1>2, <1>r, FewBottom
  <2>2. FramesOn(stack') = G
    BY <1>2, <1>r, FewFrames
  <2> QED  BY <1>2, <2>1, <2>2 DEF ToldNext
<1>3. ASSUME NEW v \in Resources, NEW answer \in Answers, NotModified(v, answer)
      PROVE  ToldNext
  <2> DEFINE r == mem.revalidates[v]
             m == Evict(mem, {v})
             f == Load("switched", v, mem.clients[v])
  <2>1. /\ r \in Resources /\ mem' \in Memory /\ Readmits(m, mem', r, v, answer)
        /\ Reports(v)
    BY <1>1, <1>3, NotModifiedHeap
  <2>2. stack' = <<f>> /\ told' = [told EXCEPT ![v] = {}] /\ stopped' = stopped
    BY <1>3, Zenon DEF NotModified, Switched
  <2>3. f.op = "switched" /\ f.res = v /\ f.left = mem.clients[v]
    BY DEF Load
  <2> HIDE DEF f
  <2>4. /\ Less(mem, m) /\ m.revalidates = mem.revalidates /\ m.request = mem.request
        /\ m.clients = mem.clients /\ m.inCache = mem.inCache \ {v}
    BY <1>1, EvictLess DEF SameReasons
  <2>5. Sound(m)
    BY <1>1, EvictOnto DEF Onto
  <2>6. m.revalidates[v] = r /\ v \notin m.inCache /\ m.request[v] # None
        /\ f.left = m.clients[v]
    BY <1>r, <2>1, <2>3, <2>4
  <2>7. \A x \in Resources \ {v} : told'[x] = told[x]
    BY <1>1, <2>2
  <2> HIDE DEF m, r
  <2>8. Informed(m, told, stopped, {})
    BY <1>1, <1>n, <1>r, <2>1, <2>4, FewerInformed
  <2>9. Informed(mem', told', stopped, {f})
    BY <2>1, <2>3, <2>5, <2>6, <2>7, <2>8, ReadmitsInformed
  <2> QED  BY <1>2, <2>1, <2>2, <2>9
<1>f. ASSUME NEW r \in Resources, Reports(r)
      PROVE  LET k == RevalidationFailed(mem, r)
             IN Informed(k, told, stopped, {}) /\ k \in Memory /\ k.clients = mem.clients
  <2> DEFINE k == RevalidationFailed(mem, r)
  <2>1. Less(mem, k) /\ k.request = mem.request /\ k.clients = mem.clients /\ k \in Memory
    BY <1>1, RevalidationFailedLess
  <2> HIDE DEF k
  <2>2. Informed(k, told, stopped, {})
    BY <1>1, <1>n, <1>f, <1>r, <2>1, LessInformed
  <2> QED  BY <2>1, <2>2 DEF k
<1>4. ASSUME NEW r \in Resources, Reports(r), NEW m \in Memory, Informed(m, told, stopped, {}),
             m.clients = mem.clients, mem' \in {Finished(m, r), Failed(m, r), Rejected(m, r)},
             NEW op \in Telling, NEW G, Load(op, r, mem.clients[r]) \in G,
             \A g \in G : g.op \in Telling /\ g.res = r, told' = told
      PROVE  Informed(mem', told', stopped, G)
  <2>1. m \in Memory /\ mem' \in {Finished(m, r), Failed(m, r), Rejected(m, r)}
    BY <1>4
  <2>2. Flags(m, mem', r)
    BY <2>1, EndedFields, Zenon
  <2>3. mem'.loading = m.loading \ {r}
    BY <2>1 DEF Finished, Failed, Rejected, Memory
  <2> DEFINE f == Load(op, r, mem.clients[r])
  <2>4. f \in G /\ f.left = m.clients[r]
    BY <1>4 DEF Load
  <2> HIDE DEF f
  <2> QED  BY <1>4, <2>2, <2>3, <2>4, EndedInformed
<1>l. /\ \A op \in Telling : \A r, left : /\ Load(op, r, left).op \in Telling
                                          /\ Load(op, r, left).res = r
      /\ {"dataError", "decodeError", "finish", "fail"} \subseteq Telling
      /\ \A r, left : Load("decodeError", r, left).op = "decodeError"
  BY DEF Load, Telling
<1>5. ASSUME NEW r \in Resources, NEW answer \in Answers, DidReceiveResponse(r, answer)
      PROVE  ToldNext
  <2> DEFINE k == RevalidationFailed(mem, r)
             a == [k EXCEPT !.response[r] = answer]
  <2>1. mem' = a /\ Reports(r) /\ stack' = stack
    BY <1>5, ReportOutcomes
  <2>t. told' = told /\ stopped' = stopped
    BY <1>5 DEF DidReceiveResponse
  <2>2. Informed(k, told, stopped, {}) /\ k \in Memory
    BY <1>f, <2>1
  <2> HIDE DEF k
  <2>3. /\ a.loading = k.loading /\ a.error = k.error /\ a.request = k.request
        /\ a.revalidates = k.revalidates /\ a.clients = k.clients /\ a.handle = k.handle
        /\ a.map = k.map
    BY <2>2 DEF Memory
  <2> HIDE DEF a
  <2>4. Informed(a, told, stopped, {})
    BY <2>2, <2>3 DEF Informed, Settled, Told, Orphan, HasHandles
  <2> QED  BY <1>2, <2>1, <2>t, <2>4
<1>6. ASSUME NEW r \in Resources, DidReceiveData(r) PROVE ToldNext
  <2>1. PICK op \in {"dataError", "decodeError"} :
           Reports(r) /\ mem' = Failed(mem, r) /\ stack' = <<Load(op, r, mem.clients[r])>>
    BY <1>6, ReportOutcomes
  <2>t. told' = told /\ stopped' = stopped
    BY <1>6 DEF DidReceiveData
  <2>2. op \in Telling
    BY <1>l
  <2> DEFINE f == Load(op, r, mem.clients[r])
  <2>3. f.op \in Telling /\ f.res = r
    BY <1>l, <2>2
  <2>4. Informed(mem', told', stopped, {f})
    BY <1>1, <1>4, <1>r, <2>1, <2>t, <2>2, <2>3
  <2> HIDE DEF f
  <2> QED  BY <1>2, <2>1, <2>t, <2>4 DEF f
<1>7. ASSUME NEW r \in Resources, DidFail(r) PROVE ToldNext
  <2> DEFINE k == RevalidationFailed(mem, r)
             f == Load("fail", r, mem.clients[r])
  <2>1. Reports(r) /\ mem' = Failed(k, r) /\ stack' = <<f>>
    BY <1>7, ReportOutcomes
  <2>t. told' = told /\ stopped' = stopped
    BY <1>7 DEF DidFail
  <2>2. Informed(k, told, stopped, {}) /\ k \in Memory /\ k.clients = mem.clients
    BY <1>f, <2>1
  <2>3. f.op \in Telling /\ f.res = r
    BY <1>l
  <2> HIDE DEF k
  <2>4. Informed(mem', told', stopped, {f})
    BY <1>4, <1>l, <2>1, <2>t, <2>2, <2>3
  <2> HIDE DEF f
  <2> QED  BY <1>2, <2>1, <2>t, <2>4
<1>8. ASSUME NEW r \in Resources, DidFinishLoading(r) PROVE ToldNext
  <2> DEFINE f == Load("finish", r, mem.clients[r])
             g == Load("decodeError", r, mem.clients[r])
             h == Load("finish", r, {})
  <2>1. /\ Reports(r)
        /\ \/ r \in mem.error /\ mem' = EndRequest(mem, r) /\ stack' = stack
           \/ mem' = Finished(mem, r) /\ stack' = <<f>>
           \/ mem' = Rejected(mem, r) /\ stack' = <<g, h>>
    BY <1>8, ReportOutcomes
  <2>t. told' = told /\ stopped' = stopped
    BY <1>8 DEF DidFinishLoading
  <2>i. Informed(mem, told, stopped, {})
    BY <1>r, <2>1
  <2>2. /\ f.op \in Telling /\ f.res = r /\ g.op \in Telling /\ g.res = r
        /\ h.op \in Telling /\ h.res = r /\ g.op = "decodeError"
    BY <1>l
  <2>3. CASE r \in mem.error /\ mem' = EndRequest(mem, r) /\ stack' = stack
    <3> DEFINE x == EndRequest(mem, r)
    <3>1. Less(mem, x) /\ x.request = [mem.request EXCEPT ![r] = None]
      BY <1>1, EndRequestLess
    <3>2. mem.request \in [Resources -> Documents \cup {None}] /\ mem.loading \subseteq Resources
      BY <1>1 DEF Memory
    <3> HIDE DEF x
    <3>3. x.loading \subseteq mem.loading /\ r \notin mem.loading
      BY <2>i, <2>3, <3>1 DEF Informed, Settled, Less
    <3>4. \A y \in x.loading : x.request[y] = mem.request[y]
      BY <3>1, <3>2, <3>3
    <3>5. Informed(x, told, stopped, {})
      BY <1>1, <1>n, <2>i, <3>1, <3>4, LessInformed
    <3> QED  BY <1>2, <2>1, <2>t, <2>3, <3>5 DEF x
  <2>4. CASE mem' = Finished(mem, r) /\ stack' = <<f>>
    <3>1. Informed(mem', told', stopped, {f})
      BY <1>1, <1>4, <1>l, <2>1, <2>t, <2>i, <2>2, <2>4
    <3> HIDE DEF f
    <3> QED  BY <1>2, <2>1, <2>t, <2>4, <3>1
  <2>5. CASE mem' = Rejected(mem, r) /\ stack' = <<g, h>>
    <3>1. Informed(mem', told', stopped, {g, h})
      BY <1>1, <1>4, <1>l, <2>1, <2>t, <2>i, <2>2, <2>5
    <3> HIDE DEF g, h
    <3> QED  BY <1>2, <2>1, <2>t, <2>2, <2>5, <3>1
  <2> HIDE DEF f, g, h
  <2> QED  BY <2>1, <2>3, <2>4, <2>5
<1> QED  BY <1>3, <1>5, <1>6, <1>7, <1>8 DEF Network

\* The next client is told.
LEMMA TellTold ==
    ASSUME ToldInv, NEW c \in Clients, Tell(c)
    PROVE  ToldNext
<1> DEFINE r == IF Top.op = "switched" THEN mem.revalidates[Top.res] ELSE Top.res
           calls == c \in mem.clients[r] /\ (Top.op = "switched" => r \notin mem.loading)
           F == FramesOn(stack)
<1>1. /\ mem \in Memory /\ Informed(mem, told, stopped, F)
      /\ told \in [Resources -> SUBSET Clients]
      /\ stack # <<>> => /\ Below \in Seq(Frames) /\ Bottom(Below)
                         /\ Top.op = "switched" => Below = <<>>
                         /\ F = {Top} \cup FramesOn(Below)
  BY ToldNow, BaseTypes DEF TypeOK
<1>2. PICK f : Goes(f) /\ f.res = Top.res /\ f.left = Top.left \ {c}
  BY GoingOn DEF ToldInv
<1>3. mem' = mem /\ stopped' = stopped
      /\ told' = IF calls THEN [told EXCEPT ![r] = @ \cup {c}] ELSE told
  BY Zenon DEF Tell
<1>4. stack # <<>> /\ f \in Frames /\ f.op = Top.op /\ stack' = <<f>> \o Below
  BY <1>2 DEF Goes
<1>5. FramesOn(stack') = {f} \cup FramesOn(Below) /\ Bottom(stack')
  BY <1>1, <1>4, PushFrames, PushBottom
<1> HIDE DEF F
<1>6. ASSUME NEW x \in Resources PROVE told[x] \subseteq told'[x]
  BY <1>1, <1>3
<1>7. ASSUME NEW x \in Resources, x \notin mem.loading, NEW y \in mem.clients[x]
      PROVE  y \in told'[x] \/ \E g \in FramesOn(stack') : Owes(mem, g, x, y)
  <2>1. CASE y \in told[x]
    BY <1>6, <2>1
  <2>2. ASSUME NEW g \in F, Owes(mem, g, x, y)
        PROVE  y \in told'[x] \/ \E h \in FramesOn(stack') : Owes(mem, h, x, y)
    <3>1. CASE g \in FramesOn(Below)
      BY <1>5, <2>2, <3>1
    <3>2. CASE g = Top /\ y # c
      <4>1. Owes(mem, f, x, y)
        BY <1>2, <1>4, <2>2, <3>2 DEF Owes
      <4> QED  BY <1>5, <4>1
    <3>3. CASE g = Top /\ y = c
      <4>1. r = x
        BY <2>2, <3>3 DEF Owes, Telling
      <4>2. calls
        BY <1>7, <3>3, <4>1
      <4> HIDE DEF r, calls
      <4> QED  BY <1>1, <1>3, <3>3, <4>1, <4>2
    <3> QED  BY <1>1, <1>4, <3>1, <3>2, <3>3
  <2> QED  BY <1>1, <1>7, <2>1, <2>2 DEF Informed, Told
<1>8. ASSUME NEW g \in FramesOn(stack') PROVE Heeds(mem, stopped, g)
  <2>1. Heeds(mem, stopped, Top) /\ (g \in FramesOn(Below) => Heeds(mem, stopped, g))
    BY <1>1, <1>4 DEF Informed
  <2>2. Heeds(mem, stopped, f)
    BY <1>2, <1>4, <2>1 DEF Heeds
  <2> QED  BY <1>5, <2>1, <2>2
<1>9. Settled(mem, stopped)
  BY <1>1 DEF Informed
<1> QED  BY <1>3, <1>5, <1>7, <1>8, <1>9 DEF ToldNext, Informed, Told

\* What the functions under way do when the calls return.
LEMMA ReturnTold ==
    ASSUME ToldInv, Returning, ~RequestResource
    PROVE  ToldNext
<1> DEFINE r == Top.res
           F == FramesOn(stack)
<1>1. /\ mem \in Memory /\ Informed(mem, told, stopped, F) /\ Used(mem, F) /\ BaseInv
      /\ stack \in Seq(Frames)
      /\ stack # <<>> => /\ Below \in Seq(Frames) /\ Bottom(Below)
                         /\ Top.op = "switched" => Below = <<>>
                         /\ F = {Top} \cup FramesOn(Below)
  BY ToldNow
<1>t. ASSUME stack # <<>>, Top.op \in LoadOps
      PROVE  r \in Resources /\ Top.op \notin Refused /\ Heeds(mem, stopped, Top)
  <2>1. r \in Resources /\ Top \in F
    BY <1>1, <1>t, TopFacts
  <2> QED  BY <1>1, <2>1 DEF ToldInv, Unrefused, Informed
<1>e. /\ FinishReturn => UNCHANGED <<told, stopped>> /\ Top.left = {}
      /\ DataErrorReturn => UNCHANGED <<told, stopped>> /\ Top.left = {}
      /\ DecodeErrorReturn => UNCHANGED <<told, stopped>> /\ Top.left = {}
      /\ FailReturn => UNCHANGED <<told, stopped>> /\ Top.left = {}
      /\ CancelledReturn => UNCHANGED <<told, stopped>> /\ Top.left = {}
      /\ Switch => UNCHANGED <<told, stopped>> /\ Top.left = {}
      /\ SwitchReturn => UNCHANGED <<told, stopped>> /\ Top.left = {}
  BY DEF FinishReturn, DataErrorReturn, DecodeErrorReturn, FailReturn, CancelledReturn,
         Switch, SwitchReturn, Ends
<1>b. ASSUME stack # <<>>, stack' = Below, Top.left = {}, UNCHANGED <<told, stopped>>,
             Informed(mem', told, stopped, F)
      PROVE  ToldNext
  BY <1>b, ToldSteady
<1>g. ASSUME NEW f, Goes(f), f.res = Top.res, f.left = Top.left, UNCHANGED <<told, stopped>>,
             Informed(mem', told, stopped, F)
      PROVE  ToldNext
  BY <1>g, ToldSteady
<1> HIDE DEF F
<1>2. CASE CancelReturn
  <2>1. mem' = mem /\ stack # <<>> /\ stack' = Below /\ Top.left = {} /\ UNCHANGED <<told, stopped>>
    BY <1>2 DEF CancelReturn, Running
  <2> QED  BY <1>1, <1>b, <2>1
<1>3. CASE DataErrorReturn \/ DecodeErrorReturn
  <2>1. /\ stack # <<>> /\ stack' = Below
        /\ mem' = mem \/ mem' = Evict(mem, {r})
    BY <1>1, <1>3, ReturnOutcomes DEF Running
  <2>2. LET x == Evict(mem, {r})
        IN Less(mem, x) /\ x.revalidates = mem.revalidates /\ x.request = mem.request
    BY <1>1, EvictLess DEF SameReasons
  <2>3. Informed(mem', told, stopped, F)
    BY <1>1, <2>1, <2>2, FewerInformed
  <2> QED  BY <1>3, <1>b, <1>e, <2>1, <2>3
<1>4. CASE LoadDone
  <2>1. mem' = mem /\ \E f : Goes(f) /\ f.res = Top.res /\ f.left = Top.left
    BY <1>1, <1>4, GoingOn
  <2>2. UNCHANGED <<told, stopped>>
    BY <1>4 DEF LoadDone
  <2> QED  BY <1>1, <1>g, <2>1, <2>2
<1>5. CASE FinishReturn \/ FailReturn \/ CancelledReturn \/ SwitchReturn
  <2>1. /\ stack # <<>> /\ Top.op \in {"finish", "fail", "cancelled", "switched"} /\ stack' = Below
        /\ mem' = EndRequest(mem, r) \/ mem' = EndRequest(Evict(mem, {r}), r)
    BY <1>1, <1>5, ReturnOutcomes DEF Running
  <2>2. r \in Resources /\ Top.op \in LoadOps /\ Heeds(mem, stopped, Top)
    BY <1>t, <2>1 DEF LoadOps
  <2>3. r \notin mem.loading \/ r \in stopped \/ Orphan(mem, r)
    BY <2>1, <2>2 DEF Heeds
  <2> HIDE DEF r
  <2>4. ASSUME NEW m \in Memory, Informed(m, told, stopped, F), Used(m, F), Less(mem, m)
        PROVE  Informed(EndRequest(m, r), told, stopped, F)
    <3> DEFINE x == EndRequest(m, r)
    <3>1. Less(m, x) /\ x.revalidates = m.revalidates /\ x.request = [m.request EXCEPT ![r] = None]
      BY <2>2, EndRequestLess
    <3>2. m.request \in [Resources -> Documents \cup {None}] /\ mem.loading \subseteq Resources
      BY <1>1, <2>4 DEF Memory
    <3> HIDE DEF x
    <3>3. ASSUME NEW y \in x.loading, m.request[y] # None
          PROVE  x.request[y] # None \/ y \in stopped \/ Orphan(x, y)
      <4>1. y \in mem.loading
        BY <2>4, <3>1, <3>3 DEF Less
      <4>2. CASE y # r
        BY <3>1, <3>2, <3>3, <4>1, <4>2
      <4>3. CASE y = r
        <5>1. y \in stopped \/ Orphan(mem, y)
          BY <2>3, <4>1, <4>3
        <5> QED  BY <2>2, <2>4, <3>1, <4>3, <5>1, OrphanLess
      <4> QED  BY <4>2, <4>3
    <3>4. Informed(x, told, stopped, F)
      BY <2>4, <3>1, <3>3, LessInformed
    <3> QED  BY <3>4 DEF x
  <2>5. LET x == Evict(mem, {r})
        IN x \in Memory /\ Informed(x, told, stopped, F) /\ Used(x, F) /\ Less(mem, x)
    <3>1. LET x == Evict(mem, {r})
          IN Less(mem, x) /\ x.revalidates = mem.revalidates /\ x.request = mem.request /\ x \in Memory
      BY <1>1, EvictLess DEF SameReasons
    <3> QED  BY <1>1, <3>1, FewerInformed, LessUsed
  <2>6. Less(mem, mem)
    BY DEF Less
  <2>7. Informed(mem', told, stopped, F)
    BY <1>1, <2>1, <2>4, <2>5, <2>6
  <2> QED  BY <1>5, <1>b, <1>e, <2>1, <2>7
<1>6. CASE Switch
  <2>1. /\ stack # <<>> /\ Top.op = "switched" /\ mem' = ClearRevalidation(mem, r)
        /\ \E f : Goes(f) /\ f.res = r /\ f.left = Top.left
    BY <1>1, <1>6, GoingOn DEF Running
  <2>2. r \in Resources
    BY <1>t, <2>1 DEF LoadOps
  <2>3. \A f \in F : f.left = {}
    BY <1>1, <1>6, <1>e, <2>1, NoFrames
  <2>4. LET x == ClearRevalidation(mem, r) IN Less(mem, x) /\ x.request = mem.request
    BY <1>1, <2>2, ClearedLess
  <2>5. Informed(mem', told, stopped, F)
    BY <1>1, <2>1, <2>3, <2>4, LessInformed
  <2> QED  BY <1>6, <1>e, <1>g, <2>1, <2>5
<1>7. ASSUME NEW v \in Resources, CancelOne(v) PROVE ToldNext
  <2>1. Running("cancelAll") /\ told' = told
    BY <1>1, <1>7, CancelOutcomes DEF CancelOne
  <2>2. PICK f \in Frames :
           /\ f.op = "cancelAll"
           /\ \/ mem' = mem /\ stopped' = stopped /\ stack' = <<f>> \o Below
              \/ /\ InFlight(v) /\ mem' = RevalidationFailed(mem, v)
                 /\ stopped' = stopped \cup {v}
                 /\ stack' = <<Load("cancelled", v, {})>> \o (<<f>> \o Below)
    BY <1>1, <1>7, CancelOutcomes
  <2>3. stack # <<>> /\ Top.op = "cancelAll" /\ Below \in Seq(Frames) /\ Bottom(Below)
        /\ F = {Top} \cup FramesOn(Below)
    BY <1>1, <2>1 DEF Running
  <2> DEFINE s == <<f>> \o Below
  <2>4. s \in Seq(Frames) /\ Bottom(s) /\ FramesOn(s) = {f} \cup FramesOn(Below)
    BY <2>2, <2>3, PushBottom, PushFrames
  <2>5. Informed(mem, told, stopped, FramesOn(s)) /\ Used(mem, FramesOn(s))
    <3>1. Heeds(mem, stopped, f) /\ Top.op \notin Telling \cup {"switched"} /\ f.op \notin LoadOps
      BY <2>2, <2>3 DEF Heeds, Telling, LoadOps
    <3>2. \A x \in F : x \in FramesOn(s) \/ x.op \notin Telling \cup {"switched"}
      BY <2>3, <2>4, <3>1
    <3>3. \A x \in FramesOn(s) : x \in F \/ Heeds(mem, stopped, x)
      BY <2>3, <2>4, <3>1
    <3>4. Informed(mem, told, stopped, FramesOn(s))
      BY <1>1, <3>2, <3>3, FramesInformed
    <3>5. Used(mem, FramesOn(s))
      BY <1>1, <2>3, <2>4, <3>1 DEF Used
    <3> QED  BY <3>4, <3>5
  <2>6. \/ mem' = mem /\ stopped' = stopped /\ stack' = s
        \/ /\ InFlight(v) /\ mem' = RevalidationFailed(mem, v) /\ stopped' = stopped \cup {v}
           /\ stack' = <<Load("cancelled", v, {})>> \o s
    BY <2>2
  <2>7. CASE mem' = mem /\ stopped' = stopped /\ stack' = s
    BY <2>1, <2>4, <2>5, <2>7 DEF ToldNext
  <2>8. CASE /\ InFlight(v) /\ mem' = RevalidationFailed(mem, v) /\ stopped' = stopped \cup {v}
             /\ stack' = <<Load("cancelled", v, {})>> \o s
    <3> DEFINE g == Load("cancelled", v, {})
               k == RevalidationFailed(mem, v)
    <3>1. g \in Frames /\ g.op = "cancelled" /\ g.res = v
      BY NewFrames DEF Load, LoadOps
    <3>2. Less(mem, k) /\ k.request = mem.request
          /\ k.revalidates = [mem.revalidates EXCEPT ![v] = None]
      BY <1>1, RevalidationFailedLess
    <3>3. stack' = <<g>> \o s /\ mem' = k /\ stopped' = stopped \cup {v}
      BY <2>8
    <3> HIDE DEF g, k
    <3>4. ASSUME NEW x \in FramesOn(s), x.op = "switched"
          PROVE  k.revalidates[x.res] = mem.revalidates[x.res]
      <4>1. x \in FramesOn(stack) /\ x.op \in Ending /\ x.op \in LoadOps
        BY <1>1, <2>2, <2>3, <2>4, <3>4 DEF Ending, LoadOps, F
      <4>2. x.res # v /\ x.res \in Resources
        BY <1>1, <2>8, <4>1, InFlightFrames DEF Used, F
      <4> QED  BY <1>1, <3>2, <4>2 DEF Memory
    <3> HIDE DEF s
    <3>5. Informed(k, told, stopped, FramesOn(s))
      BY <1>1, <2>5, <3>2, <3>4, LessInformed
    <3>6. FramesOn(stack') = {g} \cup FramesOn(s) /\ Bottom(stack')
      BY <2>4, <3>1, <3>3, PushFrames, PushBottom
    <3>7. Heeds(k, stopped', g)
      BY <3>1, <3>3 DEF Heeds
    <3>8. Informed(k, told, stopped', FramesOn(stack'))
      BY <3>3, <3>5, <3>6, <3>7, FramesInformed
    <3> QED  BY <2>1, <3>3, <3>6, <3>8 DEF ToldNext
  <2> HIDE DEF s
  <2> QED  BY <2>6, <2>7, <2>8
<1>8. ~RefusedReturn /\ ~LoadReturn
  <2>1. RefusedReturn \/ LoadReturn => stack # <<>> /\ Top.op \in Refused
    BY DEF RefusedReturn, LoadReturn, RevalidateReturn, Ends, Running, Refused
  <2> QED  BY <1>t, <2>1 DEF Refused, LoadOps
<1>9. \/ \E v \in Resources : CancelOne(v)
      \/ CancelReturn \/ LoadDone \/ DataErrorReturn \/ \E c \in Clients : Tell(c)
      \/ RefusedReturn \/ Switch
      \/ FinishReturn \/ FailReturn \/ CancelledReturn \/ SwitchReturn
      \/ DecodeErrorReturn \/ LoadReturn
  BY DEF Returning
<1> HIDE DEF r
<1> QED  BY <1>2, <1>3, <1>4, <1>5, <1>6, <1>7, <1>8, <1>9, TellTold

\* Where no load is refused, none is being reported as refused.
LEMMA RefusedNone ==
    ASSUME BaseInv, ~Refusals, Unrefused, Next
    PROVE  Unrefused'
<1>1. StackFrom
  BY StackOrigin
<1>2. ASSUME NEW f \in FramesOn(stack'), f.op \in Refused PROVE FALSE
  <2>1. Known(f) \/ NewLoad(f)
    BY <1>1, <1>2 DEF StackFrom, Refused, LoadOps
  <2> QED  BY <1>2, <2>1 DEF Known, Unrefused, NewLoad, Refused
<1> QED  BY <1>2 DEF Unrefused

LEMMA ToldStep == ~Refusals /\ ToldInv /\ [Next]_vars => ToldInv'
<1> SUFFICES ASSUME ~Refusals, ToldInv, [Next]_vars PROVE ToldInv'
  OBVIOUS
<1>1. BaseInv'
  BY BaseStep DEF ToldInv
<1>2. CASE Next
  <2>1. ToldNext
    <3>1. CASE Network
      BY <3>1, NetworkTold
    <3>2. CASE RequestResource
      BY <3>2, RequestTold
    <3>3. CASE Returning /\ ~RequestResource
      BY <3>3, ReturnTold
    <3>4. CASE \E d \in Documents, u \in URLs, p \in Policies, b \in Preloads :
                  CheckForReload(d, u, p, b)
      BY <3>4, CheckTold
    <3>5. CASE \/ \E r \in Resources, c \in Clients : AddClient(r, c) \/ RemoveClient(r, c)
               \/ Prune \/ Flush
               \/ \E d \in Documents : ClearPreloads(d) \/ CancelRequests(d) \/ DestroyDocument(d)
      BY <3>5, OutsideTold
    <3> QED  BY <1>2, <3>1, <3>2, <3>3, <3>4, <3>5 DEF Next, Outside
  <2>2. Unrefused'
    BY <1>2, RefusedNone DEF ToldInv
  <2> QED  BY <1>1, <2>1, <2>2 DEF ToldInv, ToldNext
<1>3. CASE UNCHANGED vars
  <2>1. mem' = mem /\ stack' = stack /\ told' = told /\ stopped' = stopped
    BY <1>3 DEF vars
  <2> QED  BY <1>1, <2>1 DEF ToldInv, Unrefused
<1> QED  BY <1>2, <1>3

LEMMA ToldInit == Init => ToldInv
<1> SUFFICES ASSUME Init PROVE ToldInv
  OBVIOUS
<1>1. BaseInv /\ stack = <<>>
  BY BaseInit DEF Init
<1>2. FramesOn(stack) = {} /\ Unrefused /\ Bottom(stack)
  BY <1>1, NoFrames, FewBottom DEF Unrefused
<1>3. mem.loading = {}
      /\ \A r \in Resources : mem.revalidates[r] = None /\ mem.clients[r] = {}
  BY DEF Init
<1>4. Informed(mem, told, stopped, {})
  BY <1>3, NoneAssumption DEF Informed, Settled, Told
<1> QED  BY <1>1, <1>2, <1>4 DEF ToldInv

\* If no load is refused, then whenever the loads and calls under way are over, every
\* client of a resource that is not loading was told so, and one of a resource that is
\* loading has a request to wait for, unless that was cancelled: whatever clients do
\* while others are told, and also when a 304 hands them to another resource
\* (CachedResource::data, error, checkNotify, switchClientsToRevalidatedResource).
THEOREM EveryClientHears == ~Refusals => (Spec => []ClientsAreTold)
<1> SUFFICES ASSUME ~Refusals PROVE Spec => []ClientsAreTold
  OBVIOUS
<1>1. ToldInv => ClientsAreTold
  <2> SUFFICES ASSUME ToldInv, stack = <<>>, NEW r \in Resources
               PROVE  /\ mem.clients[r] \subseteq told[r] \/ r \in mem.loading
                      /\ mem.clients[r] # {} /\ r \in mem.loading =>
                            mem.request[r] # None \/ r \in stopped
    BY DEF ClientsAreTold
  <2>1. Informed(mem, told, stopped, {})
    BY NoFrames DEF ToldInv
  <2> QED  BY <2>1 DEF Informed, Settled, Told, Orphan
<1> QED  BY <1>1, ToldInit, ToldStep, PTL DEF Spec

=============================================================================
