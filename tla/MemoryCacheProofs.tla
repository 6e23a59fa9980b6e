-------------------------- MODULE MemoryCacheProofs --------------------------
(***************************************************************************)
(* Proofs about MemoryCache for any resources, documents and clients, with *)
(* refused, reloaded and cancelled loads: no resource is leaked.           *)
(***************************************************************************)
EXTENDS MemoryCache, SequenceTheorems, TLAPS

(***************************************************************************)
(* Nothing outside S leaks.                                                *)
(***************************************************************************)
NoLeak(m, S) ==
    \A r \in Resources \ S : m.life[r] = "alive" /\ CanDelete(m, r) => r \in m.inCache

SameReasons(m, n) ==
    /\ n.clients = m.clients /\ n.request = m.request
    /\ n.handle = m.handle /\ n.preloads = m.preloads
    /\ n.revalidates = m.revalidates /\ n.proxy = m.proxy

LEMMA SameCanDelete ==
    ASSUME NEW m, NEW n, SameReasons(m, n), NEW r
    PROVE  CanDelete(n, r) = CanDelete(m, r)
BY DEF SameReasons, CanDelete, Preloaded, HasHandles

(***************************************************************************)
(* The operations that delete.                                             *)
(***************************************************************************)
LEMMA DeleteEffect ==
    ASSUME NEW m \in Memory, NEW S
    PROVE  LET d == Delete(m, S)
           IN /\ d \in Memory
              /\ SameReasons(m, d)
              /\ d.inCache = m.inCache /\ d.map = m.map /\ d.at = m.at
              /\ d.life = [r \in Resources |-> IF r \in S THEN "deleted" ELSE m.life[r]]
BY DEF Delete, Memory, SameReasons

LEMMA DeleteIfPossibleEffect ==
    ASSUME NEW m \in Memory, NEW S, NEW T
    PROVE  LET d == DeleteIfPossible(m, S)
           IN /\ d \in Memory /\ SameReasons(m, d)
              /\ d.inCache = m.inCache /\ d.map = m.map /\ d.at = m.at
              /\ NoLeak(m, S \cup T) => NoLeak(d, T)
<1> DEFINE gone == {r \in S \ m.inCache : CanDelete(m, r)}
           d == Delete(m, gone)
<1>1. DeleteIfPossible(m, S) = d
  BY DEF DeleteIfPossible
<1>2. gone = {r \in S \ m.inCache : CanDelete(m, r)}
  OBVIOUS
<1> HIDE DEF gone
<1>3. /\ d \in Memory /\ SameReasons(m, d)
      /\ d.inCache = m.inCache /\ d.map = m.map /\ d.at = m.at
      /\ d.life = [r \in Resources |-> IF r \in gone THEN "deleted" ELSE m.life[r]]
  BY DeleteEffect
<1> HIDE DEF d
<1>4. ASSUME NoLeak(m, S \cup T), NEW r \in Resources \ T, d.life[r] = "alive", CanDelete(d, r)
      PROVE  r \in d.inCache
  <2>1. r \notin gone /\ m.life[r] = "alive" /\ CanDelete(m, r)
    BY <1>3, <1>4, SameCanDelete
  <2> QED  BY <1>2, <1>3, <1>4, <2>1 DEF NoLeak
<1> QED  BY <1>1, <1>3, <1>4 DEF NoLeak

LEMMA EvictEffect ==
    ASSUME NEW m \in Memory, NEW S, NEW T
    PROVE  LET d == Evict(m, S)
           IN /\ d \in Memory /\ SameReasons(m, d)
              /\ d.inCache = m.inCache \ S /\ d.at = m.at
              /\ NoLeak(m, T) => NoLeak(d, T)
<1> DEFINE out == S \cap m.inCache
           m1 == [m EXCEPT !.inCache = @ \ out,
                           !.map = [u \in URLs |-> IF \E r \in out : m.at[r] = u
                                                   THEN None ELSE @[u]]]
           gone == {r \in S : CanDelete(m1, r)}
           d == Delete(m1, gone)
<1>1. Evict(m, S) = d
  BY DEF Evict
<1>2. /\ m1 \in Memory /\ SameReasons(m, m1) /\ m1.inCache = m.inCache \ S
      /\ m1.life = m.life /\ m1.at = m.at
  BY DEF Memory, SameReasons
<1> HIDE DEF m1
<1>3. gone = {r \in S : CanDelete(m1, r)}
  OBVIOUS
<1> HIDE DEF gone
<1>4. /\ d \in Memory /\ SameReasons(m1, d) /\ d.inCache = m1.inCache /\ d.at = m1.at
      /\ d.life = [r \in Resources |-> IF r \in gone THEN "deleted" ELSE m1.life[r]]
  BY <1>2, DeleteEffect
<1> HIDE DEF d
<1>5. ASSUME NoLeak(m, T), NEW r \in Resources \ T, d.life[r] = "alive", CanDelete(d, r)
      PROVE  r \in d.inCache
  <2>1. r \notin gone /\ m.life[r] = "alive" /\ CanDelete(m, r) /\ CanDelete(m1, r)
    BY <1>2, <1>4, <1>5, SameCanDelete
  <2> QED  BY <1>2, <1>3, <1>4, <1>5, <2>1 DEF NoLeak
<1> QED  BY <1>1, <1>2, <1>4, <1>5 DEF NoLeak, SameReasons

(***************************************************************************)
(* The operations that take a reason to live away.                         *)
(***************************************************************************)
LEMMA EndRequestEffect ==
    ASSUME NEW m \in Memory, NEW r \in Resources, NoLeak(m, {})
    PROVE  EndRequest(m, r) \in Memory /\ NoLeak(EndRequest(m, r), {})
<1> DEFINE m1 == [m EXCEPT !.request[r] = None]
<1>1. m1 \in Memory
  BY DEF Memory
<1>2. NoLeak(m1, {r} \cup {})
  BY DEF Memory, NoLeak, CanDelete, Preloaded, HasHandles
<1> HIDE DEF m1
<1>3. DeleteIfPossible(m1, {r}) \in Memory /\ NoLeak(DeleteIfPossible(m1, {r}), {})
  BY <1>1, <1>2, DeleteIfPossibleEffect
<1> QED  BY <1>3 DEF EndRequest, m1

LEMMA SetHandleEffect ==
    ASSUME NEW m \in Memory, NEW d \in Documents, NEW u \in URLs, NEW r \in Resources,
           NoLeak(m, {})
    PROVE  SetHandle(m, d, u, r) \in Memory /\ NoLeak(SetHandle(m, d, u, r), {})
<1> DEFINE m1 == [m EXCEPT !.handle[d][u] = r]
           old == m.handle[d][u]
           S == {old} \ {None, r}
<1>1. m1 \in Memory
  BY DEF Memory
<1>2. /\ m1.life = m.life /\ m1.inCache = m.inCache /\ m1.clients = m.clients
      /\ m1.request = m.request /\ m1.preloads = m.preloads
      /\ m1.revalidates = m.revalidates /\ m1.proxy = m.proxy
      /\ m1.handle = [m.handle EXCEPT ![d][u] = r]
  BY DEF Memory
<1> HIDE DEF m1
<1>3. m.handle \in [Documents -> [URLs -> Resources \cup {None}]]
  BY DEF Memory
<1>4. ASSUME NEW x \in Resources \ S, HasHandles(m, x) PROVE HasHandles(m1, x)
  <2>1. PICK e \in Documents, v \in URLs : m.handle[e][v] = x
    BY <1>4 DEF HasHandles
  <2>2. CASE e = d /\ v = u
    <3>1. x = r
      BY <1>4, <2>1, <2>2, NoneAssumption
    <3>2. m1.handle[d][u] = r
      BY <1>2, <1>3
    <3> QED  BY <3>1, <3>2 DEF HasHandles
  <2>3. CASE ~(e = d /\ v = u)
    <3>1. m1.handle[e][v] = x
      BY <1>2, <1>3, <2>1, <2>3
    <3> QED  BY <3>1 DEF HasHandles
  <2> QED  BY <2>2, <2>3
<1>5. NoLeak(m1, S \cup {})
  BY <1>2, <1>4 DEF NoLeak, CanDelete, Preloaded
<1> HIDE DEF S
<1>6. DeleteIfPossible(m1, S) \in Memory /\ NoLeak(DeleteIfPossible(m1, S), {})
  BY <1>1, <1>5, DeleteIfPossibleEffect
<1> QED  BY <1>6 DEF SetHandle, m1, S

LEMMA ClearRevalidationEffect ==
    ASSUME NEW m \in Memory, NEW n \in Resources, NoLeak(m, {})
    PROVE  LET d == ClearRevalidation(m, n)
           IN /\ d \in Memory /\ NoLeak(d, {})
              /\ d.request = m.request /\ d.clients = m.clients
<1> DEFINE r == m.revalidates[n]
           a == [m EXCEPT !.proxy[r] = None]
           m1 == IF m.proxy[r] = n THEN DeleteIfPossible(a, {r}) ELSE m
           b == [m1 EXCEPT !.revalidates[n] = None]
<1>1. a \in Memory /\ a.request = m.request /\ a.clients = m.clients
  BY DEF Memory
<1>2. NoLeak(a, {r} \cup {})
  BY DEF Memory, NoLeak, CanDelete, Preloaded, HasHandles
<1> HIDE DEF a
<1>3. m1 \in Memory /\ NoLeak(m1, {}) /\ m1.request = m.request /\ m1.clients = m.clients
  BY <1>1, <1>2, DeleteIfPossibleEffect DEF SameReasons
<1> HIDE DEF m1
<1>4. b \in Memory /\ b.request = m.request /\ b.clients = m.clients
  BY <1>3 DEF Memory
<1>b. /\ b.life = m1.life /\ b.inCache = m1.inCache /\ b.clients = m1.clients
      /\ b.request = m1.request /\ b.handle = m1.handle /\ b.preloads = m1.preloads
      /\ b.proxy = m1.proxy
      /\ \A x \in Resources \ {n} : b.revalidates[x] = m1.revalidates[x]
  BY <1>3 DEF Memory
<1>5. NoLeak(b, {n} \cup {})
  <2> HIDE DEF b
  <2> QED  BY <1>3, <1>b DEF NoLeak, CanDelete, Preloaded, HasHandles
<1> HIDE DEF b
<1>6. LET d == DeleteIfPossible(b, {n})
      IN /\ d \in Memory /\ NoLeak(d, {})
         /\ d.request = m.request /\ d.clients = m.clients
  BY <1>4, <1>5, DeleteIfPossibleEffect DEF SameReasons
<1> QED  BY <1>6 DEF ClearRevalidation, a, m1, b

LEMMA RevalidationFailedEffect ==
    ASSUME NEW m \in Memory, NEW n \in Resources, NoLeak(m, {})
    PROVE  LET d == RevalidationFailed(m, n)
           IN /\ d \in Memory /\ NoLeak(d, {})
              /\ d.request = m.request /\ d.clients = m.clients
BY ClearRevalidationEffect DEF RevalidationFailed

LEMMA CreateEffect ==
    ASSUME NEW m \in Memory, NEW r \in Resources, NEW u \in URLs, NEW d \in Documents,
           NoLeak(m, {})
    PROVE  Create(m, r, u, d) \in Memory /\ NoLeak(Create(m, r, u, d), {})
<1>1. Create(m, r, u, d) \in Memory
  BY DEF Create, Memory
<1>2. NoLeak(Create(m, r, u, d), {})
  BY NoneAssumption DEF Create, Memory, NoLeak, CanDelete, Preloaded, HasHandles
<1> QED  BY <1>1, <1>2

LEMMA CreateValidatorEffect ==
    ASSUME NEW m \in Memory, NEW n \in Resources, NEW r \in Resources, NEW d \in Documents,
           NoLeak(m, {})
    PROVE  /\ CreateValidator(m, n, r, d) \in Memory
           /\ NoLeak(CreateValidator(m, n, r, d), {})
<1> DEFINE a == [m EXCEPT !.revalidates[n] = r, !.proxy[r] = n]
           b == Evict(a, {r})
           u == m.at[r]
           c == Create(b, n, u, d)
           e == [c EXCEPT !.map[u] = n]
<1>1. a \in Memory /\ u \in URLs
  BY DEF Memory
<1>2. NoLeak(a, {})
  BY NoneAssumption DEF Memory, NoLeak, CanDelete, Preloaded, HasHandles
<1> HIDE DEF a, u
<1>3. b \in Memory /\ NoLeak(b, {})
  BY <1>1, <1>2, EvictEffect
<1> HIDE DEF b
<1>4. c \in Memory /\ NoLeak(c, {})
  BY <1>1, <1>3, CreateEffect
<1> HIDE DEF c
<1>5. e \in Memory
  BY <1>1, <1>4 DEF Memory
<1>6. /\ e.life = c.life /\ e.inCache = c.inCache /\ SameReasons(c, e)
  BY <1>4 DEF Memory, SameReasons
<1>7. NoLeak(e, {})
  <2> HIDE DEF e
  <2> QED  BY <1>4, <1>6, SameCanDelete DEF NoLeak
<1> QED  BY <1>5, <1>7 DEF CreateValidator, a, b, c, e, u

LEMMA GiveEffect ==
    ASSUME NEW m \in Memory, NEW d \in Documents, NEW u \in URLs, NEW r \in Resources,
           NEW preload, NoLeak(m, {})
    PROVE  Give(m, d, u, r, preload) \in Memory /\ NoLeak(Give(m, d, u, r, preload), {})
<1> DEFINE m1 == SetHandle(m, d, u, r)
           e == [m1 EXCEPT !.preloads[d] = @ \cup {r}]
<1>1. m1 \in Memory /\ NoLeak(m1, {})
  BY SetHandleEffect
<1> HIDE DEF m1
<1>2. e \in Memory
  <2>1. [m1.preloads EXCEPT ![d] = @ \cup {r}] \in [Documents -> SUBSET Resources]
    BY <1>1 DEF Memory
  <2>2. e = [m1 EXCEPT !.preloads = [m1.preloads EXCEPT ![d] = @ \cup {r}]]
    OBVIOUS
  <2> HIDE DEF e
  <2> QED  BY <1>1, <2>1, <2>2 DEF Memory
<1>3. ASSUME NEW x \in Resources, Preloaded(m1, x) PROVE Preloaded(e, x)
  BY <1>1, <1>3 DEF Memory, Preloaded
<1>e. /\ e.life = m1.life /\ e.inCache = m1.inCache /\ e.clients = m1.clients
      /\ e.request = m1.request /\ e.handle = m1.handle
      /\ e.revalidates = m1.revalidates /\ e.proxy = m1.proxy
  BY <1>1 DEF Memory
<1>4. NoLeak(e, {})
  <2> HIDE DEF e
  <2> QED  BY <1>1, <1>3, <1>e DEF NoLeak, CanDelete, HasHandles
<1> QED  BY <1>1, <1>2, <1>4 DEF Give, m1

LEMMA WithoutPreloadsEffect ==
    ASSUME NEW m \in Memory, NEW d \in Documents, NoLeak(m, {})
    PROVE  /\ WithoutPreloads(m, d) \in Memory
           /\ NoLeak(WithoutPreloads(m, d), {})
           /\ WithoutPreloads(m, d).handle = m.handle
<1> DEFINE S == m.preloads[d]
           m1 == [m EXCEPT !.preloads[d] = {}]
           m2 == DeleteIfPossible(m1, S)
           G == {r \in S : m2.life[r] = "alive" /\ r \notin m.referenced}
<1>1. m1 \in Memory /\ m1.handle = m.handle
  BY DEF Memory
<1>2. ASSUME NEW x \in Resources \ S, Preloaded(m, x) PROVE Preloaded(m1, x)
  BY <1>2 DEF Memory, Preloaded
<1>3. NoLeak(m1, S \cup {})
  BY <1>2 DEF Memory, NoLeak, CanDelete, HasHandles
<1> HIDE DEF m1, S
<1>4. m2 \in Memory /\ NoLeak(m2, {}) /\ m2.handle = m.handle
  BY <1>1, <1>3, DeleteIfPossibleEffect DEF SameReasons
<1> HIDE DEF m2, G
<1>5. Evict(m2, G) \in Memory /\ NoLeak(Evict(m2, G), {}) /\ Evict(m2, G).handle = m.handle
  BY <1>4, EvictEffect DEF SameReasons
<1> QED  BY <1>5 DEF WithoutPreloads, S, m1, m2, G

(***************************************************************************)
(* The call stack. A load that was refused returns to the request that     *)
(* wanted it.                                                              *)
(***************************************************************************)
Frames == LoadFrame \cup RequestFrame \cup CancelFrame

Over(s) == \A i \in DOMAIN s : s[i].op = "refused" => i + 1 \in DOMAIN s /\ s[i + 1].op = "request"

LEMMA PushOver ==
    ASSUME NEW s \in Seq(Frames), Over(s), NEW f \in Frames,
           f.op = "refused" => s # <<>> /\ Head(s).op = "request"
    PROVE  /\ <<f>> \o s \in Seq(Frames) /\ Over(<<f>> \o s)
           /\ <<f>> \o s # <<>> /\ Head(<<f>> \o s) = f
<1> DEFINE t == <<f>> \o s
<1>0. <<f>> \in Seq(Frames) /\ Len(<<f>>) = 1 /\ <<f>>[1] = f
  OBVIOUS
<1>1. /\ t \in Seq(Frames) /\ Len(t) = 1 + Len(s)
      /\ \A i \in 1..(1 + Len(s)) : t[i] = IF i <= 1 THEN f ELSE s[i - 1]
  BY <1>0, ConcatProperties
<1>2. Len(s) \in Nat /\ DOMAIN s = 1..Len(s) /\ (s # <<>> => Len(s) # 0 /\ Head(s) = s[1])
  BY EmptySeq, HeadTailProperties
<1> HIDE DEF t
<1>3. DOMAIN t = 1..(1 + Len(s))
  BY <1>1
<1>4. t # <<>> /\ Head(t) = t[1] /\ t[1] = f
  BY <1>1, <1>2, EmptySeq, HeadTailProperties
<1>5. ASSUME NEW i \in DOMAIN t, t[i].op = "refused"
      PROVE  i + 1 \in DOMAIN t /\ t[i + 1].op = "request"
  <2>1. CASE i = 1
    <3>1. s # <<>> /\ s[1].op = "request" /\ 2 \in 1..(1 + Len(s))
      BY <1>2, <1>4, <1>5, <2>1
    <3> QED  BY <1>1, <1>3, <2>1, <3>1
  <2>2. CASE i # 1
    <3>1. i - 1 \in DOMAIN s /\ t[i] = s[i - 1] /\ i \in Nat
      BY <1>1, <1>2, <1>3, <2>2
    <3>2. (i - 1) + 1 \in DOMAIN s /\ s[(i - 1) + 1].op = "request"
      BY <1>5, <3>1 DEF Over
    <3>3. i \in 1..Len(s) /\ s[i].op = "request"
      BY <1>2, <3>1, <3>2
    <3>4. i + 1 \in 1..(1 + Len(s)) /\ ~(i + 1 <= 1) /\ (i + 1) - 1 = i
      BY <1>2, <3>3
    <3> QED  BY <1>1, <1>3, <3>3, <3>4
  <2> QED  BY <2>1, <2>2
<1> QED  BY <1>1, <1>4, <1>5 DEF t, Over

LEMMA PopOver ==
    ASSUME NEW s \in Seq(Frames), Over(s), s # <<>>
    PROVE  /\ Head(s) \in Frames /\ Tail(s) \in Seq(Frames) /\ Over(Tail(s))
           /\ Head(s).op = "refused" => Tail(s) # <<>> /\ Head(Tail(s)).op = "request"
<1> DEFINE t == Tail(s)
<1>1. /\ t \in Seq(Frames) /\ Head(s) = s[1]
      /\ Len(s) \in Nat \ {0} /\ Len(t) = Len(s) - 1
      /\ \A i \in 1..(Len(s) - 1) : t[i] = s[i + 1]
  BY EmptySeq, HeadTailProperties
<1> HIDE DEF t
<1>2. DOMAIN s = 1..Len(s) /\ DOMAIN t = 1..(Len(s) - 1) /\ s[1] \in Frames
  BY <1>1
<1>3. ASSUME NEW i \in DOMAIN t, t[i].op = "refused"
      PROVE  i + 1 \in DOMAIN t /\ t[i + 1].op = "request"
  <2>1. i + 1 \in DOMAIN s /\ s[i + 1] = t[i]
    BY <1>1, <1>2
  <2>2. (i + 1) + 1 \in DOMAIN s /\ s[(i + 1) + 1].op = "request"
    BY <1>3, <2>1 DEF Over
  <2>3. i + 1 \in 1..(Len(s) - 1)
    BY <1>1, <1>2, <2>2
  <2> QED  BY <1>1, <1>2, <2>2, <2>3
<1>4. ASSUME Head(s).op = "refused" PROVE t # <<>> /\ Head(t).op = "request"
  <2>1. 1 \in DOMAIN s
    BY <1>1, <1>2
  <2>2. 1 + 1 \in DOMAIN s /\ s[1 + 1].op = "request"
    BY <1>1, <1>4, <2>1 DEF Over
  <2>3. 1 \in 1..(Len(s) - 1) /\ t # <<>>
    BY <1>1, <1>2, <2>2, EmptySeq
  <2>4. Head(t) = t[1] /\ t[1] = s[1 + 1]
    BY <1>1, <2>3, HeadTailProperties
  <2> QED  BY <2>2, <2>3, <2>4
<1> QED  BY <1>1, <1>2, <1>3, <1>4 DEF t, Over

(***************************************************************************)
(* The inductive invariant.                                                *)
(***************************************************************************)
LeakInv == TypeOK /\ Over(stack) /\ NoLeak(mem, {})

LEMMA FrameKinds ==
    /\ \A f \in Frames : f.op \in LoadOps => f \in LoadFrame
    /\ \A f \in Frames : f.op = "request" => f \in RequestFrame
    /\ \A f \in Frames : f.op = "cancelAll" => f \in CancelFrame
BY DEF Frames, LoadFrame, RequestFrame, CancelFrame, LoadOps

\* What a function of a load finds on the top of the stack.
LEMMA TopFrame ==
    ASSUME TypeOK, Over(stack), stack # <<>>
    PROVE  /\ Top \in Frames
           /\ Top.op \in LoadOps => Top \in LoadFrame /\ Top.res \in Resources
           /\ Top.op = "request" => Top \in RequestFrame /\ Top.doc \in Documents /\ Top.url \in URLs
           /\ Top.op = "cancelAll" => Top \in CancelFrame
           /\ Below \in Seq(Frames) /\ Over(Below)
           /\ Top.op = "refused" =>
                 Below # <<>> /\ Head(Below).op = "request"
                 /\ Head(Below).doc \in Documents /\ Head(Below).url \in URLs
<1>1. stack \in Seq(Frames)
  BY DEF TypeOK, Frames
<1>2. /\ Top \in Frames /\ Below \in Seq(Frames) /\ Over(Below)
      /\ Top.op = "refused" => Below # <<>> /\ Head(Below).op = "request"
  BY <1>1, PopOver DEF Top, Below
<1>3. Below # <<>> => Head(Below) \in Frames
  BY <1>2, PopOver
<1> QED  BY <1>2, <1>3, FrameKinds DEF LoadFrame, RequestFrame

(***************************************************************************)
(* What steps do to the heap.                                              *)
(***************************************************************************)
Fine(m) == m \in Memory /\ NoLeak(m, {})

\* Fields that neither delete nor are a reason to live.
LEMMA Unrelated ==
    ASSUME NEW m, NEW n, Fine(m), n \in Memory, SameReasons(m, n), n.life = m.life,
           m.inCache \subseteq n.inCache
    PROVE  Fine(n)
<1>1. \A r \in Resources : CanDelete(n, r) = CanDelete(m, r)
  BY SameCanDelete
<1> QED  BY <1>1 DEF Fine, NoLeak

LEMMA RequestStep ==
    ASSUME LeakInv,
           \/ \E d \in Documents, u \in URLs, p \in Policies, preload \in Preloads :
                 CheckForReload(d, u, p, preload)
           \/ RequestResource
    PROVE  Fine(mem')
<1>0. mem \in Memory /\ Fine(mem) /\ TypeOK /\ Over(stack)
  BY DEF LeakInv, Fine, TypeOK
<1>1. ASSUME NEW d \in Documents, NEW u \in URLs, NEW p \in Policies, NEW preload \in Preloads,
             CheckForReload(d, u, p, preload)
      PROVE  Fine(mem')
  <2> DEFINE r == mem.map[u]
  <2>1. \/ mem' = mem
        \/ \E S : mem' = Evict(mem, S)
        \/ \E n \in Resources :
              /\ Checks(d, u)
              /\ LET m == CreateValidator(mem, n, r, d)
                 IN \/ mem' = [m EXCEPT !.loading = @ \cup {n}]
                    \/ mem' = [RevalidationFailed(m, n) EXCEPT !.error = @ \cup {n}]
    BY <1>1 DEF CheckForReload, Revalidate, Unused
  <2>2. ASSUME NEW S PROVE Fine(Evict(mem, S))
    BY <1>0, EvictEffect DEF Fine
  <2>3. ASSUME NEW n \in Resources, Checks(d, u)
        PROVE  LET m == CreateValidator(mem, n, r, d)
               IN /\ Fine([m EXCEPT !.loading = @ \cup {n}])
                  /\ Fine([RevalidationFailed(m, n) EXCEPT !.error = @ \cup {n}])
    <3> DEFINE m == CreateValidator(mem, n, r, d)
               f == RevalidationFailed(m, n)
               m1 == [m EXCEPT !.loading = @ \cup {n}]
               f1 == [f EXCEPT !.error = @ \cup {n}]
    <3>1. r \in Resources
      BY <1>0, <2>3 DEF Checks, Memory
    <3>2. Fine(m)
      BY <1>0, <3>1, CreateValidatorEffect DEF Fine
    <3> HIDE DEF m
    <3>3. Fine(f)
      BY <3>2, RevalidationFailedEffect DEF Fine
    <3> HIDE DEF f
    <3>4. m1 \in Memory /\ SameReasons(m, m1) /\ m1.life = m.life /\ m1.inCache = m.inCache
      BY <3>2 DEF Fine, Memory, SameReasons
    <3>5. f1 \in Memory /\ SameReasons(f, f1) /\ f1.life = f.life /\ f1.inCache = f.inCache
      BY <3>3 DEF Fine, Memory, SameReasons
    <3> HIDE DEF m1, f1
    <3>6. Fine(m1) /\ Fine(f1)
      BY <3>2, <3>3, <3>4, <3>5, Unrelated
    <3> QED  BY <3>6 DEF m1, f1, m, f
  <2> QED  BY <1>0, <2>1, <2>2, <2>3
<1>2. ASSUME RequestResource PROVE Fine(mem')
  <2> DEFINE d == Top.doc
             u == Top.url
             e == mem.map[u]
             stale == e # None /\ mem.response[e] = "noStore" /\ Top.policy # "history"
             m == IF stale THEN Evict(mem, {e}) ELSE mem
             r == m.map[u]
  <2>1. d \in Documents /\ u \in URLs
    BY <1>0, <1>2, TopFrame DEF RequestResource, Running
  <2>2. Fine(m)
    BY <1>0, EvictEffect DEF Fine
  <2>3. \/ mem' = m
        \/ r # None /\ mem' = Give(m, d, u, r, Top.preload)
        \/ \E n \in Unused :
              LET m1 == Create(m, n, u, d)
              IN \/ mem' = Give([m1 EXCEPT !.map[u] = n, !.loading = @ \cup {n}],
                                d, u, n, Top.preload)
                 \/ mem' = [m1 EXCEPT !.error = @ \cup {n}]
    BY <1>2 DEF RequestResource
  <2> HIDE DEF d, u, m
  <2>4. ASSUME r # None, mem' = Give(m, d, u, r, Top.preload) PROVE Fine(mem')
    <3>1. r \in Resources
      BY <2>1, <2>2, <2>4 DEF Fine, Memory
    <3> QED  BY <2>1, <2>2, <2>4, <3>1, GiveEffect DEF Fine
  <2>5. ASSUME NEW n \in Resources
        PROVE  LET m1 == Create(m, n, u, d)
               IN /\ Fine(Give([m1 EXCEPT !.map[u] = n, !.loading = @ \cup {n}],
                               d, u, n, Top.preload))
                  /\ Fine([m1 EXCEPT !.error = @ \cup {n}])
    <3> DEFINE m1 == Create(m, n, u, d)
               m2 == [m1 EXCEPT !.map[u] = n, !.loading = @ \cup {n}]
               m3 == [m1 EXCEPT !.error = @ \cup {n}]
    <3>1. Fine(m1)
      BY <2>1, <2>2, CreateEffect DEF Fine
    <3> HIDE DEF m1
    <3>2. m2 \in Memory /\ SameReasons(m1, m2) /\ m2.life = m1.life /\ m2.inCache = m1.inCache
      BY <2>1, <3>1 DEF Fine, Memory, SameReasons
    <3>3. m3 \in Memory /\ SameReasons(m1, m3) /\ m3.life = m1.life /\ m3.inCache = m1.inCache
      BY <3>1 DEF Fine, Memory, SameReasons
    <3> HIDE DEF m2, m3
    <3>4. Fine(m2) /\ Fine(m3)
      BY <3>1, <3>2, <3>3, Unrelated
    <3>5. Fine(Give(m2, d, u, n, Top.preload))
      BY <2>1, <3>4, GiveEffect DEF Fine
    <3> QED  BY <3>4, <3>5 DEF m1, m2, m3
  <2> QED  BY <2>2, <2>3, <2>4, <2>5 DEF Unused
<1> QED  BY <1>1, <1>2

\* What clients, documents and the embedder do.
LEMMA OutsideStep ==
    ASSUME LeakInv,
           \/ \E r \in Resources, c \in Clients : AddClient(r, c) \/ RemoveClient(r, c)
           \/ Prune \/ Flush
           \/ \E d \in Documents : d \in docs /\ (ClearPreloads(d) \/ CancelRequests(d) \/ DestroyDocument(d))
    PROVE  Fine(mem')
<1>0. mem \in Memory /\ Fine(mem) /\ NoLeak(mem, {})
  BY DEF LeakInv, Fine, TypeOK
<1>e. ASSUME NEW m, Fine(m), NEW S PROVE Fine(Evict(m, S))
  BY <1>e, EvictEffect DEF Fine
<1>1. ASSUME NEW r \in Resources, NEW c \in Clients, AddClient(r, c) PROVE Fine(mem')
  <2> DEFINE m == [mem EXCEPT !.clients[r] = @ \cup {c}, !.referenced = @ \cup {r}]
  <2>1. /\ m \in Memory /\ m.life = mem.life /\ m.inCache = mem.inCache
        /\ m.request = mem.request /\ m.handle = mem.handle /\ m.preloads = mem.preloads
        /\ m.revalidates = mem.revalidates /\ m.proxy = mem.proxy
        /\ \A x \in Resources : mem.clients[x] \subseteq m.clients[x]
    BY <1>0 DEF Memory
  <2> HIDE DEF m
  <2>2. NoLeak(m, {})
    BY <1>0, <2>1 DEF NoLeak, CanDelete, Preloaded, HasHandles
  <2> QED  BY <1>1, <2>1, <2>2 DEF AddClient, Fine, m
<1>2. ASSUME NEW r \in Resources, NEW c \in Clients, RemoveClient(r, c) PROVE Fine(mem')
  <2> DEFINE m == [mem EXCEPT !.clients[r] = @ \ {c}]
  <2>1. /\ m \in Memory /\ m.life = mem.life /\ m.inCache = mem.inCache
        /\ m.request = mem.request /\ m.handle = mem.handle /\ m.preloads = mem.preloads
        /\ m.revalidates = mem.revalidates /\ m.proxy = mem.proxy
        /\ \A x \in Resources \ {r} : mem.clients[x] = m.clients[x]
    BY <1>0 DEF Memory
  <2>2. \/ r \notin m.inCache /\ mem' = DeleteIfPossible(m, {r})
        \/ r \in m.inCache /\ (mem' = m \/ \E S : mem' = Evict(m, S))
    BY <1>2 DEF RemoveClient
  <2> HIDE DEF m
  <2>3. NoLeak(m, {r} \cup {})
    BY <1>0, <2>1 DEF NoLeak, CanDelete, Preloaded, HasHandles
  <2>4. r \in m.inCache => Fine(m)
    BY <2>1, <2>3 DEF NoLeak, Fine
  <2>5. Fine(DeleteIfPossible(m, {r}))
    BY <2>1, <2>3, DeleteIfPossibleEffect DEF Fine
  <2> QED  BY <1>e, <2>2, <2>4, <2>5
<1>3. ASSUME Prune \/ Flush PROVE Fine(mem')
  <2>1. \E S : mem' = Evict(mem, S)
    BY <1>3 DEF Prune, Flush
  <2> QED  BY <1>0, <1>e, <2>1
<1>4. ASSUME NEW d \in Documents, ClearPreloads(d) \/ CancelRequests(d) PROVE Fine(mem')
  BY <1>0, <1>4, WithoutPreloadsEffect DEF Fine, ClearPreloads, CancelRequests
<1>5. ASSUME NEW d \in Documents, DestroyDocument(d) PROVE Fine(mem')
  <2> DEFINE m == WithoutPreloads(mem, d)
             S == {m.handle[d][u] : u \in URLs} \ {None}
             a == [m EXCEPT !.handle[d] = [u \in URLs |-> None]]
  <2>1. mem' = DeleteIfPossible(a, S)
    BY <1>5 DEF DestroyDocument
  <2>2. Fine(m)
    BY <1>0, WithoutPreloadsEffect DEF Fine
  <2> HIDE DEF m
  <2>3. /\ a \in Memory /\ a.life = m.life /\ a.inCache = m.inCache
        /\ a.request = m.request /\ a.clients = m.clients /\ a.preloads = m.preloads
        /\ a.revalidates = m.revalidates /\ a.proxy = m.proxy
        /\ \A e \in Documents \ {d} : a.handle[e] = m.handle[e]
    BY <2>2 DEF Fine, Memory
  <2> HIDE DEF a
  <2>4. ASSUME NEW x \in Resources \ S, HasHandles(m, x) PROVE HasHandles(a, x)
    <3>1. PICK e \in Documents, u \in URLs : m.handle[e][u] = x
      BY <2>4 DEF HasHandles
    <3>2. e # d
      BY <2>4, <3>1, NoneAssumption
    <3> QED  BY <2>3, <3>1, <3>2 DEF HasHandles
  <2>5. NoLeak(a, S \cup {})
    BY <2>2, <2>3, <2>4 DEF Fine, NoLeak, CanDelete, Preloaded
  <2> HIDE DEF S
  <2> QED  BY <2>1, <2>3, <2>5, DeleteIfPossibleEffect DEF Fine
<1> QED  BY <1>1, <1>2, <1>3, <1>4, <1>5

\* What Loader does with the reports of a load.
LEMMA NetworkStep ==
    ASSUME LeakInv, Network
    PROVE  Fine(mem')
<1>0. mem \in Memory /\ Fine(mem) /\ NoLeak(mem, {})
  BY DEF LeakInv, Fine, TypeOK
<1>u. ASSUME NEW m, Fine(m), NEW n, n \in Memory, SameReasons(m, n), n.life = m.life,
             m.inCache = n.inCache
      PROVE  Fine(n)
  BY <1>u, Unrelated
<1>f. ASSUME NEW r \in Resources PROVE Fine(RevalidationFailed(mem, r))
  BY <1>0, RevalidationFailedEffect DEF Fine
\* The revalidated resource is cached; the other one has its request until it ends.
<1>1. ASSUME NEW n \in Resources, NEW answer \in Answers, NotModified(n, answer)
      PROVE  Fine(mem')
  <2> DEFINE r == mem.revalidates[n]
             u == mem.at[r]
             m == Evict(mem, {n})
             a == [m EXCEPT !.map[u] = r, !.inCache = @ \cup {r},
                           !.response[r] = answer,
                           !.handle = [d \in Documents |-> [v \in URLs |->
                                          IF @[d][v] = n THEN r ELSE @[d][v]]],
                           !.clients[r] = @ \cup m.clients[n], !.clients[n] = {},
                           !.referenced = @ \cup (IF m.clients[n] # {} THEN {r} ELSE {})]
  <2>1. mem' = a /\ r # None /\ mem.request[n] # None
    BY <1>1 DEF NotModified, Reports, InFlight
  <2>2. r \in Resources /\ u \in URLs
    BY <1>0, <2>1 DEF Memory
  <2>3. Fine(m) /\ m.request[n] # None
    BY <1>0, <2>1, EvictEffect DEF Fine, SameReasons
  <2> HIDE DEF m, r, u
  <2> DEFINE handles == [d \in Documents |-> [v \in URLs |->
                            IF m.handle[d][v] = n THEN r ELSE m.handle[d][v]]]
             a1 == [m EXCEPT !.map[u] = r, !.inCache = @ \cup {r}, !.response[r] = answer]
             a2 == [a1 EXCEPT !.handle = handles]
             a3 == [a2 EXCEPT !.clients[r] = @ \cup m.clients[n]]
             a4 == [a3 EXCEPT !.clients[n] = {}]
             a5 == [a4 EXCEPT !.referenced = @ \cup (IF m.clients[n] # {} THEN {r} ELSE {})]
  <2>a. /\ m.handle \in [Documents -> [URLs -> Resources \cup {None}]]
        /\ m.clients[n] \subseteq Clients /\ m \in Memory
    BY <2>3 DEF Fine, Memory
  <2>b. a = a5
    BY <2>a DEF Memory
  <2>c. /\ handles \in [Documents -> [URLs -> Resources \cup {None}]]
        /\ \A d \in Documents, v \in URLs :
              handles[d][v] = IF m.handle[d][v] = n THEN r ELSE m.handle[d][v]
    BY <2>2, <2>a
  <2> HIDE DEF a, handles
  <2>d. /\ a1 \in Memory /\ a1.life = m.life /\ a1.inCache = m.inCache \cup {r}
        /\ a1.request = m.request /\ a1.preloads = m.preloads
        /\ a1.revalidates = m.revalidates /\ a1.proxy = m.proxy /\ a1.clients = m.clients
    BY <2>2, <2>a DEF Memory
  <2> HIDE DEF a1
  <2>e. /\ a2 \in Memory /\ a2.life = a1.life /\ a2.inCache = a1.inCache
        /\ a2.request = a1.request /\ a2.preloads = a1.preloads
        /\ a2.revalidates = a1.revalidates /\ a2.proxy = a1.proxy
        /\ a2.clients = a1.clients /\ a2.handle = handles
    BY <2>c, <2>d DEF Memory
  <2> HIDE DEF a2
  <2>f. /\ a3 \in Memory /\ a3.life = a2.life /\ a3.inCache = a2.inCache
        /\ a3.request = a2.request /\ a3.preloads = a2.preloads
        /\ a3.revalidates = a2.revalidates /\ a3.proxy = a2.proxy
        /\ a3.handle = a2.handle
        /\ \A x \in Resources \ {r} : a3.clients[x] = a2.clients[x]
    BY <2>2, <2>a, <2>e DEF Memory
  <2> HIDE DEF a3
  <2>g. /\ a4 \in Memory /\ a4.life = a3.life /\ a4.inCache = a3.inCache
        /\ a4.request = a3.request /\ a4.preloads = a3.preloads
        /\ a4.revalidates = a3.revalidates /\ a4.proxy = a3.proxy
        /\ a4.handle = a3.handle
        /\ \A x \in Resources \ {n} : a4.clients[x] = a3.clients[x]
    BY <2>f DEF Memory
  <2> HIDE DEF a4
  <2>h. /\ a5 \in Memory /\ SameReasons(a4, a5) /\ a5.life = a4.life /\ a5.inCache = a4.inCache
    BY <2>2, <2>g DEF Memory, SameReasons
  <2> HIDE DEF a5
  <2>4. /\ a \in Memory /\ a.life = m.life /\ a.inCache = m.inCache \cup {r}
        /\ a.request = m.request /\ a.preloads = m.preloads
        /\ a.revalidates = m.revalidates /\ a.proxy = m.proxy
        /\ a.handle = handles
        /\ \A x \in Resources \ {r, n} : a.clients[x] = m.clients[x]
    BY <2>b, <2>d, <2>e, <2>f, <2>g, <2>h DEF SameReasons
  <2>5. \A x \in Resources \ {r, n} : HasHandles(m, x) => HasHandles(a, x)
    BY <2>4, <2>c DEF HasHandles
  <2>6. NoLeak(a, {})
    BY <2>3, <2>4, <2>5 DEF Fine, NoLeak, CanDelete, Preloaded
  <2> QED  BY <2>1, <2>4, <2>6 DEF Fine
<1>2. ASSUME NEW r \in Resources, NEW answer \in Answers, DidReceiveResponse(r, answer)
      PROVE  Fine(mem')
  <2> DEFINE m == RevalidationFailed(mem, r)
             a == [m EXCEPT !.response[r] = answer]
  <2>1. mem' = a
    BY <1>2 DEF DidReceiveResponse
  <2>2. Fine(m)
    BY <1>f
  <2> HIDE DEF m
  <2>3. a \in Memory /\ SameReasons(m, a) /\ a.life = m.life /\ a.inCache = m.inCache
    BY <2>2 DEF Fine, Memory, SameReasons
  <2> QED  BY <1>u, <2>1, <2>2, <2>3
<1>3. ASSUME NEW r \in Resources, NEW m \in {mem, RevalidationFailed(mem, r)},
             mem' = [m EXCEPT !.error = @ \cup {r}, !.loading = @ \ {r}]
      PROVE  Fine(mem')
  <2>1. Fine(m)
    BY <1>0, <1>f
  <2>2. mem' \in Memory /\ SameReasons(m, mem') /\ mem'.life = m.life /\ mem'.inCache = m.inCache
    BY <1>3, <2>1 DEF Fine, Memory, SameReasons
  <2> QED  BY <1>u, <2>1, <2>2
<1>4. ASSUME NEW r \in Resources, DidFinishLoading(r) PROVE Fine(mem')
  <2>1. ASSUME mem' = EndRequest(mem, r) PROVE Fine(mem')
    BY <1>0, <2>1, EndRequestEffect DEF Fine
  <2>2. ASSUME \/ mem' = [mem EXCEPT !.loading = @ \ {r}]
               \/ mem' = [mem EXCEPT !.loading = @ \ {r}, !.error = @ \cup {r}]
        PROVE  Fine(mem')
    <3>1. CASE mem' = [mem EXCEPT !.loading = @ \ {r}]
      <4>1. /\ mem' \in Memory /\ SameReasons(mem, mem')
            /\ mem'.life = mem.life /\ mem'.inCache = mem.inCache
        BY <1>0, <3>1 DEF Memory, SameReasons
      <4> QED  BY <1>0, <1>u, <4>1
    <3>2. CASE mem' = [mem EXCEPT !.loading = @ \ {r}, !.error = @ \cup {r}]
      <4>1. /\ mem' \in Memory /\ SameReasons(mem, mem')
            /\ mem'.life = mem.life /\ mem'.inCache = mem.inCache
        BY <1>0, <3>2 DEF Memory, SameReasons
      <4> QED  BY <1>0, <1>u, <4>1
    <3> QED  BY <2>2, <3>1, <3>2
  <2> QED  BY <1>4, <2>1, <2>2 DEF DidFinishLoading
<1> QED
  BY <1>1, <1>2, <1>3, <1>4 DEF Network, DidReceiveData, DidFail

\* What functions do when the calls they made have returned.
LEMMA ReturnStep ==
    ASSUME LeakInv, Returning, ~RequestResource
    PROVE  Fine(mem')
<1>0. /\ mem \in Memory /\ Fine(mem) /\ NoLeak(mem, {}) /\ TypeOK /\ Over(stack)
  BY DEF LeakInv, Fine, TypeOK
<1>e. ASSUME NEW m, Fine(m), NEW S PROVE Fine(Evict(m, S))
  BY <1>e, EvictEffect DEF Fine
<1>r. ASSUME NEW m, Fine(m), NEW r \in Resources PROVE Fine(EndRequest(m, r))
  BY <1>r, EndRequestEffect DEF Fine
<1>1. ASSUME \/ CancelReturn \/ LoadDone \/ DataErrorReturn
             \/ \E c \in Clients : Tell(c)
      PROVE  Fine(mem')
  BY <1>0, <1>1 DEF CancelReturn, LoadDone, DataErrorReturn, Tell, Ends
<1>2. ASSUME NEW r \in Resources, CancelOne(r) PROVE Fine(mem')
  <2>1. mem' = mem \/ mem' = RevalidationFailed(mem, r)
    BY <1>2 DEF CancelOne
  <2> QED  BY <1>0, <2>1, RevalidationFailedEffect DEF Fine
<1>3. ASSUME stack # <<>>, Top.op \in LoadOps PROVE Top.res \in Resources
  BY <1>0, <1>3, TopFrame
<1>4. ASSUME FinishReturn \/ DecodeErrorReturn \/ FailReturn \/ CancelledReturn
             \/ SwitchReturn \/ RefusedReturn
      PROVE  Fine(mem')
  <2>1. Top.res \in Resources
    BY <1>3, <1>4 DEF FinishReturn, DecodeErrorReturn, FailReturn, CancelledReturn,
       SwitchReturn, RefusedReturn, Ends, Running, LoadOps
  <2>2. \/ mem' = EndRequest(mem, Top.res)
        \/ mem' = EndRequest(Evict(mem, {Top.res}), Top.res)
        \/ mem' = Evict(mem, {Top.res})
        \/ mem' = mem
    BY <1>4 DEF FinishReturn, DecodeErrorReturn, FailReturn, CancelledReturn,
       SwitchReturn, RefusedReturn, Ends
  <2> QED  BY <1>0, <1>e, <1>r, <2>1, <2>2
<1>5. ASSUME Switch PROVE Fine(mem')
  <2>1. Top.res \in Resources /\ mem' = ClearRevalidation(mem, Top.res)
    BY <1>3, <1>5 DEF Switch, Ends, Running, LoadOps
  <2> QED  BY <1>0, <2>1, ClearRevalidationEffect DEF Fine
<1>6. ASSUME LoadReturn PROVE Fine(mem')
  <2>1. ASSUME RevalidateReturn PROVE Fine(mem')
    <3>1. Top.res \in Resources /\ mem' = [mem EXCEPT !.loading = @ \cup {Top.res}]
      BY <1>3, <2>1 DEF RevalidateReturn, Running, LoadOps
    <3>2. /\ mem' \in Memory /\ SameReasons(mem, mem')
          /\ mem'.life = mem.life /\ mem'.inCache = mem.inCache
      BY <1>0, <3>1 DEF Memory, SameReasons
    <3> QED  BY <1>0, <3>2, Unrelated
  <2>2. ASSUME mem' = Delete([mem EXCEPT !.inCache = @ \ {Top.res}], {Top.res})
        PROVE  Fine(mem')
    <3> DEFINE x == Top.res
               a == [mem EXCEPT !.inCache = @ \ {x}]
    <3>1. /\ a \in Memory /\ SameReasons(mem, a)
          /\ a.life = mem.life /\ a.inCache = mem.inCache \ {x}
      BY <1>0 DEF Memory, SameReasons
    <3> HIDE DEF a
    <3>2. /\ Delete(a, {x}) \in Memory /\ SameReasons(a, Delete(a, {x}))
          /\ Delete(a, {x}).inCache = a.inCache
          /\ Delete(a, {x}).life = [y \in Resources |-> IF y \in {x} THEN "deleted" ELSE a.life[y]]
      BY <3>1, DeleteEffect
    <3> DEFINE b == Delete(a, {x})
    <3>3. \A y \in Resources : CanDelete(b, y) => CanDelete(mem, y)
      BY <3>1, <3>2, SameCanDelete
    <3> HIDE DEF b
    <3>4. NoLeak(Delete(a, {x}), {})
      BY <1>0, <3>1, <3>2, <3>3 DEF NoLeak, b
    <3> QED  BY <2>2, <3>2, <3>4 DEF Fine, a
  <2> QED  BY <1>6, <2>1, <2>2 DEF LoadReturn, Ends
<1> QED  BY <1>1, <1>2, <1>4, <1>5, <1>6 DEF Returning

(***************************************************************************)
(* What steps do to the stack.                                             *)
(***************************************************************************)
FineStack(s) == s \in Seq(Frames) /\ Over(s)

LEMMA NewFrames ==
    /\ \A op \in LoadOps, r \in Resources, left \in SUBSET Clients :
          Load(op, r, left) \in Frames /\ Load(op, r, left).op = op
    /\ \A d \in Documents, u \in URLs, p \in Policies, b \in Preloads :
          [op |-> "request", doc |-> d, url |-> u, policy |-> p, preload |-> b] \in Frames
    /\ \A S \in SUBSET Resources : [op |-> "cancelAll", left |-> S] \in Frames
BY DEF Load, Frames, LoadFrame, RequestFrame, CancelFrame

\* Frames that no refused load pushed.
LEMMA FirstFrames ==
    ASSUME NEW f \in Frames, NEW g \in Frames, f.op # "refused", g.op # "refused"
    PROVE  FineStack(<<f>>) /\ FineStack(<<f, g>>)
BY DEF FineStack, Over

LEMMA PushFine ==
    ASSUME NEW s, FineStack(s), NEW f \in Frames,
           f.op = "refused" => s # <<>> /\ Head(s).op = "request"
    PROVE  FineStack(<<f>> \o s) /\ <<f>> \o s # <<>> /\ Head(<<f>> \o s) = f
BY PushOver DEF FineStack

LEMMA StackStep ==
    ASSUME LeakInv, Next
    PROVE  FineStack(stack')
<1>0. TypeOK /\ FineStack(stack) /\ mem \in Memory /\ docs \subseteq Documents
  BY DEF LeakInv, FineStack, TypeOK, Frames
<1>t. ASSUME stack # <<>>
      PROVE  /\ Top \in Frames /\ FineStack(Below)
             /\ Top.op \in LoadOps => Top \in LoadFrame
             /\ Top.op = "refused" => Below # <<>> /\ Head(Below).op = "request"
  BY <1>0, <1>t, TopFrame DEF FineStack
\* The function on top goes on.
<1>s. ASSUME stack # <<>>, Top.op \in LoadOps, NEW f \in Frames, f.op = Top.op,
             stack' = <<f>> \o Below
      PROVE  FineStack(stack')
  BY <1>s, <1>t, PushFine
<1>1. ASSUME NEW d \in Documents, NEW u \in URLs, NEW p \in Policies, NEW preload \in Preloads,
             CheckForReload(d, u, p, preload)
      PROVE  FineStack(stack')
  <2> DEFINE f == [op |-> "request", doc |-> d, url |-> u, policy |-> p, preload |-> preload]
             rest == <<f>> \o stack
  <2>1. stack' = rest \/ \E n \in Resources : stack' = <<Load("refused", n, {})>> \o rest
    BY <1>1 DEF CheckForReload, Revalidate, Unused
  <2>2. f \in Frames /\ f.op = "request"
    BY NewFrames
  <2> HIDE DEF f
  <2>3. FineStack(rest) /\ rest # <<>> /\ Head(rest).op = "request"
    BY <1>0, <2>2, PushFine
  <2> HIDE DEF rest
  <2>4. ASSUME NEW n \in Resources PROVE FineStack(<<Load("refused", n, {})>> \o rest)
    <3>1. Load("refused", n, {}) \in Frames
      BY NewFrames DEF LoadOps
    <3> QED  BY <2>3, <3>1, PushFine
  <2> QED  BY <2>1, <2>3, <2>4
<1>2. ASSUME NEW d \in Documents, CancelRequests(d) PROVE FineStack(stack')
  <2>1. PICK S \in SUBSET Resources : stack' = <<[op |-> "cancelAll", left |-> S]>> \o stack
    BY <1>2 DEF CancelRequests
  <2> QED  BY <1>0, <2>1, NewFrames, PushFine
<1>3. ASSUME \/ \E r \in Resources, c \in Clients : AddClient(r, c) \/ RemoveClient(r, c)
             \/ Prune \/ Flush
             \/ \E d \in Documents : ClearPreloads(d) \/ DestroyDocument(d)
             \/ \E r \in Resources, answer \in Answers : DidReceiveResponse(r, answer)
      PROVE  FineStack(stack')
  <2>1. stack' = stack
    BY <1>3 DEF AddClient, RemoveClient, Prune, Flush, ClearPreloads, DestroyDocument,
       DidReceiveResponse
  <2> QED  BY <1>0, <2>1
<1>4. ASSUME NEW r \in Resources,
             \/ \E answer \in Answers : NotModified(r, answer)
             \/ DidReceiveData(r) \/ DidFinishLoading(r) \/ DidFail(r)
      PROVE  FineStack(stack')
  <2>1. mem.clients[r] \subseteq Clients
    BY <1>0 DEF Memory
  <2>2. ASSUME NEW op \in LoadOps \ {"refused"}, NEW S \in SUBSET Clients
        PROVE  /\ FineStack(<<Load(op, r, S)>>)
               /\ FineStack(<<Load(op, r, S), Load("finish", r, {})>>)
    <3>1. /\ Load(op, r, S) \in Frames /\ Load(op, r, S).op # "refused"
          /\ Load("finish", r, {}) \in Frames /\ Load("finish", r, {}).op # "refused"
      BY NewFrames DEF LoadOps
    <3> QED  BY <3>1, FirstFrames
  <2>3. \/ stack' = stack
        \/ \E op \in LoadOps \ {"refused"} :
              \/ stack' = <<Load(op, r, mem.clients[r])>>
              \/ stack' = <<Load(op, r, mem.clients[r]), Load("finish", r, {})>>
    BY <1>4 DEF NotModified, Switched, DidReceiveData, DidFinishLoading, DidFail, LoadOps
  <2> QED  BY <1>0, <2>1, <2>2, <2>3
<1>5. ASSUME RequestResource PROVE FineStack(stack')
  <2>1. /\ stack # <<>>
        /\ stack' = Below \/ \E n \in Resources : stack' = <<Load("refusedNew", n, {})>> \o Below
    BY <1>5 DEF RequestResource, Running, Unused
  <2>2. ASSUME NEW n \in Resources PROVE FineStack(<<Load("refusedNew", n, {})>> \o Below)
    <3>1. Load("refusedNew", n, {}) \in Frames /\ Load("refusedNew", n, {}).op # "refused"
      BY NewFrames DEF LoadOps
    <3> QED  BY <1>t, <2>1, <3>1, PushFine
  <2> QED  BY <1>t, <2>1, <2>2
<1>6. ASSUME NEW r \in Resources, CancelOne(r) PROVE FineStack(stack')
  <2> DEFINE f == [Top EXCEPT !.left = @ \ {r}]
             rest == <<f>> \o Below
             g == Load("cancelled", r, {})
  <2>1. stack # <<>> /\ Top.op = "cancelAll" /\ (stack' = rest \/ stack' = <<g>> \o rest)
    BY <1>6 DEF CancelOne, Running
  <2>2. f \in Frames /\ f.op = "cancelAll"
    BY <1>0, <2>1, TopFrame DEF FineStack, CancelFrame, Frames
  <2>3. g \in Frames /\ g.op = "cancelled"
    BY NewFrames DEF LoadOps
  <2> HIDE DEF f, g
  <2>4. FineStack(rest)
    BY <1>t, <2>1, <2>2, PushFine
  <2> HIDE DEF rest
  <2> QED  BY <2>1, <2>3, <2>4, PushFine
<1>7. ASSUME NEW c \in Clients, Tell(c) PROVE FineStack(stack')
  <2>1. /\ stack # <<>> /\ Top.op \in LoadOps
        /\ \E stage \in {"client", "walk"} :
              stack' = <<[Top EXCEPT !.left = @ \ {c}, !.stage = stage]>> \o Below
    BY <1>7 DEF Tell, Walking
  <2>2. ASSUME NEW stage \in {"client", "walk"}
        PROVE  LET f == [Top EXCEPT !.left = @ \ {c}, !.stage = stage]
               IN f \in Frames /\ f.op = Top.op
    BY <1>t, <2>1 DEF LoadFrame, Frames
  <2> QED  BY <1>s, <2>1, <2>2
<1>8. ASSUME LoadDone \/ Switch \/ RefusedReturn PROVE FineStack(stack')
  <2>1. /\ stack # <<>> /\ Top.op \in LoadOps
        /\ \E stage \in {"loadDone", "return"} :
              stack' = <<[Top EXCEPT !.stage = stage]>> \o Below
    BY <1>8 DEF LoadDone, Walking, Switch, RefusedReturn, Ends, Running, LoadOps
  <2>2. ASSUME NEW stage \in {"loadDone", "return"}
        PROVE  LET f == [Top EXCEPT !.stage = stage]
               IN f \in Frames /\ f.op = Top.op
    BY <1>t, <2>1 DEF LoadFrame, Frames
  <2> QED  BY <1>s, <2>1, <2>2
<1>9. ASSUME \/ CancelReturn \/ FinishReturn \/ DataErrorReturn \/ DecodeErrorReturn
             \/ FailReturn \/ CancelledReturn \/ SwitchReturn \/ LoadReturn
      PROVE  FineStack(stack')
  <2>1. stack # <<>> /\ stack' = Below
    BY <1>9 DEF CancelReturn, FinishReturn, DataErrorReturn, DecodeErrorReturn, FailReturn,
       CancelledReturn, SwitchReturn, LoadReturn, RevalidateReturn, Ends, Running
  <2> QED  BY <1>t, <2>1
<1> QED
  BY <1>1, <1>2, <1>3, <1>4, <1>5, <1>6, <1>7, <1>8, <1>9
  DEF Next, Outside, Network, Returning

(***************************************************************************)
(* The other variables.                                                    *)
(***************************************************************************)
LEMMA OthersStep ==
    ASSUME LeakInv, Next
    PROVE  /\ docs' \subseteq Documents
           /\ reloaded' \subseteq Documents \X URLs
           /\ told' \in [Resources -> SUBSET Clients]
           /\ stopped' \subseteq Resources
<1>0. /\ docs \subseteq Documents /\ reloaded \subseteq Documents \X URLs
      /\ told \in [Resources -> SUBSET Clients] /\ stopped \subseteq Resources
      /\ TypeOK /\ Over(stack)
  BY DEF LeakInv, TypeOK
<1>1. CASE Outside
  <2>a. \A d, u, p, b : CheckForReload(d, u, p, b) => UNCHANGED <<docs, told, stopped>>
    BY DEF CheckForReload
  <2>b. \A r, c : /\ AddClient(r, c) \/ RemoveClient(r, c) => UNCHANGED <<docs, stopped>>
                  /\ AddClient(r, c) => told' = told \/ told' = [told EXCEPT ![r] = @ \cup {c}]
                  /\ RemoveClient(r, c) => told' = [told EXCEPT ![r] = @ \ {c}]
    BY DEF AddClient, RemoveClient
  <2>c. \A d : /\ ClearPreloads(d) \/ CancelRequests(d) => UNCHANGED <<docs, told, stopped>>
               /\ DestroyDocument(d) => docs' = docs \ {d} /\ UNCHANGED <<told, stopped>>
    BY DEF ClearPreloads, CancelRequests, DestroyDocument
  <2>d. Prune \/ Flush => UNCHANGED <<docs, told, stopped>>
    BY DEF Prune, Flush
  <2>1. docs' \subseteq docs /\ stopped' = stopped
    BY <1>1, <2>a, <2>b, <2>c, <2>d DEF Outside
  <2>2. \/ told' = told
        \/ \E r \in Resources, c \in Clients :
              \/ told' = [told EXCEPT ![r] = @ \cup {c}]
              \/ told' = [told EXCEPT ![r] = @ \ {c}]
    BY <1>1, <2>a, <2>b, <2>c, <2>d DEF Outside
  <2>3. reloaded' = reloaded \/ \E d \in Documents, u \in URLs : reloaded' = Remember(d, u)
    <3>1. ASSUME NEW d \in Documents, NEW u \in URLs, NEW p \in Policies, NEW b \in Preloads,
                 CheckForReload(d, u, p, b)
          PROVE  reloaded' = reloaded \/ reloaded' = Remember(d, u)
      <4> DEFINE rest == <<[op |-> "request", doc |-> d, url |-> u, policy |-> p,
                            preload |-> b]>> \o stack
      <4>1. ASSUME Revalidate(d, u, p, rest)
            PROVE  reloaded' = reloaded \/ reloaded' = Remember(d, u)
        <5> HIDE DEF rest
        <5> QED  BY <4>1 DEF Revalidate
      <4>2. reloaded' = reloaded \/ reloaded' = Remember(d, u) \/ Revalidate(d, u, p, rest)
        BY <3>1 DEF CheckForReload
      <4> QED  BY <4>1, <4>2
    <3>2. ASSUME ~\E d \in Documents, u \in URLs, p \in Policies, b \in Preloads :
                      CheckForReload(d, u, p, b)
          PROVE  reloaded' = reloaded
      BY <1>1, <3>2 DEF Outside, AddClient, RemoveClient, Prune, Flush, ClearPreloads,
         CancelRequests, DestroyDocument
    <3> QED  BY <3>1, <3>2
  <2> QED  BY <1>0, <2>1, <2>2, <2>3 DEF Remember
<1>2. CASE Network
  <2>1. UNCHANGED <<docs, reloaded, stopped>>
        /\ (told' = told \/ \E n \in Resources : told' = [told EXCEPT ![n] = {}])
    BY <1>2 DEF Network, NotModified, DidReceiveResponse, DidReceiveData, DidFinishLoading,
       DidFail
  <2> QED  BY <1>0, <2>1
<1>3. CASE Returning
  <2>1. ASSUME RevalidateReturn PROVE reloaded' \subseteq Documents \X URLs
    <3>1. Head(Below).doc \in Documents /\ Head(Below).url \in URLs
      BY <1>0, <2>1, TopFrame DEF RevalidateReturn, Running
    <3> QED  BY <1>0, <2>1, <3>1 DEF RevalidateReturn, Remember
  <2>2. reloaded' \subseteq Documents \X URLs
    BY <1>0, <1>3, <2>1 DEF Returning, RequestResource, CancelOne, CancelReturn, Tell, LoadDone,
       FinishReturn, DataErrorReturn, DecodeErrorReturn, FailReturn, CancelledReturn, Switch,
       SwitchReturn, RefusedReturn, LoadReturn, Ends
  <2>3. docs' = docs /\ \/ stopped' = stopped
                        \/ \E r \in Resources : stopped' = stopped \cup {r}
    BY <1>3 DEF Returning, RequestResource, CancelOne, CancelReturn, Tell, LoadDone,
       FinishReturn, DataErrorReturn, DecodeErrorReturn, FailReturn, CancelledReturn, Switch,
       SwitchReturn, RefusedReturn, LoadReturn, RevalidateReturn, Ends
  <2>4. told' = told \/ \E q : \E c \in Clients : told' = [told EXCEPT ![q] = @ \cup {c}]
    BY <1>3 DEF Returning, RequestResource, CancelOne, CancelReturn, Tell, LoadDone,
       FinishReturn, DataErrorReturn, DecodeErrorReturn, FailReturn, CancelledReturn, Switch,
       SwitchReturn, RefusedReturn, LoadReturn, RevalidateReturn, Ends
  <2> QED  BY <1>0, <2>2, <2>3, <2>4
<1> QED  BY <1>1, <1>2, <1>3 DEF Next

(***************************************************************************)
(* Theorems.                                                               *)
(***************************************************************************)
LEMMA LeakStep == LeakInv /\ [Next]_vars => LeakInv'
<1> SUFFICES ASSUME LeakInv, [Next]_vars PROVE LeakInv'
  OBVIOUS
<1>1. CASE Next
  <2>1. Fine(mem')
    <3>1. CASE Outside
      <4>1. \A d : ClearPreloads(d) \/ CancelRequests(d) \/ DestroyDocument(d) => d \in docs
        BY DEF ClearPreloads, CancelRequests, DestroyDocument
      <4> QED  BY <3>1, <4>1, RequestStep, OutsideStep DEF Outside
    <3>2. CASE Returning
      BY <3>2, RequestStep, ReturnStep
    <3> QED  BY <1>1, <3>1, <3>2, NetworkStep DEF Next
  <2>2. TypeOK'
    BY <1>1, <2>1, StackStep, OthersStep DEF TypeOK, Fine, FineStack, Frames
  <2> QED  BY <1>1, <2>1, <2>2, StackStep DEF LeakInv, Fine, FineStack
<1>2. CASE UNCHANGED vars
  BY <1>2 DEF vars, LeakInv, TypeOK
<1> QED  BY <1>1, <1>2

LEMMA LeakInit == Init => LeakInv
<1> SUFFICES ASSUME Init PROVE LeakInv
  OBVIOUS
<1>1. (CHOOSE u \in URLs : TRUE) \in URLs
  BY URLsAssumption
<1> DEFINE first == CHOOSE u \in URLs : TRUE
<1>2. mem \in Memory /\ NoLeak(mem, {})
  <2> HIDE DEF first
  <2>1. mem = [map |-> [u \in URLs |-> None],
               life |-> [r \in Resources |-> "unused"],
               at |-> [r \in Resources |-> first],
               inCache |-> {}, loading |-> {}, error |-> {},
               response |-> [r \in Resources |-> "none"],
               clients |-> [r \in Resources |-> {}],
               referenced |-> {},
               request |-> [r \in Resources |-> None],
               revalidates |-> [r \in Resources |-> None],
               proxy |-> [r \in Resources |-> None],
               handle |-> [d \in Documents |-> [u \in URLs |-> None]],
               preloads |-> [d \in Documents |-> {}]]
    BY DEF Init, first
  <2>2. first \in URLs
    BY <1>1 DEF first
  <2>3. mem \in Memory
    BY <2>1, <2>2 DEF Memory
  <2>4. NoLeak(mem, {})
    BY <2>1 DEF NoLeak
  <2> QED  BY <2>3, <2>4
<1>3. stack = <<>> /\ docs = Documents /\ reloaded = {} /\ stopped = {}
      /\ told = [r \in Resources |-> {}]
  BY DEF Init
<1>4. TypeOK
  BY <1>2, <1>3 DEF TypeOK
<1>5. Over(stack)
  BY <1>3 DEF Over
<1> QED  BY <1>2, <1>4, <1>5 DEF LeakInv

\* The type invariant, in particular that a load that was refused returns to the
\* request that wanted it.
THEOREM CacheTypeCorrect == Spec => []TypeOK
<1>1. LeakInv => TypeOK
  BY DEF LeakInv
<1> QED  BY <1>1, LeakInit, LeakStep, PTL DEF Spec

\* A resource is deleted by hand wherever a reason to keep it goes: whatever the
\* policies, and however loads are refused, stopped and revalidated, none is left that
\* nothing needs and that is not cached.
THEOREM NoResourceLeaks == Spec => []NothingLeaks
<1>1. LeakInv => NothingLeaks
  BY DEF LeakInv, NoLeak, NothingLeaks
<1> QED  BY <1>1, LeakInit, LeakStep, PTL DEF Spec

=============================================================================
