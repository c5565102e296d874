---------------------------- MODULE KdnSyncProofs ----------------------------
(***************************************************************************)
(* Proofs about KdnSync, for any number of KDN servers and blocks.         *)
(***************************************************************************)
EXTENDS KdnSync, SequenceTheorems, TLAPS

(* The blocks of the KDNs, the pool and the KDN of the running refresh     *)
(* have their types.                                                       *)
Typed ==
  /\ store \in [Kdn -> [Kid -> Nat]]
  /\ pool \in Seq(Kdn)
  /\ pc \in {"meta", "items"} => chosen \in Kdn

(* Outside a refresh the table and the remembered signatures speak of the  *)
(* same blocks.  While the items are fetched they differ by what the       *)
(* refresh is about to upsert and to delete, and the KDN still holds all   *)
(* it is asked for.                                                        *)
Mirrored ==
  IF pc = "items"
  THEN /\ need \subseteq Known(metaCache) /\ need \subseteq Known(store[chosen])
       /\ removed \cap Known(metaCache) = {}
       /\ Known(metaCache) \ need \subseteq Known(table)
       /\ Known(table) \subseteq Known(metaCache) \cup removed
  ELSE Known(table) = Known(metaCache)

MirrorInv == Typed /\ Mirrored

(* A KDN that unregisters leaves a pool of KDNs.                           *)
LEMMA RemovalTyped ==
  ASSUME NEW q \in Seq(Kdn), NEW i \in DOMAIN q
  PROVE  SubSeq(q, 1, i - 1) \o SubSeq(q, i + 1, Len(q)) \in Seq(Kdn)
<1>1. i \in 1 .. Len(q) /\ Len(q) \in Nat
  BY LenProperties
<1>2. \A j \in 1 .. i - 1 : q[j] \in Kdn
  BY <1>1, ElementOfSeq
<1>3. \A j \in i + 1 .. Len(q) : q[j] \in Kdn
  BY <1>1, ElementOfSeq
<1>4. SubSeq(q, 1, i - 1) \in Seq(Kdn)
  BY <1>1, <1>2, SubSeqProperties
<1>5. SubSeq(q, i + 1, Len(q)) \in Seq(Kdn)
  BY <1>1, <1>3, SubSeqProperties
<1> QED
  BY <1>4, <1>5, ConcatProperties

(* A step keeps the types.                                                 *)
LEMMA TypedNext == Typed /\ [Next]_vars => Typed'
<1> SUFFICES ASSUME Typed, [Next]_vars PROVE Typed'
  OBVIOUS
<1> USE DEF Typed
<1>1. ASSUME NEW k \in Kdn, NEW x \in Kid, RegisterText(k, x) \/ BuildKv(k, x) \/ Delete(k, x)
      PROVE  Typed'
  <2>1. PICK v \in Nat : SetBlock(k, x, v)
    <3>1. CASE RegisterText(k, x)
      BY <3>1 DEF RegisterText
    <3>2. CASE BuildKv(k, x)
      <4>1. store[k][x] + 1 .. MaxVersion \subseteq Nat
        BY KdnSyncAssumption DEF KdnSyncAssumption
      <4> QED BY <3>2, <4>1 DEF BuildKv
    <3>3. CASE Delete(k, x)
      BY <3>3 DEF Delete
    <3> QED BY <1>1, <3>1, <3>2, <3>3
  <2>2. store' \in [Kdn -> [Kid -> Nat]]
    BY <2>1 DEF SetBlock
  <2> QED BY <2>1, <2>2 DEF SetBlock, localVars
<1>2. ASSUME NEW k \in Kdn, Register(k) PROVE Typed'
  BY <1>2, AppendProperties DEF Register, localVars
<1>3. ASSUME NEW k \in Kdn, Heartbeat(k) \/ Expire(k) PROVE Typed'
  BY <1>3 DEF Heartbeat, Expire, localVars
<1>4. ASSUME NEW k \in Kdn, Unregister(k) PROVE Typed'
  BY <1>4, RemovalTyped DEF Unregister, localVars
<1>5. CASE RefreshNothing \/ BeginRefresh
  BY <1>5 DEF RefreshNothing, BeginRefresh, worldVars, localVars
<1>6. ASSUME NEW k \in Kdn, VisitKdn(k) PROVE Typed'
  BY <1>6 DEF VisitKdn, worldVars
<1>7. ASSUME NEW k \in Kdn, VisitLastKdn(k) PROVE Typed'
  <2>1. \A i \in DOMAIN pool : pool[i] \in Kdn
    BY ElementOfSeq
  <2> QED BY <1>7, <2>1 DEF VisitLastKdn, Select, End, worldVars
<1>8. CASE FetchMeta
  BY <1>8 DEF FetchMeta, End, worldVars
<1>9. CASE FetchItems \/ RefreshFails
  BY <1>9 DEF FetchItems, RefreshFails, End, worldVars
<1>10. CASE UNCHANGED vars
  BY <1>10 DEF vars, worldVars, localVars
<1> QED
  BY <1>1, <1>2, <1>3, <1>4, <1>5, <1>6, <1>7, <1>8, <1>9, <1>10 DEF Next, KdnNext, RefreshNext

(* The answer to the meta request makes the two agree, up to the items     *)
(* that are still to be fetched.                                           *)
LEMMA MetaMirrors ==
  ASSUME Typed, Mirrored, FetchMeta
  PROVE  Mirrored' /\ (pc' = "idle" => Known(table') = Known(metaCache'))
<1>1. pc = "meta" /\ Known(table) = Known(metaCache)
  BY DEF FetchMeta, Mirrored
<1>2. metaCache' = store[chosen] /\ UNCHANGED store
  BY DEF FetchMeta, worldVars
<1>3. CASE Changed = {}
  <2>1. table' = [x \in Kid |-> IF x \in Gone THEN 0 ELSE IF x \in {} THEN store[chosen][x] ELSE table[x]]
    BY <1>3 DEF FetchMeta, Swap
  <2>2. \A x \in Kid : table'[x] # 0 <=> x \notin Gone /\ table[x] # 0
    BY <2>1
  <2>3. \A x \in Kid : table[x] # 0 <=> metaCache[x] # 0
    BY <1>1 DEF Known
  <2>4. \A x \in Kid : table'[x] # 0 <=> store[chosen][x] # 0
    BY <1>3, <2>2, <2>3 DEF Changed, Gone
  <2>5. Known(table') = Known(metaCache')
    BY <1>2, <2>4 DEF Known
  <2>6. pc' = "idle"
    BY <1>3 DEF FetchMeta, End
  <2> QED BY <2>5, <2>6 DEF Mirrored
<1>4. CASE Changed # {}
  <2>1. pc' = "items" /\ need' = Changed /\ removed' = Gone /\ UNCHANGED <<table, chosen>>
    BY <1>4 DEF FetchMeta
  <2>2. \A x \in Kid : table[x] # 0 <=> metaCache[x] # 0
    BY <1>1 DEF Known
  <2> QED BY <1>2, <2>1, <2>2 DEF Mirrored, Known, Changed, Gone
<1> QED BY <1>3, <1>4

(* The answer to the items request completes it.                           *)
LEMMA ItemsMirror ==
  ASSUME Typed, Mirrored, FetchItems
  PROVE  pc' = "idle" /\ Known(table') = Known(metaCache')
<1>1. pc = "items" /\ pc' = "idle" /\ UNCHANGED metaCache
  BY DEF FetchItems, End
<1>2. \A x \in Kid : table'[x] = IF x \in removed THEN 0
                                 ELSE IF x \in {y \in need : store[chosen][y] # 0} THEN store[chosen][x]
                                 ELSE table[x]
  BY DEF FetchItems, Swap
<1>3. \A x \in need : x \in Kid /\ store[chosen][x] # 0 /\ metaCache[x] # 0
  BY <1>1 DEF Mirrored, Known
<1>4. \A x \in Kid : metaCache[x] # 0 => x \notin removed /\ (x \in need \/ table[x] # 0)
  BY <1>1 DEF Mirrored, Known
<1>5. \A x \in Kid : table[x] # 0 => metaCache[x] # 0 \/ x \in removed
  BY <1>1 DEF Mirrored, Known
<1>6. \A x \in Kid : table'[x] # 0 <=> metaCache[x] # 0
  BY <1>2, <1>3, <1>4, <1>5
<1> QED BY <1>1, <1>6 DEF Known

(* Without failures and deletions a step keeps the two in agreement.       *)
LEMMA MirroredNext ==
  ASSUME MaxFailures = 0, Deletable = {}, failures \in Nat, Typed, Mirrored, [Next]_vars
  PROVE  Mirrored'
<1>1. ASSUME NEW k \in Kdn, NEW x \in Kid, RegisterText(k, x) \/ BuildKv(k, x) \/ Delete(k, x)
      PROVE  Mirrored'
  <2>1. PICK v \in Nat \ {0} : SetBlock(k, x, v)
    <3>1. CASE RegisterText(k, x)
      BY <3>1 DEF RegisterText
    <3>2. CASE BuildKv(k, x)
      <4>1. store[k][x] + 1 .. MaxVersion \subseteq Nat \ {0}
        BY KdnSyncAssumption DEF KdnSyncAssumption, Typed
      <4> QED BY <3>2, <4>1 DEF BuildKv
    <3>3. CASE Delete(k, x)
      BY <3>3 DEF Delete
    <3> QED BY <1>1, <3>1, <3>2, <3>3
  <2>2. UNCHANGED <<pc, table, metaCache, need, removed, chosen>>
    BY <2>1 DEF SetBlock, localVars
  <2>3. CASE pc = "items"
    <3>1. chosen \in Kdn
      BY <2>3 DEF Typed
    <3>2. \A y \in Kid : store[chosen][y] # 0 => store'[chosen][y] # 0
      BY <2>1, <3>1 DEF SetBlock, Typed
    <3>3. Known(store[chosen]) \subseteq Known(store'[chosen'])
      BY <2>2, <3>2 DEF Known
    <3> QED BY <2>2, <2>3, <3>3 DEF Mirrored, Known
  <2>4. CASE pc # "items"
    BY <2>2, <2>4 DEF Mirrored, Known
  <2> QED BY <2>3, <2>4
<1>2. ASSUME NEW k \in Kdn, Register(k) \/ Heartbeat(k) \/ Expire(k) \/ Unregister(k)
      PROVE  Mirrored'
  BY <1>2 DEF Register, Heartbeat, Expire, Unregister, localVars, Mirrored, Known
<1>3. CASE RefreshNothing \/ BeginRefresh
  BY <1>3 DEF RefreshNothing, BeginRefresh, localVars, Mirrored, Known
<1>4. ASSUME NEW k \in Kdn, VisitKdn(k) PROVE Mirrored'
  BY <1>4 DEF VisitKdn, Mirrored, Known
<1>5. ASSUME NEW k \in Kdn, VisitLastKdn(k) PROVE Mirrored'
  BY <1>5 DEF VisitLastKdn, Select, End, Mirrored, Known
<1>6. CASE FetchMeta
  BY <1>6, MetaMirrors
<1>7. CASE FetchItems
  BY <1>7, ItemsMirror DEF Mirrored
<1>8. CASE RefreshFails
  BY <1>8 DEF RefreshFails
<1>9. CASE UNCHANGED vars
  BY <1>9 DEF vars, worldVars, localVars, Mirrored, Known
<1> QED
  BY <1>1, <1>2, <1>3, <1>4, <1>5, <1>6, <1>7, <1>8, <1>9 DEF Next, KdnNext, RefreshNext

(* The number of failures is a number.                                     *)
LEMMA FailuresNext == failures \in Nat /\ [Next]_vars => failures' \in Nat
BY DEF Next, KdnNext, RefreshNext, RegisterText, BuildKv, Delete, SetBlock, Register, Heartbeat, Expire,
       Unregister, RefreshNothing, BeginRefresh, VisitKdn, VisitLastKdn, FetchMeta, FetchItems, RefreshFails, vars

(* The invariant holds in the initial state.                               *)
LEMMA MirrorInit == Init => failures \in Nat /\ MirrorInv
<1> SUFFICES ASSUME Init PROVE failures \in Nat /\ Typed /\ Mirrored
  BY DEF MirrorInv
<1>1. Typed
  BY EmptySeq DEF Init, Typed, Nothing
<1> QED BY <1>1 DEF Init, Mirrored, Known

(* As long as no request fails and no block is deleted, every refresh that *)
(* is completed leaves in the table exactly the blocks of the snapshot it  *)
(* worked from (kdn_refresh_once), whatever the KDNs register and build,   *)
(* and whichever KDNs come and go, between its requests.                   *)
THEOREM RefreshMirrorsHolds ==
  ASSUME MaxFailures = 0, Deletable = {}
  PROVE  Spec => RefreshMirrors
<1> DEFINE I == failures \in Nat /\ MirrorInv
<1>1. Init => I
  BY MirrorInit
<1>2. I /\ [Next]_vars => I'
  BY TypedNext, MirroredNext, FailuresNext DEF MirrorInv
<1>3. I /\ [Next]_vars => [Succeeds => Known(table') = Known(metaCache')]_vars
  <2> SUFFICES ASSUME I, [Next]_vars, Succeeds PROVE Known(table') = Known(metaCache')
    OBVIOUS
  <2>1. CASE FetchMeta
    BY <2>1, MetaMirrors DEF MirrorInv, Succeeds
  <2>2. CASE FetchItems
    BY <2>2, ItemsMirror DEF MirrorInv
  <2>3. ASSUME ~ FetchMeta, ~ FetchItems PROVE FALSE
    BY <2>3 DEF Succeeds, Next, KdnNext, RefreshNext, RegisterText, BuildKv, Delete, SetBlock, Register, Heartbeat,
                Expire, Unregister, RefreshNothing, BeginRefresh, VisitKdn, VisitLastKdn, RefreshFails, vars, localVars
  <2> QED BY <2>1, <2>2, <2>3
<1> QED
  BY <1>1, <1>2, <1>3, PTL DEF Spec, RefreshMirrors

(* An index behind the removed entry, counted from it.                     *)
LEMMA ShiftedIndex ==
  ASSUME NEW i \in Nat, NEW j \in Nat, NEW l \in Nat, i <= j, j <= l - 1
  PROVE  /\ ~(j <= i - 1) /\ j - (i - 1) \in 1 .. l - i
         /\ i + (j - (i - 1)) = j + 1
OBVIOUS

(* The pool without its i-th entry: the entries before it keep their place,*)
(* those after it move up by one, and no other entry is lost.              *)
LEMMA RemovalKeeps ==
  ASSUME NEW q \in Seq(Kdn), NEW i \in DOMAIN q,
         \A m, n \in DOMAIN q : q[m] = q[n] => m = n,
         NEW r, r = SubSeq(q, 1, i - 1) \o SubSeq(q, i + 1, Len(q))
  PROVE  /\ r \in Seq(Kdn)
         /\ \A m, n \in DOMAIN r : r[m] = r[n] => m = n
         /\ Range(q) \ {q[i]} \subseteq Range(r)
<1>0. PICK l \in Nat : l = Len(q)
  BY LenProperties
<1> DEFINE a == SubSeq(q, 1, i - 1)
           b == SubSeq(q, i + 1, l)
<1>1. i \in Nat /\ 1 <= i /\ i <= l /\ DOMAIN q = 1 .. l
  BY <1>0, LenProperties
<1>2. \A j \in 1 .. l : q[j] \in Kdn
  BY <1>0, <1>1, ElementOfSeq
<1>3. a \in Seq(Kdn) /\ Len(a) = i - 1 /\ \A j \in 1 .. i - 1 : a[j] = q[j]
  BY <1>1, <1>2, SubSeqProperties
<1>4. b \in Seq(Kdn) /\ Len(b) = l - i /\ \A j \in 1 .. l - i : b[j] = q[i + j]
  <2>1. \A j \in i + 1 .. l : q[j] \in Kdn
    BY <1>1, <1>2
  <2>2. i + 1 \in Int /\ l \in Int
    BY <1>1
  <2>3. \A m, n \in Int : (\A j \in m .. n : q[j] \in Kdn) =>
           /\ SubSeq(q, m, n) \in Seq(Kdn)
           /\ Len(SubSeq(q, m, n)) = IF m <= n THEN n - m + 1 ELSE 0
           /\ \A j \in 1 .. n - m + 1 : SubSeq(q, m, n)[j] = q[m + j - 1]
    BY SubSeqProperties
  <2>4. /\ b \in Seq(Kdn)
        /\ Len(b) = IF i + 1 <= l THEN l - (i + 1) + 1 ELSE 0
        /\ \A j \in 1 .. l - (i + 1) + 1 : b[j] = q[(i + 1) + j - 1]
    BY <2>1, <2>2, <2>3
  <2> HIDE DEF b
  <2>5. l - (i + 1) + 1 = l - i /\ \A j \in 1 .. l - i : (i + 1) + j - 1 = i + j
    BY SMTT(30), <1>1
  <2>6. Len(b) = l - i
    BY <1>1, <2>4
  <2> QED
    BY <2>4, <2>5, <2>6
<1>5. r = a \o b
  BY <1>0
<1> HIDE DEF a, b
<1>6. /\ r \in Seq(Kdn) /\ Len(r) = (i - 1) + (l - i)
      /\ \A j \in 1 .. (i - 1) + (l - i) : r[j] = IF j <= i - 1 THEN a[j] ELSE b[j - (i - 1)]
  <2>1. /\ a \o b \in Seq(Kdn)
        /\ Len(a \o b) = Len(a) + Len(b)
        /\ \A j \in 1 .. Len(a) + Len(b) : (a \o b)[j] = IF j <= Len(a) THEN a[j] ELSE b[j - Len(a)]
    <3>1. a \in Seq(Kdn) /\ b \in Seq(Kdn)
      BY <1>3, <1>4
    <3> HIDE <1>3, <1>4
    <3> QED
      BY <3>1, ConcatProperties
  <2> QED
    BY <1>3, <1>4, <1>5, <2>1
<1>7. (i - 1) + (l - i) = l - 1
  BY <1>1
<1>8. DOMAIN r = 1 .. l - 1
  BY <1>6, <1>7, LenProperties
<1>9. ASSUME NEW j \in 1 .. l - 1 PROVE r[j] = IF j < i THEN q[j] ELSE q[j + 1]
  <2>1. CASE j < i
    <3>1. j <= i - 1 /\ j \in 1 .. i - 1
      BY <1>1, <2>1
    <3> QED
      BY <1>3, <1>6, <1>7, <2>1, <3>1
  <2>2. CASE ~(j < i)
    <3>1. j \in Nat /\ i \in Nat /\ l \in Nat /\ i <= j /\ j <= l - 1
      BY <1>1, <2>2
    <3>2. /\ ~(j <= i - 1) /\ j - (i - 1) \in 1 .. l - i
          /\ i + (j - (i - 1)) = j + 1
      BY <3>1, ShiftedIndex
    <3> QED
      BY <1>4, <1>6, <1>7, <2>2, <3>2
  <2> QED
    BY <2>1, <2>2
<1>10. ASSUME NEW m \in 1 .. l - 1, NEW n \in 1 .. l - 1, r[m] = r[n] PROVE m = n
  <2>1. m \in DOMAIN q /\ m + 1 \in DOMAIN q /\ n \in DOMAIN q /\ n + 1 \in DOMAIN q
    BY <1>1
  <2>2. (IF m < i THEN m ELSE m + 1) = (IF n < i THEN n ELSE n + 1)
    BY <1>9, <1>10, <2>1
  <2> QED
    BY <1>1, <2>2
<1>11. ASSUME NEW j \in DOMAIN q, j # i PROVE q[j] \in Range(r)
  <2>1. CASE j < i
    <3>1. j \in 1 .. l - 1 /\ r[j] = q[j]
      BY <1>1, <1>9, <2>1
    <3> QED
      BY <1>8, <3>1 DEF Range
  <2>2. CASE ~(j < i)
    <3>1. j - 1 \in 1 .. l - 1 /\ ~(j - 1 < i) /\ (j - 1) + 1 = j
      BY <1>1, <1>11, <2>2
    <3>2. r[j - 1] = q[j]
      BY <1>9, <3>1
    <3> QED
      BY <1>8, <3>1, <3>2 DEF Range
  <2> QED
    BY <2>1, <2>2
<1>12. Range(q) \ {q[i]} \subseteq Range(r)
  BY <1>11 DEF Range
<1> QED
  BY <1>6, <1>8, <1>10, <1>12

(* The counter of the rounds is kept modulo its period.                    *)
LEMMA RemainderOK ==
  ASSUME NEW n \in Nat
  PROVE  n % RRPeriod \in 0 .. RRPeriod - 1
BY KdnSyncAssumption DEF KdnSyncAssumption

(* A KDN that registers for the first time comes last.                     *)
LEMMA RegistrationKeeps ==
  ASSUME NEW q \in Seq(Kdn), NEW k \in Kdn, k \notin Range(q),
         \A m, n \in DOMAIN q : q[m] = q[n] => m = n,
         NEW r, r = Append(q, k)
  PROVE  /\ r \in Seq(Kdn)
         /\ \A m, n \in DOMAIN r : r[m] = r[n] => m = n
         /\ Range(q) \cup {k} \subseteq Range(r)
<1>0. PICK l \in Nat : l = Len(q)
  BY LenProperties
<1>1. DOMAIN q = 1 .. l
  BY <1>0, LenProperties
<1>2. /\ r \in Seq(Kdn) /\ DOMAIN r = 1 .. l + 1
      /\ \A j \in 1 .. l : r[j] = q[j]
      /\ r[l + 1] = k
  BY <1>0, AppendProperties, LenProperties
<1>3. \A j \in 1 .. l : q[j] # k
  BY <1>1 DEF Range
<1>4. ASSUME NEW m \in 1 .. l + 1, NEW n \in 1 .. l + 1, r[m] = r[n] PROVE m = n
  <2>1. (m \in 1 .. l \/ m = l + 1) /\ (n \in 1 .. l \/ n = l + 1)
    OBVIOUS
  <2> QED
    BY <1>1, <1>2, <1>3, <1>4, <2>1
<1>5. \A j \in 1 .. l : j \in 1 .. l + 1
  OBVIOUS
<1>6. l + 1 \in 1 .. l + 1
  OBVIOUS
<1>7. Range(q) \cup {k} \subseteq Range(r)
  BY <1>1, <1>2, <1>5, <1>6 DEF Range
<1> QED
  BY <1>2, <1>4, <1>7

(* The entries of the pool are KDNs.                                       *)
LEMMA PoolOfKdns == ASSUME TypeOK PROVE Range(pool) \subseteq Kdn /\ alive \subseteq Kdn
BY ElementOfSeq DEF TypeOK, Range

(* An index answer adds the levels of one KDN to the index.                *)
LEMMA VisitedTyped ==
  ASSUME TypeOK, NEW k \in Kdn
  PROVE  DOMAIN Visited(k) \subseteq Kdn /\ \A j \in DOMAIN Visited(k) : Visited(k)[j] \in [Kid -> 0 .. 2]
<1>1. \A v \in Version : Level(v) \in 0 .. 2
  BY KdnSyncAssumption DEF KdnSyncAssumption, Version, Level
<1>2. [x \in Kid |-> Level(store[k][x])] \in [Kid -> 0 .. 2]
  BY <1>1 DEF TypeOK
<1> QED
  BY <1>2 DEF TypeOK, Visited

(* A new table holds the versions of a KDN or those it held.               *)
LEMMA SwapTyped ==
  ASSUME TypeOK, chosen \in Kdn, NEW got, NEW lost, Swap(got, lost)
  PROVE  table' \in [Kid -> Version] /\ avail' \in [Kid -> SUBSET Kdn]
<1>1. store[chosen] \in [Kid -> Version]
  BY DEF TypeOK
<1>2. 0 \in Version
  BY KdnSyncAssumption DEF KdnSyncAssumption, Version
<1> QED
  BY <1>1, <1>2 DEF TypeOK, Swap

(* The types hold in the initial state.                                    *)
LEMMA TypeOKInit == Init => TypeOK /\ Typed
<1> SUFFICES ASSUME Init PROVE TypeOK /\ Typed
  OBVIOUS
<1>1. Typed
  BY EmptySeq DEF Init, Typed, Nothing
<1>2. pool \in Seq(Kdn) /\ DOMAIN pool = {}
  BY EmptySeq DEF Init
<1>3. 0 \in Version /\ 0 \in 0 .. RRPeriod - 1 /\ 0 \in 0 .. MaxFailures
  BY KdnSyncAssumption DEF KdnSyncAssumption, Version
<1>4. DOMAIN NoIndex = {}
  BY DEF NoIndex
<1>5. Nothing \in [Kid -> Version]
  BY <1>3 DEF Nothing
<1> QED
  BY <1>1, <1>2, <1>3, <1>4, <1>5 DEF Init, TypeOK

(* A step keeps them.                                                      *)
LEMMA TypeOKNext == TypeOK /\ Typed /\ [Next]_vars => TypeOK'
<1> SUFFICES ASSUME TypeOK, Typed, [Next]_vars PROVE TypeOK'
  OBVIOUS
<1>A. alive \subseteq Kdn /\ Range(pool) \subseteq Kdn
  BY PoolOfKdns
<1>B. DOMAIN NoIndex = {}
  BY DEF NoIndex
<1>1. ASSUME NEW k \in Kdn, NEW x \in Kid, RegisterText(k, x) \/ BuildKv(k, x) \/ Delete(k, x)
      PROVE  TypeOK'
  <2>1. PICK v \in Version : SetBlock(k, x, v)
    <3>1. CASE RegisterText(k, x)
      BY <3>1, KdnSyncAssumption DEF RegisterText, Version, KdnSyncAssumption
    <3>2. CASE BuildKv(k, x)
      <4>1. store[k][x] + 1 .. MaxVersion \subseteq Version
        BY KdnSyncAssumption DEF KdnSyncAssumption, TypeOK, Version
      <4> QED BY <3>2, <4>1 DEF BuildKv
    <3>3. CASE Delete(k, x)
      BY <3>3, KdnSyncAssumption DEF Delete, Version, KdnSyncAssumption
    <3> QED BY <1>1, <3>1, <3>2, <3>3
  <2>2. store' \in [Kdn -> [Kid -> Version]]
    BY <2>1 DEF SetBlock, TypeOK
  <2> QED BY <2>1, <2>2 DEF SetBlock, localVars, TypeOK, Version
<1>2. ASSUME NEW k \in Kdn, Register(k) PROVE TypeOK'
  <2>1. /\ pool' \in Seq(Kdn)
        /\ \A m, n \in DOMAIN pool' : pool'[m] = pool'[n] => m = n
        /\ Range(pool) \cup {k} \subseteq Range(pool')
    <3>1. CASE k \in Range(pool)
      BY <1>2, <3>1 DEF Register, TypeOK
    <3>2. CASE k \notin Range(pool)
      BY <1>2, <3>2, RegistrationKeeps DEF Register, TypeOK
    <3> QED BY <3>1, <3>2
  <2>2. alive' \subseteq Range(pool')
    BY <1>2, <2>1 DEF Register, TypeOK
  <2> QED BY <1>2, <2>1, <2>2 DEF Register, localVars, TypeOK, Version
<1>3. ASSUME NEW k \in Kdn, Heartbeat(k) \/ Expire(k) PROVE TypeOK'
  BY <1>3 DEF Heartbeat, Expire, localVars, TypeOK, Version
<1>4. ASSUME NEW k \in Kdn, Unregister(k) PROVE TypeOK'
  <2>1. PICK i \in DOMAIN pool : pool[i] = k /\ pool' = SubSeq(pool, 1, i - 1) \o SubSeq(pool, i + 1, Len(pool))
    BY <1>4 DEF Unregister
  <2>2. /\ pool' \in Seq(Kdn)
        /\ \A m, n \in DOMAIN pool' : pool'[m] = pool'[n] => m = n
        /\ Range(pool) \ {k} \subseteq Range(pool')
    <3>1. pool \in Seq(Kdn) /\ \A m, n \in DOMAIN pool : pool[m] = pool[n] => m = n
      BY DEF TypeOK
    <3>2. \A q \in Seq(Kdn) : (\A m, n \in DOMAIN q : q[m] = q[n] => m = n) =>
            \A j \in DOMAIN q : \A r :
              r = SubSeq(q, 1, j - 1) \o SubSeq(q, j + 1, Len(q)) =>
                /\ r \in Seq(Kdn)
                /\ \A m, n \in DOMAIN r : r[m] = r[n] => m = n
                /\ Range(q) \ {q[j]} \subseteq Range(r)
      BY RemovalKeeps
    <3>3. \A j \in DOMAIN pool : \A r :
              r = SubSeq(pool, 1, j - 1) \o SubSeq(pool, j + 1, Len(pool)) =>
                /\ r \in Seq(Kdn)
                /\ \A m, n \in DOMAIN r : r[m] = r[n] => m = n
                /\ Range(pool) \ {pool[j]} \subseteq Range(r)
      BY <3>1, <3>2
    <3> QED
      BY <2>1, <3>3
  <2>3. alive' \subseteq Range(pool')
    BY <1>4, <2>2 DEF Unregister, TypeOK
  <2> QED BY <1>4, <2>2, <2>3 DEF Unregister, localVars, TypeOK, Version
<1>5. CASE RefreshNothing
  BY <1>5, <1>B DEF RefreshNothing, worldVars, localVars, TypeOK, Version
<1>6. CASE BeginRefresh
  BY <1>6, <1>A, <1>B DEF BeginRefresh, worldVars, TypeOK, Version
<1>7. ASSUME NEW k \in Kdn, VisitKdn(k) PROVE TypeOK'
  BY <1>7, VisitedTyped DEF VisitKdn, worldVars, TypeOK, Version
<1>8. ASSUME NEW k \in Kdn, VisitLastKdn(k) PROVE TypeOK'
  <2>1. /\ pc' \in {"idle", "meta"} /\ toVisit' = {} /\ newIndex' = NoIndex
        /\ chosen' \in Kdn \cup {NoKdn} /\ servers' \subseteq Kdn
        /\ need' \subseteq Kid /\ removed' \subseteq Kid
        /\ rrIdx' \in 0 .. RRPeriod - 1
    <3>1. CASE alive = {}
      BY <1>8, <3>1 DEF VisitLastKdn, End, TypeOK
    <3>2. CASE alive # {}
      <4>1. \A i \in DOMAIN pool : pool[i] \in Kdn
        BY ElementOfSeq DEF TypeOK
      <4>2. rrIdx + 1 \in Nat
        BY DEF TypeOK
      <4>3. (rrIdx + 1) % RRPeriod \in 0 .. RRPeriod - 1
        BY <4>2, RemainderOK
      <4>4. Select /\ chosen' \in Kdn
        BY <1>8, <3>2, <4>1 DEF VisitLastKdn, Select
      <4> QED BY <4>3, <4>4, <1>A DEF Select, TypeOK
    <3> QED BY <3>1, <3>2
  <2> QED BY <1>8, <1>B, <2>1, VisitedTyped DEF VisitLastKdn, worldVars, TypeOK, Version
<1>9. CASE FetchMeta
  <2>1. pc = "meta" /\ chosen \in Kdn
    BY <1>9 DEF FetchMeta, Typed
  <2>2. metaCache' \in [Kid -> Version]
    BY <1>9, <2>1 DEF FetchMeta, TypeOK
  <2>3. CASE Changed = {}
    <3>1. table' \in [Kid -> Version] /\ avail' \in [Kid -> SUBSET Kdn]
      BY <1>9, <2>1, <2>3, SwapTyped DEF FetchMeta
    <3> QED BY <1>9, <1>B, <2>2, <2>3, <3>1 DEF FetchMeta, End, worldVars, TypeOK, Version
  <2>4. CASE Changed # {}
    <3>1. Changed \subseteq Kid /\ Gone \subseteq Kid
      BY DEF Changed, Gone
    <3> QED BY <1>9, <2>1, <2>2, <2>4, <3>1 DEF FetchMeta, worldVars, TypeOK, Version
  <2> QED BY <2>3, <2>4
<1>10. CASE FetchItems
  <2>1. table' \in [Kid -> Version] /\ avail' \in [Kid -> SUBSET Kdn]
    BY <1>10, SwapTyped DEF FetchItems, Typed
  <2> QED BY <1>10, <1>B, <2>1 DEF FetchItems, End, worldVars, TypeOK, Version
<1>11. CASE RefreshFails
  <2>1. failures' \in 0 .. MaxFailures
    BY <1>11, KdnSyncAssumption DEF RefreshFails, TypeOK, KdnSyncAssumption
  <2> QED BY <1>11, <1>B, <2>1 DEF RefreshFails, End, worldVars, TypeOK, Version
<1>12. CASE UNCHANGED vars
  BY <1>12 DEF vars, worldVars, localVars, TypeOK, Version
<1> QED
  BY <1>1, <1>2, <1>3, <1>4, <1>5, <1>6, <1>7, <1>8, <1>9, <1>10, <1>11, <1>12 DEF Next, KdnNext, RefreshNext

(* The pool holds every KDN at most once and every alive one, the index    *)
(* levels and the versions of the table are those of the KDNs, and the     *)
(* locals of a refresh exist in its phases only (kdn_refresh_once,         *)
(* KDNPool).                                                               *)
THEOREM TypeCorrect == Spec => []TypeOK
<1>1. TypeOK /\ Typed /\ [Next]_vars => TypeOK' /\ Typed'
  BY TypeOKNext, TypedNext
<1> QED
  BY <1>1, TypeOKInit, PTL DEF Spec
=============================================================================
