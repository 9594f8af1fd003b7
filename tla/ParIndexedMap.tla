--------------------------- MODULE ParIndexedMap ----------------------------
(***************************************************************************)
(* heyp/threads/par-indexed-map.h: entries live in spans that are never    *)
(* moved; len_ is read without a lock.  Users get an id for a key and      *)
(* operate on it; one thread walks over all entries.                       *)
(***************************************************************************)
EXTENDS Integers, Sequences, FiniteSetTheorems, TLAPS

CONSTANTS Keys, Users,
          kSpanSize, kNumSpans,
          MaxOps                 \* bound: operations on each entry

VARIABLES spans,                 \* span id -> entries (values), or Null
          len, id_map, add_mu,   \* len_, id_map_; who holds add_mu_
          user,                  \* user -> [pc, key, id]
          walk                   \* ForEach: [pc, end, si, ei, cur, seen]

vars == <<spans, len, id_map, add_mu, user, walk>>

Null == <<>>
Junk == <<"junk">>
Free == "free"
NewSpan == [e \in 0 .. kSpanSize - 1 |-> 0]
Idle(k) == [pc |-> "idle", key |-> k, id |-> 0]
NoWalk == [pc |-> "idle", end |-> 0, si |-> 0, ei |-> 0, cur |-> 0, seen |-> <<>>]

\* The constructor clears the first kSpanSize pointers, not all kNumSpans.
Init ==
    /\ spans \in {[s \in 0 .. kNumSpans - 1 |-> IF s < kSpanSize THEN Null ELSE rest]
                     : rest \in {Null, Junk}}
    /\ len = 0 /\ id_map = <<>> /\ add_mu = Free
    /\ user = [u \in Users |-> Idle(CHOOSE k \in Keys : TRUE)]
    /\ walk = NoWalk

\* GetID: under add_mu_, the id the key has or the next one.
GetID(u, k) ==
    /\ user[u].pc = "idle" /\ add_mu = Free
    /\ k \in DOMAIN id_map \/ len < kSpanSize * kNumSpans
    /\ IF k \in DOMAIN id_map
       THEN /\ user' = [user EXCEPT ![u] = [pc |-> "on", key |-> k, id |-> id_map[k]]]
            /\ UNCHANGED add_mu
       ELSE /\ user' = [user EXCEPT ![u] = [pc |-> "span", key |-> k, id |-> len]]
            /\ add_mu' = u
    /\ UNCHANGED <<spans, len, id_map, walk>>

\* Mutant: a span is made for every entry.
AddSpan_Again(u) ==
    /\ user[u].pc = "span"
    /\ spans' = [spans EXCEPT ![user[u].id \div kSpanSize] = NewSpan]
    /\ user' = [user EXCEPT ![u].pc = "bump"]
    /\ UNCHANGED <<len, id_map, add_mu, walk>>

\* AddEntry: a new span when the last one is full ...
AddSpan(u) ==
    LET id == user[u].id
    IN  /\ user[u].pc = "span"
        /\ id % kSpanSize = 0 => spans[id \div kSpanSize] = Null      \* H_ASSERT
        /\ spans' = IF id % kSpanSize = 0 THEN [spans EXCEPT ![id \div kSpanSize] = NewSpan]
                    ELSE spans
        /\ user' = [user EXCEPT ![u].pc = "bump"]
        /\ UNCHANGED <<len, id_map, add_mu, walk>>

\* ... then len_.fetch_add; GetID records the id and releases the lock.
AddEntry(u) ==
    /\ user[u].pc = "bump"
    /\ len' = len + 1
    /\ id_map' = [k \in DOMAIN id_map \cup {user[u].key} |->
                     IF k = user[u].key THEN user[u].id ELSE id_map[k]]
    /\ add_mu' = Free
    /\ user' = [user EXCEPT ![u].pc = "on"]
    /\ UNCHANGED <<spans, walk>>

\* OnID: func(e->val) under the lock of the entry.
OnID(u) ==
    LET id == user[u].id
    IN  /\ user[u].pc = "on"
        /\ spans[id \div kSpanSize][id % kSpanSize] < MaxOps
        /\ spans' = [spans EXCEPT ![id \div kSpanSize][id % kSpanSize] = @ + 1]
        /\ user' = [user EXCEPT ![u] = Idle(@.key)]
        /\ UNCHANGED <<len, id_map, add_mu, walk>>

\* ForEach(0, NumIDs()): spans 0 .. (end - 1) / kSpanSize.
EndSpan(end) == IF end = 0 THEN 0 ELSE (end - 1) \div kSpanSize

EiStop(w) ==
    IF w.si < EndSpan(w.end) THEN kSpanSize
    ELSE IF w.end = 0 THEN 0 ELSE ((w.end - 1) % kSpanSize) + 1

ForEach ==
    /\ walk.pc = "idle"
    /\ walk' = [NoWalk EXCEPT !.pc = "walk", !.end = len]
    /\ UNCHANGED <<spans, len, id_map, add_mu, user>>

Visit ==
    /\ walk.pc = "walk" /\ walk.ei < EiStop(walk)
    /\ walk' = [walk EXCEPT !.ei = @ + 1, !.cur = @ + 1,
                            !.seen = Append(@, [id |-> walk.cur,
                                                entry |-> <<walk.si, walk.ei>>])]
    /\ UNCHANGED <<spans, len, id_map, add_mu, user>>

NextSpan ==
    /\ walk.pc = "walk" /\ walk.ei >= EiStop(walk)
    /\ walk' = IF walk.si < EndSpan(walk.end)
               THEN [walk EXCEPT !.si = @ + 1, !.ei = 0]
               ELSE [walk EXCEPT !.pc = "done"]
    /\ UNCHANGED <<spans, len, id_map, add_mu, user>>

EndWalk ==
    /\ walk.pc = "done" /\ walk' = NoWalk
    /\ UNCHANGED <<spans, len, id_map, add_mu, user>>

Next ==
    \/ \E u \in Users : (\E k \in Keys : GetID(u, k)) \/ AddSpan(u) \/ AddEntry(u) \/ OnID(u)
    \/ ForEach \/ Visit \/ NextSpan \/ EndWalk

Spec == Init /\ [][Next]_vars
-----------------------------------------------------------------------------
\* The ids that are handed out have an entry in a span that exists: readers of
\* len_ and holders of ids never meet a null span (the H_ASSERTs of OnID).
EntriesExist ==
    /\ \A id \in 0 .. len - 1 : spans[id \div kSpanSize] \notin {Null, Junk}
    /\ \A k \in DOMAIN id_map : id_map[k] < len

\* A walk visits the entries of the ids [0, NumIDs()), each once and in order,
\* however many are added while it runs.
WalkIsComplete ==
    walk.pc = "done" =>
        walk.seen = [i \in 1 .. walk.end |->
                       [id |-> i - 1, entry |-> <<(i - 1) \div kSpanSize, (i - 1) % kSpanSize>>]]

\* A reader that takes no lock sees only entries that exist, and all of them.
MapInv == EntriesExist /\ WalkIsComplete

\* The spans implement one array of entries, as users of the map see it.
Map == INSTANCE IndexedMap WITH
         id_of <- id_map,
         value <- [id \in 0 .. len - 1 |-> spans[id \div kSpanSize][id % kSpanSize]]
MapSpec == Map!Spec
-----------------------------------------------------------------------------
(* The proof that the spans implement one array, for any number of keys,   *)
(* users and spans.                                                        *)

Entries == [0 .. kSpanSize - 1 -> Nat]

MapType ==
    /\ len \in Nat /\ len <= kSpanSize * kNumSpans
    /\ spans \in [0 .. kNumSpans - 1 -> {Null, Junk} \cup Entries]
    /\ user \in [Users -> [pc : {"idle", "span", "bump", "on"}, key : Keys, id : Nat]]

\* The keys have the ids 0 .. len - 1, ...
IdsInv ==
    /\ IsFiniteSet(DOMAIN id_map) /\ Cardinality(DOMAIN id_map) = len
    /\ \A k \in DOMAIN id_map : id_map[k] \in 0 .. len - 1

\* ... the thread that adds an entry holds the lock, ...
AdderInv ==
    \A u \in Users :
        /\ user[u].pc = "on" => user[u].id < len
        /\ user[u].pc \in {"span", "bump"} =>
              /\ add_mu = u /\ user[u].id = len /\ user[u].key \notin DOMAIN id_map
              /\ len < kSpanSize * kNumSpans
        /\ user[u].pc = "bump" => spans[len \div kSpanSize] \in Entries

\* ... and an entry exists before its id does, with no operation done on it.
SpansInv ==
    /\ \A id \in 0 .. len - 1 : spans[id \div kSpanSize] \in Entries
    /\ \A sp \in 0 .. kNumSpans - 1, e \in 0 .. kSpanSize - 1 :
          spans[sp] \in Entries /\ kSpanSize * sp + e >= len => spans[sp][e] = 0

MInv == MapType /\ IdsInv /\ AdderInv /\ SpansInv

\* A span has entries, and a lock that is free is held by no user.
MapAssumption ==
    kSpanSize \in Nat \ {0} /\ kNumSpans \in Nat /\ Keys # {} /\ Free \notin Users

\* An id is a span and a place in it.
LEMMA DivMod ==
    ASSUME NEW k \in Nat \ {0}, NEW n \in Nat
    PROVE  n \div k \in Nat /\ n % k \in 0 .. k - 1 /\ n = k * (n \div k) + (n % k)
  <1>1. n % k \in 0 .. k - 1 /\ n \div k \in Int
    OBVIOUS
  <1>2. n % k = n - k * (n \div k)
    BY SMTT(30)
  <1>3. n = k * (n \div k) + (n % k)
    <2> DEFINE below == k * (n \div k)
               place == n % k
    <2>1. below \in Int /\ place \in Int /\ place = n - below
      BY <1>1, <1>2
    <2> HIDE DEF below, place
    <2>2. n = below + place
      BY <2>1
    <2> QED
      BY <2>2, Zenon DEF below, place
  <1>4. n \div k \in Nat
    BY <1>1, <1>3
  <1> QED
    BY <1>1, <1>3, <1>4

\* Only one multiple of k is less than k below a number.
LEMMA OneQuotient ==
    ASSUME NEW k \in Nat \ {0}, NEW a \in Nat, NEW b \in Nat, NEW x \in 0 .. k - 1,
           NEW y \in 0 .. k - 1, k * a + x = k * b + y
    PROVE  a = b
  <1>1. \A c, d \in Nat : c < d => k * c + k <= k * d
    <2> SUFFICES ASSUME NEW c \in Nat, NEW d \in Nat, c < d PROVE k * c + k <= k * d
      OBVIOUS
    <2>1. PICK e \in Nat : d = c + 1 + e
      <3>1. d - c - 1 \in Nat /\ d = c + 1 + (d - c - 1)
        OBVIOUS
      <3> QED
        BY <3>1
    <2>2. k * d = k * c + k + k * e /\ k * e >= 0
      BY <2>1
    <2> QED
      BY <2>2
  <1>2. k * a \in Nat /\ k * b \in Nat
    OBVIOUS
  <1> QED
    BY <1>1, <1>2

\* Two ids have two places.
LEMMA PlacesDiffer ==
    ASSUME NEW k \in Nat \ {0}, NEW n \in Nat, NEW m \in Nat, n \div k = m \div k, n % k = m % k
    PROVE  n = m
  BY DivMod

\* There are spans for kSpanSize * kNumSpans ids.
LEMMA SpanInRange ==
    ASSUME NEW k \in Nat \ {0}, NEW n \in Nat, NEW m \in Nat, n < k * m
    PROVE  n \div k \in 0 .. m - 1
  <1>1. n \div k \in Nat /\ n % k \in 0 .. k - 1 /\ n = k * (n \div k) + (n % k)
    BY DivMod
  <1> QED
    BY <1>1

\* Only an id at the start of a span needs a new one, and it has no
\* predecessor there.
LEMMA SpanStarts ==
    ASSUME NEW k \in Nat \ {0}, NEW n \in Nat
    PROVE  /\ n % k # 0 => n # 0 /\ (n - 1) \div k = n \div k
           /\ n % k = 0 => \A m \in 0 .. n - 1 : m \div k # n \div k
  <1>1. 0 % k = 0
    BY DivMod
  <1>2. ASSUME n % k # 0 PROVE n # 0 /\ (n - 1) \div k = n \div k
    <2>1. n # 0 /\ n - 1 \in Nat /\ (n % k) - 1 \in 0 .. k - 1
      BY <1>1, <1>2, DivMod
    <2> DEFINE q == n \div k
               r == n % k
               p == (n - 1) \div k
               t == (n - 1) % k
    <2>2. /\ q \in Nat /\ r \in 0 .. k - 1 /\ n = k * q + r
          /\ p \in Nat /\ t \in 0 .. k - 1 /\ n - 1 = k * p + t /\ r - 1 \in 0 .. k - 1
      BY <2>1, DivMod
    <2> HIDE DEF q, r, p, t
    <2>3. k * p + t = k * q + (r - 1)
      BY <2>2
    <2>4. p = q
      BY <2>2, <2>3, OneQuotient
    <2> QED
      BY <2>1, <2>4 DEF p, q
  <1>3. ASSUME n % k = 0, NEW m \in 0 .. n - 1 PROVE m \div k # n \div k
    <2>1. m \in Nat /\ m < n
      OBVIOUS
    <2> DEFINE q == n \div k
               p == m \div k
               t == m % k
    <2>2. q \in Nat /\ n = k * q + 0 /\ p \in Nat /\ t \in 0 .. k - 1 /\ m = k * p + t
      BY <1>3, <2>1, DivMod
    <2> HIDE DEF q, p, t
    <2>3. p # q
      BY <2>1, <2>2
    <2> QED
      BY <2>3 DEF p, q
  <1> QED
    BY <1>2, <1>3

\* The map starts empty.
LEMMA MapInit == ASSUME MapAssumption, Init PROVE MInv /\ Map!Init
  <1>0. /\ kSpanSize \in Nat /\ kNumSpans \in Nat /\ kSpanSize > 0 /\ len = 0 /\ id_map = <<>>
        /\ user = [u \in Users |-> Idle(CHOOSE k \in Keys : TRUE)]
    BY DEF MapAssumption, Init
  <1>1. \A sp \in 0 .. kNumSpans - 1 : spans[sp] \in {Null, Junk}
    BY DEF Init
  <1>2. spans = [sp \in 0 .. kNumSpans - 1 |-> spans[sp]]
    BY DEF Init
  <1>3. (CHOOSE k \in Keys : TRUE) \in Keys
    BY DEF MapAssumption
  <1>4. MapType
    <2>1. 0 <= kSpanSize * kNumSpans
      BY <1>0
    <2>2. user \in [Users -> [pc : {"idle", "span", "bump", "on"}, key : Keys, id : Nat]]
      BY <1>0, <1>3 DEF Idle
    <2> QED
      BY <1>0, <1>1, <1>2, <2>1, <2>2 DEF MapType
  <1>5. DOMAIN id_map = {}
    BY <1>0
  <1>6. IdsInv
    BY <1>0, <1>5, FS_EmptySet DEF IdsInv
  <1>7. AdderInv
    BY <1>0 DEF AdderInv, Idle
  <1>8. SpansInv
    <2>1. Null \notin Entries /\ Junk \notin Entries
      <3>1. 0 \in 0 .. kSpanSize - 1 /\ 0 \notin DOMAIN Null /\ 0 \notin DOMAIN Junk
        BY <1>0 DEF Null, Junk
      <3> QED
        BY <3>1 DEF Entries
    <2> QED
      BY <1>0, <1>1, <2>1 DEF SpansInv
  <1>9. Map!Init
    BY <1>0 DEF Map!Init
  <1> QED
    BY <1>4, <1>6, <1>7, <1>8, <1>9 DEF MInv

\* GetID gives the id the key has, or takes the lock.
LEMMA GetIDKeeps ==
    ASSUME MapAssumption, MInv, NEW u \in Users, NEW k \in Keys, GetID(u, k)
    PROVE  MInv'
  <1>0. /\ MapType /\ IdsInv /\ AdderInv /\ SpansInv /\ add_mu = Free /\ Free \notin Users
        /\ UNCHANGED <<spans, len, id_map, walk>>
    BY DEF MInv, GetID, MapAssumption
  <1>1. \A v \in Users : user[v].pc \notin {"span", "bump"}
    BY <1>0 DEF AdderInv
  <1>2. PICK r \in [pc : {"on", "span"}, key : {k}, id : Nat] :
          /\ user' = [user EXCEPT ![u] = r]
          /\ r.pc = "on" => r.id < len
          /\ r.pc = "span" => add_mu' = u /\ r.id = len /\ k \notin DOMAIN id_map
                             /\ len < kSpanSize * kNumSpans
    <2>1. CASE k \in DOMAIN id_map
      <3>1. id_map[k] \in Nat /\ id_map[k] < len
        BY <1>0, <2>1 DEF IdsInv, MapType
      <3>2. user' = [user EXCEPT ![u] = [pc |-> "on", key |-> k, id |-> id_map[k]]]
        BY <2>1 DEF GetID
      <3> DEFINE r == [pc |-> "on", key |-> k, id |-> id_map[k]]
      <3>3. /\ r \in [pc : {"on", "span"}, key : {k}, id : Nat]
            /\ r.pc = "on" /\ r.id < len
        BY <3>1
      <3>4. user' = [user EXCEPT ![u] = r]
        BY <3>2
      <3> HIDE DEF r
      <3> QED
        BY <3>3, <3>4
    <2>2. CASE k \notin DOMAIN id_map
      <3>1. /\ user' = [user EXCEPT ![u] = [pc |-> "span", key |-> k, id |-> len]]
            /\ add_mu' = u /\ len < kSpanSize * kNumSpans /\ len \in Nat
        BY <1>0, <2>2 DEF GetID, MapType
      <3> DEFINE r == [pc |-> "span", key |-> k, id |-> len]
      <3>2. /\ r \in [pc : {"on", "span"}, key : {k}, id : Nat]
            /\ r.pc = "span" /\ r.id = len
        BY <3>1
      <3>3. user' = [user EXCEPT ![u] = r]
        BY <3>1
      <3> HIDE DEF r
      <3> QED
        BY <2>2, <3>1, <3>2, <3>3
    <2> QED
      BY <2>1, <2>2
  <1>3. user \in [Users -> [pc : {"idle", "span", "bump", "on"}, key : Keys, id : Nat]]
    BY <1>0 DEF MapType
  <1>4. MapType'
    BY <1>0, <1>2, <1>3 DEF MapType, Entries
  <1>5. AdderInv'
    <2> SUFFICES ASSUME NEW v \in Users
                 PROVE  /\ user'[v].pc = "on" => user'[v].id < len
                        /\ user'[v].pc \in {"span", "bump"} =>
                             /\ add_mu' = v /\ user'[v].id = len
                             /\ user'[v].key \notin DOMAIN id_map
                             /\ len < kSpanSize * kNumSpans
                        /\ user'[v].pc # "bump"
      BY <1>0 DEF AdderInv
    <2>1. CASE v = u
      BY <1>2, <1>3, <2>1
    <2>2. CASE v # u
      <3>1. user'[v] = user[v]
        BY <1>2, <1>3, <2>2
      <3> QED
        BY <1>0, <1>1, <3>1 DEF AdderInv
    <2> QED
      BY <2>1, <2>2
  <1>6. IdsInv' /\ SpansInv'
    BY <1>0 DEF IdsInv, SpansInv, Entries
  <1> QED
    BY <1>4, <1>5, <1>6 DEF MInv

\* AddSpan makes the span of the next id, if that is its first place, and
\* changes no entry that has an id.
LEMMA AddSpanKeeps ==
    ASSUME MapAssumption, MInv, NEW u \in Users, AddSpan(u)
    PROVE  MInv' /\ \A id \in 0 .. len - 1 : spans'[id \div kSpanSize] = spans[id \div kSpanSize]
  <1> DEFINE sp == len \div kSpanSize
  <1>0. /\ MapType /\ IdsInv /\ AdderInv /\ SpansInv
        /\ UNCHANGED <<len, id_map, add_mu, walk>>
        /\ user' = [user EXCEPT ![u].pc = "bump"] /\ user[u].pc = "span"
    BY DEF MInv, AddSpan
  <1>1. /\ kSpanSize \in Nat \ {0} /\ kNumSpans \in Nat /\ len \in Nat
        /\ user[u].id = len /\ len < kSpanSize * kNumSpans /\ add_mu = u
        /\ user[u].key \notin DOMAIN id_map
    BY <1>0 DEF MapAssumption, MapType, AdderInv
  <1>2. sp \in 0 .. kNumSpans - 1
    BY <1>1, SpanInRange
  <1>3. NewSpan \in Entries /\ \A e \in 0 .. kSpanSize - 1 : NewSpan[e] = 0
    BY DEF NewSpan, Entries
  <1>4. spans \in [0 .. kNumSpans - 1 -> {Null, Junk} \cup Entries]
    BY <1>0 DEF MapType
  <1>5. \A id \in 0 .. len - 1 : id \div kSpanSize \in 0 .. kNumSpans - 1
    <2> TAKE id \in 0 .. len - 1
    <2>1. id \in Nat /\ id < kSpanSize * kNumSpans
      BY <1>1
    <2> QED
      BY <1>1, <2>1, SpanInRange
  <1>6. /\ spans' = IF len % kSpanSize = 0 THEN [spans EXCEPT ![sp] = NewSpan] ELSE spans
        /\ len % kSpanSize = 0 => spans[sp] = Null
    BY <1>1 DEF AddSpan
  <1>7. /\ len % kSpanSize # 0 => len # 0 /\ (len - 1) \div kSpanSize = sp
        /\ len % kSpanSize = 0 => \A m \in 0 .. len - 1 : m \div kSpanSize # sp
    BY <1>1, SpanStarts
  <1> HIDE DEF sp
  <1>8. /\ spans' \in [0 .. kNumSpans - 1 -> {Null, Junk} \cup Entries]
        /\ spans'[sp] \in Entries
        /\ \A x \in 0 .. kNumSpans - 1 :
              spans'[x] = spans[x] \/ (\A e \in 0 .. kSpanSize - 1 : spans'[x][e] = 0)
        /\ \A id \in 0 .. len - 1 : spans'[id \div kSpanSize] = spans[id \div kSpanSize]
    <2>1. CASE len % kSpanSize = 0
      <3>1. /\ spans' = [spans EXCEPT ![sp] = NewSpan]
            /\ \A m \in 0 .. len - 1 : m \div kSpanSize # sp
        BY <1>6, <1>7, <2>1
      <3>2. \A x \in 0 .. kNumSpans - 1 : spans'[x] = IF x = sp THEN NewSpan ELSE spans[x]
        BY <1>4, <3>1
      <3>3. \A id \in 0 .. len - 1 : spans'[id \div kSpanSize] = spans[id \div kSpanSize]
        BY <1>5, <3>1, <3>2
      <3>4. spans' \in [0 .. kNumSpans - 1 -> {Null, Junk} \cup Entries]
        BY <1>2, <1>3, <1>4, <3>1
      <3> QED
        BY <1>2, <1>3, <3>2, <3>3, <3>4
    <2>2. CASE len % kSpanSize # 0
      <3>1. spans' = spans /\ len # 0 /\ (len - 1) \div kSpanSize = sp
        BY <1>6, <1>7, <2>2
      <3>2. len - 1 \in 0 .. len - 1
        BY <1>1, <3>1
      <3>3. spans[(len - 1) \div kSpanSize] \in Entries
        BY <1>0, <3>2 DEF SpansInv
      <3> QED
        BY <1>4, <3>1, <3>3
    <2> QED
      BY <2>1, <2>2
  <1>9. user \in [Users -> [pc : {"idle", "span", "bump", "on"}, key : Keys, id : Nat]]
    BY <1>0 DEF MapType
  <1>10. MapType'
    <2>1. user' \in [Users -> [pc : {"idle", "span", "bump", "on"}, key : Keys, id : Nat]]
      BY <1>0, <1>9
    <2> QED
      BY <1>0, <1>8, <2>1 DEF MapType, Entries
  <1>11. AdderInv'
    <2> SUFFICES ASSUME NEW v \in Users
                 PROVE  /\ user'[v].pc = "on" => user'[v].id < len
                        /\ user'[v].pc \in {"span", "bump"} =>
                             /\ add_mu = v /\ user'[v].id = len
                             /\ user'[v].key \notin DOMAIN id_map
                             /\ len < kSpanSize * kNumSpans
                        /\ user'[v].pc = "bump" => spans'[len \div kSpanSize] \in Entries
      BY <1>0 DEF AdderInv, Entries
    <2>1. /\ user'[v].id = user[v].id /\ user'[v].key = user[v].key
          /\ user'[v].pc = IF v = u THEN "bump" ELSE user[v].pc
      BY <1>0, <1>9
    <2>2. user[v].pc \in {"span", "bump"} => v = u
      BY <1>0, <1>1 DEF AdderInv
    <2>3. user[v].pc = "on" => user[v].id < len
      BY <1>0 DEF AdderInv
    <2> QED
      BY <1>1, <1>8, <2>1, <2>2, <2>3 DEF sp
  <1>12. SpansInv'
    <2>1. \A id \in 0 .. len - 1 : spans'[id \div kSpanSize] \in Entries
      BY <1>0, <1>8 DEF SpansInv
    <2>2. ASSUME NEW x \in 0 .. kNumSpans - 1, NEW e \in 0 .. kSpanSize - 1,
                 spans'[x] \in Entries, kSpanSize * x + e >= len
          PROVE  spans'[x][e] = 0
      BY <1>0, <1>8, <2>2 DEF SpansInv
    <2> QED
      BY <1>0, <2>1, <2>2 DEF SpansInv, Entries
  <1>13. IdsInv'
    BY <1>0 DEF IdsInv
  <1> QED
    BY <1>8, <1>10, <1>11, <1>12, <1>13 DEF MInv

\* AddEntry gives the key the next id, whose entry exists and is unused.
LEMMA AddEntryMaps ==
    ASSUME MapAssumption, MInv, NEW u \in Users, AddEntry(u)
    PROVE  MInv' /\ Map!GetID(user[u].key)
  <1>0. /\ MapType /\ IdsInv /\ AdderInv /\ SpansInv /\ user[u].pc = "bump"
        /\ len' = len + 1 /\ user' = [user EXCEPT ![u].pc = "on"]
        /\ UNCHANGED <<spans, walk>>
    BY DEF MInv, AddEntry
  <1>1. /\ kSpanSize \in Nat \ {0} /\ kNumSpans \in Nat /\ len \in Nat
        /\ user[u].id = len /\ len < kSpanSize * kNumSpans /\ add_mu = u
        /\ user[u].key \notin DOMAIN id_map /\ spans[len \div kSpanSize] \in Entries
    BY <1>0 DEF MapAssumption, MapType, AdderInv
  <1>2. /\ len \div kSpanSize \in 0 .. kNumSpans - 1 /\ len % kSpanSize \in 0 .. kSpanSize - 1
        /\ kSpanSize * (len \div kSpanSize) + (len % kSpanSize) = len
    BY <1>1, SpanInRange, DivMod
  <1>3. spans[len \div kSpanSize][len % kSpanSize] = 0
    <2> DEFINE sp == len \div kSpanSize
               e == len % kSpanSize
    <2>1. /\ sp \in 0 .. kNumSpans - 1 /\ e \in 0 .. kSpanSize - 1 /\ spans[sp] \in Entries
          /\ kSpanSize * sp + e >= len
      BY <1>1, <1>2
    <2> HIDE DEF sp, e
    <2>2. spans[sp][e] = 0
      BY <1>0, <2>1 DEF SpansInv
    <2> QED
      BY <2>2 DEF sp, e
  <1>4. /\ id_map' = [k \in DOMAIN id_map \cup {user[u].key} |->
                        IF k = user[u].key THEN len ELSE id_map[k]]
        /\ DOMAIN id_map' = DOMAIN id_map \cup {user[u].key}
    BY <1>1 DEF AddEntry
  <1>5. /\ IsFiniteSet(DOMAIN id_map') /\ Cardinality(DOMAIN id_map') = len + 1
        /\ Cardinality(DOMAIN id_map) = len
    BY <1>0, <1>1, <1>4, FS_AddElement DEF IdsInv
  <1>6. IdsInv'
    <2>1. \A k \in DOMAIN id_map' : id_map'[k] \in 0 .. len
      BY <1>0, <1>1, <1>4 DEF IdsInv
    <2>2. 0 .. len = 0 .. len' - 1
      BY <1>0, <1>1
    <2> QED
      BY <1>0, <1>5, <2>1, <2>2 DEF IdsInv
  <1>7. user \in [Users -> [pc : {"idle", "span", "bump", "on"}, key : Keys, id : Nat]]
    BY <1>0 DEF MapType
  <1>8. MapType'
    <2>1. user' \in [Users -> [pc : {"idle", "span", "bump", "on"}, key : Keys, id : Nat]]
      BY <1>0, <1>7
    <2>2. len' \in Nat /\ len' <= kSpanSize * kNumSpans
      BY <1>0, <1>1
    <2> QED
      BY <1>0, <2>1, <2>2 DEF MapType, Entries
  <1>9. AdderInv'
    <2> SUFFICES ASSUME NEW v \in Users
                 PROVE  /\ user'[v].pc \notin {"span", "bump"}
                        /\ user'[v].pc = "on" => user'[v].id < len'
      BY DEF AdderInv
    <2>1. /\ user'[v].id = user[v].id /\ user[v].id \in Nat
          /\ user'[v].pc = IF v = u THEN "on" ELSE user[v].pc
      BY <1>0, <1>7
    <2>2. user[v].pc \in {"span", "bump"} => v = u
      BY <1>0, <1>1 DEF AdderInv
    <2>3. user[v].pc = "on" => user[v].id < len
      BY <1>0 DEF AdderInv
    <2> QED
      BY <1>0, <1>1, <2>1, <2>2, <2>3
  <1>10. SpansInv'
    <2>1. \A id \in 0 .. len : spans[id \div kSpanSize] \in Entries
      BY <1>0, <1>1 DEF SpansInv
    <2>2. 0 .. len = 0 .. len' - 1
      BY <1>0, <1>1
    <2>3. ASSUME NEW x \in 0 .. kNumSpans - 1, NEW e \in 0 .. kSpanSize - 1,
                 spans[x] \in Entries, kSpanSize * x + e >= len + 1
          PROVE  spans[x][e] = 0
      <3>1. kSpanSize * x + e >= len
        BY <1>1, <2>3
      <3> QED
        BY <1>0, <2>3, <3>1 DEF SpansInv
    <2> QED
      BY <1>0, <2>1, <2>2, <2>3 DEF SpansInv, Entries
  <1>11. Map!GetID(user[u].key)
    <2> DEFINE value == [id \in 0 .. len - 1 |-> spans[id \div kSpanSize][id % kSpanSize]]
               valuep == [id \in 0 .. len' - 1 |-> spans'[id \div kSpanSize][id % kSpanSize]]
    <2>1. valuep = [x \in 0 .. len |-> IF x = len THEN 0 ELSE value[x]]
      <3>1. 0 .. len' - 1 = 0 .. len /\ spans' = spans
        BY <1>0, <1>1
      <3>2. \A x \in 0 .. len : x # len => x \in 0 .. len - 1
        BY <1>1
      <3>3. \A x \in 0 .. len : spans[x \div kSpanSize][x % kSpanSize]
                                  = IF x = len THEN 0 ELSE value[x]
        BY <1>3, <3>2
      <3> QED
        BY <3>1, <3>3
    <2>2. id_map' = [x \in DOMAIN id_map \cup {user[u].key} |->
                       IF x = user[u].key THEN len ELSE id_map[x]]
      BY <1>4
    <2> DEFINE id == Cardinality(DOMAIN id_map)
    <2>3. /\ valuep = [x \in 0 .. id |-> IF x = id THEN 0 ELSE value[x]]
          /\ id_map' = [x \in DOMAIN id_map \cup {user[u].key} |->
                          IF x = user[u].key THEN id ELSE id_map[x]]
      <3>1. id = len
        BY <1>5
      <3> HIDE DEF id, value, valuep
      <3> QED
        BY <2>1, <2>2, <3>1, Zenon
    <2>4. Map!Cardinality(DOMAIN id_map) = Cardinality(DOMAIN id_map)
      BY DEF Map!Cardinality, Cardinality
    <2> QED
      BY <1>1, <2>3, <2>4, Zenon DEF Map!GetID
  <1> QED
    BY <1>6, <1>8, <1>9, <1>10, <1>11 DEF MInv

\* OnID changes the entry of its id and no other.
LEMMA OnIDMaps ==
    ASSUME MapAssumption, MInv, NEW u \in Users, OnID(u)
    PROVE  MInv' /\ Map!OnID(user[u].id)
  <1> DEFINE n == user[u].id
             sp == n \div kSpanSize
             e == n % kSpanSize
             value == [id \in 0 .. len - 1 |-> spans[id \div kSpanSize][id % kSpanSize]]
             valuep == [id \in 0 .. len' - 1 |-> spans'[id \div kSpanSize][id % kSpanSize]]
  <1>0. /\ MapType /\ IdsInv /\ AdderInv /\ SpansInv /\ user[u].pc = "on"
        /\ user' = [user EXCEPT ![u] = Idle(@.key)]
        /\ UNCHANGED <<len, id_map, add_mu, walk>>
    BY DEF MInv, OnID
  <1>1. user \in [Users -> [pc : {"idle", "span", "bump", "on"}, key : Keys, id : Nat]]
    BY <1>0 DEF MapType
  <1>2. /\ kSpanSize \in Nat \ {0} /\ kNumSpans \in Nat /\ len \in Nat
        /\ len <= kSpanSize * kNumSpans /\ n \in Nat /\ n < len
        /\ spans \in [0 .. kNumSpans - 1 -> {Null, Junk} \cup Entries]
    BY <1>0, <1>1 DEF MapAssumption, MapType, AdderInv
  <1>3. \A id \in 0 .. len - 1 :
          /\ id \div kSpanSize \in 0 .. kNumSpans - 1 /\ id % kSpanSize \in 0 .. kSpanSize - 1
          /\ spans[id \div kSpanSize] \in Entries
    <2> TAKE id \in 0 .. len - 1
    <2>1. id \in Nat /\ id < kSpanSize * kNumSpans
      BY <1>2
    <2> QED
      BY <1>0, <1>2, <2>1, SpanInRange, DivMod DEF SpansInv
  <1>4. n \in 0 .. len - 1
    BY <1>2
  <1>5. /\ sp \in 0 .. kNumSpans - 1 /\ e \in 0 .. kSpanSize - 1 /\ spans[sp] \in Entries
        /\ n = kSpanSize * sp + e
    BY <1>2, <1>3, <1>4, DivMod
  <1>6. spans' = [spans EXCEPT ![sp][e] = @ + 1]
    BY DEF OnID
  <1>7. \A id \in 0 .. len - 1 : id \div kSpanSize = sp /\ id % kSpanSize = e => id = n
    <2> TAKE id \in 0 .. len - 1
    <2>1. id \in Nat
      BY <1>2
    <2> QED
      BY <1>2, <2>1, PlacesDiffer
  <1> HIDE DEF n, sp, e
  <1>8. /\ spans' \in [0 .. kNumSpans - 1 -> {Null, Junk} \cup Entries]
        /\ spans'[sp] \in Entries
        /\ \A y \in 0 .. kSpanSize - 1 :
              spans'[sp][y] = IF y = e THEN spans[sp][y] + 1 ELSE spans[sp][y]
        /\ \A x \in 0 .. kNumSpans - 1 : x # sp => spans'[x] = spans[x]
    <2> DEFINE s == [spans[sp] EXCEPT ![e] = @ + 1]
    <2>1. s \in Entries /\ \A y \in 0 .. kSpanSize - 1 :
                              s[y] = IF y = e THEN spans[sp][y] + 1 ELSE spans[sp][y]
      <3> DEFINE t == spans[sp]
      <3>1. t \in [0 .. kSpanSize - 1 -> Nat] /\ e \in 0 .. kSpanSize - 1
        BY <1>5 DEF Entries
      <3> HIDE DEF t
      <3>2. /\ [t EXCEPT ![e] = @ + 1] \in [0 .. kSpanSize - 1 -> Nat]
            /\ \A y \in 0 .. kSpanSize - 1 :
                 [t EXCEPT ![e] = @ + 1][y] = IF y = e THEN t[y] + 1 ELSE t[y]
        BY <3>1
      <3> QED
        BY <3>2 DEF t, Entries
    <2>2. spans' = [spans EXCEPT ![sp] = s]
      BY <1>6
    <2> HIDE DEF s
    <2>3. spans'[sp] = s /\ \A x \in 0 .. kNumSpans - 1 : x # sp => spans'[x] = spans[x]
      BY <1>2, <1>5, <2>2
    <2>4. spans' \in [0 .. kNumSpans - 1 -> {Null, Junk} \cup Entries]
      BY <1>2, <1>5, <2>1, <2>2
    <2> QED
      BY <2>1, <2>3, <2>4
  <1>9. MapType'
    <2>1. user' \in [Users -> [pc : {"idle", "span", "bump", "on"}, key : Keys, id : Nat]]
      BY <1>0, <1>1 DEF Idle
    <2> QED
      BY <1>0, <1>8, <2>1 DEF MapType, Entries
  <1>10. \A x \in 0 .. kNumSpans - 1 : spans[x] \in Entries <=> spans'[x] \in Entries
    BY <1>5, <1>8
  <1>11. AdderInv'
    <2> SUFFICES ASSUME NEW v \in Users
                 PROVE  /\ user'[v].pc = "on" => user'[v].id < len
                        /\ user'[v].pc \in {"span", "bump"} =>
                             /\ add_mu = v /\ user'[v].id = len
                             /\ user'[v].key \notin DOMAIN id_map
                             /\ len < kSpanSize * kNumSpans
                        /\ user'[v].pc = "bump" => spans'[len \div kSpanSize] \in Entries
      BY <1>0 DEF AdderInv, Entries
    <2>1. CASE v = u
      BY <1>0, <1>1, <2>1 DEF Idle
    <2>2. CASE v # u
      <3>1. user'[v] = user[v]
        BY <1>0, <1>1, <2>2
      <3>2. user[v].pc = "bump" => spans'[len \div kSpanSize] \in Entries
        <4> SUFFICES ASSUME user[v].pc = "bump" PROVE spans'[len \div kSpanSize] \in Entries
          OBVIOUS
        <4>1. len < kSpanSize * kNumSpans /\ spans[len \div kSpanSize] \in Entries
          BY <1>0 DEF AdderInv
        <4>2. len \div kSpanSize \in 0 .. kNumSpans - 1
          BY <1>2, <4>1, SpanInRange
        <4> QED
          BY <1>10, <4>1, <4>2
      <3> QED
        BY <1>0, <3>1, <3>2 DEF AdderInv
    <2> QED
      BY <2>1, <2>2
  <1>12. SpansInv'
    <2>1. \A id \in 0 .. len - 1 : spans'[id \div kSpanSize] \in Entries
      BY <1>3, <1>10
    <2>2. ASSUME NEW x \in 0 .. kNumSpans - 1, NEW y \in 0 .. kSpanSize - 1,
                 spans'[x] \in Entries, kSpanSize * x + y >= len
          PROVE  spans'[x][y] = 0
      <3>1. spans[x][y] = 0
        BY <1>0, <1>10, <2>2 DEF SpansInv
      <3>2. ~(x = sp /\ y = e)
        BY <1>2, <1>5, <2>2
      <3> QED
        BY <1>8, <3>1, <3>2
    <2> QED
      BY <1>0, <2>1, <2>2 DEF SpansInv, Entries
  <1>13. IdsInv'
    BY <1>0 DEF IdsInv
  <1>14. valuep = [value EXCEPT ![n] = @ + 1]
    <2>1. DOMAIN value = 0 .. len - 1 /\ DOMAIN valuep = 0 .. len - 1
      BY <1>0
    <2>2. ASSUME NEW id \in 0 .. len - 1
          PROVE  valuep[id] = IF id = n THEN value[id] + 1 ELSE value[id]
      <3>1. /\ valuep[id] = spans'[id \div kSpanSize][id % kSpanSize]
            /\ value[id] = spans[id \div kSpanSize][id % kSpanSize]
        BY <1>0
      <3>2. CASE id = n
        <4>1. id \div kSpanSize = sp /\ id % kSpanSize = e
          BY <3>2 DEF sp, e
        <4> QED
          BY <1>5, <1>8, <3>1, <3>2, <4>1
      <3>3. CASE id # n
        <4>1. id \div kSpanSize # sp \/ id % kSpanSize # e
          BY <1>7, <3>3
        <4> QED
          BY <1>3, <1>8, <3>1, <3>3, <4>1
      <3> QED
        BY <3>2, <3>3
    <2>3. valuep = [id \in 0 .. len - 1 |-> valuep[id]]
      BY <1>0
    <2>4. value = [id \in 0 .. len - 1 |-> value[id]]
      OBVIOUS
    <2> HIDE DEF value, valuep
    <2> QED
      BY <2>2, <2>3, <2>4
  <1>15. Map!OnID(n)
    <2>1. n \in DOMAIN value
      BY <1>4
    <2> QED
      BY <1>0, <1>14, <2>1 DEF Map!OnID
  <1> QED
    BY <1>9, <1>11, <1>12, <1>13, <1>15 DEF MInv, n

\* Every step keeps the invariant and is a step of the array, or none.
LEMMA MapStep ==
    ASSUME MapAssumption, MInv, [Next]_vars
    PROVE  MInv' /\ [Map!Next]_(Map!avars)
  <1>0. len \in Nat /\ user \in [Users -> [pc : {"idle", "span", "bump", "on"}, key : Keys, id : Nat]]
    BY DEF MInv, MapType
  <1>1. ASSUME UNCHANGED <<spans, len, id_map, add_mu, user>>
        PROVE  MInv' /\ [Map!Next]_(Map!avars)
    <2>1. MInv'
      BY <1>1 DEF MInv, MapType, IdsInv, AdderInv, SpansInv, Entries
    <2>2. UNCHANGED Map!avars
      BY <1>1 DEF Map!avars
    <2> QED
      BY <2>1, <2>2
  <1>2. ASSUME NEW u \in Users, NEW k \in Keys, GetID(u, k)
        PROVE  MInv' /\ [Map!Next]_(Map!avars)
    <2>1. UNCHANGED <<spans, len, id_map>>
      BY <1>2 DEF GetID
    <2>2. UNCHANGED Map!avars
      BY <2>1 DEF Map!avars
    <2> QED
      BY <1>2, <2>2, GetIDKeeps
  <1>3. ASSUME NEW u \in Users, AddSpan(u) PROVE MInv' /\ [Map!Next]_(Map!avars)
    <2>1. /\ MInv' /\ UNCHANGED <<len, id_map>>
          /\ \A id \in 0 .. len - 1 : spans'[id \div kSpanSize] = spans[id \div kSpanSize]
      BY <1>3, AddSpanKeeps DEF AddSpan
    <2>2. UNCHANGED Map!avars
      BY <2>1 DEF Map!avars
    <2> QED
      BY <2>1, <2>2
  <1>4. ASSUME NEW u \in Users, AddEntry(u) PROVE MInv' /\ [Map!Next]_(Map!avars)
    <2>1. user[u].key \in Keys
      BY <1>0, <1>4
    <2>2. MInv' /\ Map!GetID(user[u].key)
      BY <1>4, AddEntryMaps
    <2>3. PICK k \in Keys : k = user[u].key
      BY <2>1
    <2>4. Map!GetID(k)
      BY <2>2, <2>3, Zenon DEF Map!GetID
    <2> QED
      BY <2>2, <2>4 DEF Map!Next
  <1>5. ASSUME NEW u \in Users, OnID(u) PROVE MInv' /\ [Map!Next]_(Map!avars)
    <2>1. MInv' /\ Map!OnID(user[u].id)
      BY <1>5, OnIDMaps
    <2> QED
      BY <2>1 DEF Map!Next, Map!OnID
  <1> QED
    BY <1>1, <1>2, <1>3, <1>4, <1>5 DEF Next, vars, ForEach, Visit, NextSpan, EndWalk

\* However users add entries and operate on them, the spans behave as one
\* array of entries that are never moved: for any number of keys and users and
\* any span size.
THEOREM SpansImplementArray == ASSUME MapAssumption PROVE Spec => MapSpec
  <1>1. Init => MInv /\ Map!Init
    BY MapInit
  <1>2. MInv /\ [Next]_vars => MInv' /\ [Map!Next]_(Map!avars)
    BY MapStep
  <1> QED
    BY <1>1, <1>2, PTL DEF Spec, MapSpec, Map!Spec
-----------------------------------------------------------------------------
(* The proof of MapInv. *)

\* The entry of id n, as ForEach reports it.
EntryOf(n) == [id |-> n, entry |-> <<n \div kSpanSize, n % kSpanSize>>]

Walk == [pc : {"idle", "walk", "done"}, end : Nat, si : Nat, ei : Nat, cur : Nat,
         seen : Seq([id : Nat, entry : Nat \X Nat])]

\* The walk has seen the entries of the ids below cur, and is at the place of
\* that id.
WalkInv ==
    /\ walk \in Walk
    /\ DOMAIN walk.seen = 1 .. walk.cur
    /\ \A i \in 1 .. walk.cur : walk.seen[i] = EntryOf(i - 1)
    /\ walk.pc = "walk" => /\ walk.cur = kSpanSize * walk.si + walk.ei
                           /\ walk.si <= EndSpan(walk.end) /\ walk.ei <= EiStop(walk)
    /\ walk.pc = "done" => walk.cur = walk.end

\* Where a walk stops in a span.
LEMMA StopType ==
    ASSUME MapAssumption, NEW w \in Walk
    PROVE  EndSpan(w.end) \in Nat /\ EiStop(w) \in 0 .. kSpanSize
  <1>1. w.end \in Nat /\ w.si \in Nat /\ kSpanSize \in Nat \ {0}
    BY DEF Walk, MapAssumption
  <1>2. CASE w.end = 0
    <2>1. EndSpan(w.end) = 0 /\ EiStop(w) \in {0, kSpanSize}
      BY <1>2 DEF EndSpan, EiStop
    <2> QED
      BY <1>1, <2>1
  <1>3. CASE w.end # 0
    <2>1. w.end - 1 \in Nat
      BY <1>1, <1>3
    <2>2. (w.end - 1) \div kSpanSize \in Nat /\ (w.end - 1) % kSpanSize \in 0 .. kSpanSize - 1
      BY <1>1, <2>1, DivMod
    <2>3. EndSpan(w.end) \in Nat
      BY <1>3, <2>2 DEF EndSpan
    <2>4. EiStop(w) = kSpanSize \/ EiStop(w) = ((w.end - 1) % kSpanSize) + 1
      BY <1>3 DEF EiStop
    <2> QED
      BY <1>1, <2>2, <2>3, <2>4
  <1> QED
    BY <1>2, <1>3

\* Writing one field of the walk leaves the others.
LEMMA SetDone ==
    ASSUME NEW w \in Walk
    PROVE  LET v == [w EXCEPT !.pc = "done"]
           IN  /\ v \in Walk /\ v.pc = "done" /\ v.end = w.end /\ v.si = w.si
               /\ v.ei = w.ei /\ v.cur = w.cur /\ v.seen = w.seen
  BY Zenon DEF Walk

\* A walk starts before the first entry ...
LEMMA ForEachStep ==
    ASSUME MapAssumption, NEW n \in Nat,
           walk' = [NoWalk EXCEPT !.pc = "walk", !.end = n] \/ walk' = NoWalk
    PROVE  WalkInv'
  <1>1. <<>> \in Seq([id : Nat, entry : Nat \X Nat])
    OBVIOUS
  <1>2. walk' \in {[pc |-> "walk", end |-> n, si |-> 0, ei |-> 0, cur |-> 0, seen |-> <<>>],
                   NoWalk}
    BY DEF NoWalk
  <1>3. /\ walk' \in Walk /\ walk'.pc # "done" /\ walk'.seen = <<>>
        /\ walk'.cur = 0 /\ walk'.si = 0 /\ walk'.ei = 0
    <2>1. 0 \in Nat
      OBVIOUS
    <2>2. [pc |-> "walk", end |-> n, si |-> 0, ei |-> 0, cur |-> 0, seen |-> <<>>] \in Walk
          /\ NoWalk \in Walk
      BY <1>1, <2>1, Zenon DEF Walk, NoWalk
    <2> QED
      BY <1>2, <2>2 DEF NoWalk
  <1>4. EndSpan(walk'.end) \in Nat /\ EiStop(walk') \in 0 .. kSpanSize
    BY <1>3, StopType
  <1>5. kSpanSize \in Nat
    BY DEF MapAssumption
  <1>6. walk'.cur = kSpanSize * walk'.si + walk'.ei
    BY <1>3, <1>5
  <1>7. DOMAIN walk'.seen = 1 .. walk'.cur
    BY <1>3
  <1>8. 0 <= EndSpan(walk'.end) /\ 0 <= EiStop(walk')
    BY <1>4, <1>5
  <1> QED
    BY <1>3, <1>6, <1>7, <1>8 DEF WalkInv

\* ... sees the entry it is at ...
LEMMA VisitStep == ASSUME MapAssumption, WalkInv, Visit PROVE WalkInv'
  <1> DEFINE w == walk
             k == kSpanSize
  <1>1. /\ w \in Walk /\ w.pc = "walk" /\ w.ei < EiStop(w) /\ k \in Nat \ {0}
        /\ w.cur = k * w.si + w.ei /\ w.si <= EndSpan(w.end)
        /\ w.si \in Nat /\ w.ei \in Nat /\ w.cur \in Nat /\ w.end \in Nat
        /\ w.seen \in Seq([id : Nat, entry : Nat \X Nat])
        /\ DOMAIN w.seen = 1 .. w.cur
    BY DEF Visit, WalkInv, Walk, MapAssumption
  <1>2. EiStop(w) \in 0 .. k
    BY <1>1, StopType
  <1>3. w.ei \in 0 .. k - 1
    BY <1>1, <1>2
  <1>4. w.cur \div k = w.si /\ w.cur % k = w.ei
    <2> DEFINE q == w.cur \div k
               r == w.cur % k
    <2>1. q \in Nat /\ r \in 0 .. k - 1 /\ w.cur = k * q + r
      BY <1>1, DivMod
    <2> HIDE DEF q, r
    <2>2. q = w.si
      BY <1>1, <1>3, <2>1, OneQuotient
    <2>3. r = w.ei
      <3> DEFINE below == k * w.si
      <3>1. below \in Int /\ w.cur = below + w.ei /\ w.cur = below + r
        BY <1>1, <2>1, <2>2
      <3> HIDE DEF below
      <3> QED
        BY <1>3, <2>1, <3>1
    <2> QED
      BY <2>2, <2>3 DEF q, r
  <1>5. PICK e : e = [id |-> w.cur, entry |-> <<w.si, w.ei>>]
    OBVIOUS
  <1>6. e = EntryOf(w.cur) /\ e \in [id : Nat, entry : Nat \X Nat]
    BY <1>1, <1>4, <1>5 DEF EntryOf
  <1>7. PICK s : s = Append(w.seen, e)
    OBVIOUS
  <1>8. Len(w.seen) = w.cur
    BY <1>1
  <1>9. /\ s \in Seq([id : Nat, entry : Nat \X Nat]) /\ DOMAIN s = 1 .. w.cur + 1
        /\ s[w.cur + 1] = e /\ \A i \in 1 .. w.cur : s[i] = w.seen[i]
    BY <1>1, <1>6, <1>7, <1>8
  <1>10. walk' = [walk EXCEPT !.ei = walk.ei + 1, !.cur = walk.cur + 1, !.seen = s]
    BY <1>5, <1>7, Zenon DEF Visit
  <1>11. walk.ei + 1 \in Nat /\ walk.cur + 1 \in Nat
    BY <1>1
  <1>12. /\ walk' \in Walk /\ walk'.pc = walk.pc /\ walk'.end = walk.end
         /\ walk'.si = walk.si /\ walk'.ei = walk.ei + 1 /\ walk'.cur = walk.cur + 1
         /\ walk'.seen = s
    <2>1. walk \in Walk /\ s \in Seq([id : Nat, entry : Nat \X Nat])
      BY <1>1, <1>9
    <2>2. ASSUME NEW x \in Nat, NEW y \in Nat
          PROVE  LET d == [walk EXCEPT !.ei = x, !.cur = y, !.seen = s]
                 IN  /\ d \in Walk /\ d.pc = walk.pc /\ d.end = walk.end /\ d.si = walk.si
                     /\ d.ei = x /\ d.cur = y /\ d.seen = s
      BY <2>1, Zenon DEF Walk
    <2>3. PICK x \in Nat, y \in Nat : x = walk.ei + 1 /\ y = walk.cur + 1
      BY <1>11
    <2>4. walk' = [walk EXCEPT !.ei = x, !.cur = y, !.seen = s]
      BY <1>10, <2>3, Zenon
    <2>5. /\ walk' \in Walk /\ walk'.pc = walk.pc /\ walk'.end = walk.end
          /\ walk'.si = walk.si /\ walk'.ei = x /\ walk'.cur = y /\ walk'.seen = s
      BY <2>2, <2>4, ZenonT(30)
    <2> QED
      BY <2>3, <2>5
  <1>13. \A i \in 1 .. w.cur + 1 : s[i] = EntryOf(i - 1)
    <2> SUFFICES ASSUME NEW i \in 1 .. w.cur + 1 PROVE s[i] = EntryOf(i - 1)
      OBVIOUS
    <2>1. CASE i = w.cur + 1
      <3>1. i - 1 = w.cur
        BY <1>1, <2>1
      <3> QED
        BY <1>6, <1>9, <2>1, <3>1
    <2>2. CASE i # w.cur + 1
      <3>1. i \in 1 .. w.cur
        BY <1>1, <2>2
      <3> QED
        BY <1>9, <3>1 DEF WalkInv
    <2> QED
      BY <2>1, <2>2
  <1>14. EiStop(walk') = EiStop(walk)
    BY <1>12 DEF EiStop
  <1>15. walk'.ei <= EiStop(walk') /\ walk'.cur = k * walk'.si + walk'.ei
    <2> DEFINE below == k * w.si
    <2>1. below \in Int /\ w.cur = below + w.ei /\ k * walk'.si = below
      BY <1>1, <1>12
    <2> HIDE DEF below
    <2>2. walk'.cur = below + walk'.ei
      BY <1>1, <1>12, <2>1
    <2>3. walk'.ei <= EiStop(walk')
      BY <1>1, <1>2, <1>12, <1>14
    <2> QED
      BY <2>1, <2>2, <2>3
  <1> QED
    BY <1>1, <1>9, <1>12, <1>13, <1>15 DEF WalkInv

\* ... and moves on to the next span, or ends at the last id.
LEMMA NextSpanStep == ASSUME MapAssumption, WalkInv, NextSpan PROVE WalkInv'
  <1> DEFINE w == walk
             k == kSpanSize
  <1>1. /\ w \in Walk /\ w.pc = "walk" /\ w.ei >= EiStop(w) /\ k \in Nat \ {0}
        /\ w.cur = k * w.si + w.ei /\ w.si <= EndSpan(w.end) /\ w.ei <= EiStop(w)
        /\ w.si \in Nat /\ w.ei \in Nat /\ w.cur \in Nat /\ w.end \in Nat
        /\ DOMAIN w.seen = 1 .. w.cur
    BY DEF NextSpan, WalkInv, Walk, MapAssumption
  <1>2. EiStop(w) \in 0 .. k /\ EndSpan(w.end) \in Nat
    BY <1>1, StopType
  <1>3. w.ei = EiStop(w)
    BY <1>1, <1>2
  <1>4. CASE w.si < EndSpan(w.end)
    <2>1. w.ei = k
      BY <1>3, <1>4 DEF EiStop
    <2>2. walk' = [walk EXCEPT !.si = walk.si + 1, !.ei = 0]
      BY <1>4, Zenon DEF NextSpan
    <2>3. walk.si + 1 \in Nat
      BY <1>1
    <2>4. /\ walk' \in Walk /\ walk'.pc = walk.pc /\ walk'.end = walk.end
          /\ walk'.si = walk.si + 1 /\ walk'.ei = 0 /\ walk'.cur = walk.cur
          /\ walk'.seen = walk.seen
      <3>1. walk \in Walk /\ 0 \in Nat
        BY <1>1
      <3>2. ASSUME NEW x \in Nat, NEW z \in Nat
            PROVE  LET d == [walk EXCEPT !.si = x, !.ei = z]
                   IN  /\ d \in Walk /\ d.pc = walk.pc /\ d.end = walk.end /\ d.si = x
                       /\ d.ei = z /\ d.cur = walk.cur /\ d.seen = walk.seen
        BY <3>1, Zenon DEF Walk
      <3> QED
        BY <2>2, <2>3, <3>1, <3>2, Zenon
    <2>5. EiStop(walk') \in 0 .. k
      BY <2>4, StopType
    <2>6. walk'.ei <= EiStop(walk') /\ walk'.si <= EndSpan(walk'.end)
      BY <1>1, <1>2, <1>4, <2>4, <2>5
    <2>7. walk'.cur = k * walk'.si + walk'.ei
      <3>1. k * w.si + k = k * (w.si + 1)
        BY <1>1
      <3> QED
        BY <1>1, <2>1, <2>4, <3>1
    <2> QED
      BY <1>1, <2>4, <2>6, <2>7 DEF WalkInv
  <1>5. CASE ~(w.si < EndSpan(w.end))
    <2>1. w.si = EndSpan(w.end)
      BY <1>1, <1>2, <1>5
    <2>2. walk' = [walk EXCEPT !.pc = "done"]
      BY <1>5, Zenon DEF NextSpan
    <2>3. /\ walk' \in Walk /\ walk'.pc = "done" /\ walk'.end = walk.end
          /\ walk'.cur = walk.cur /\ walk'.seen = walk.seen
      BY <1>1, <2>2, SetDone
    <2>4. w.cur = w.end
      <3>1. CASE w.end = 0
        BY <1>1, <1>3, <1>5, <2>1, <3>1 DEF EndSpan, EiStop
      <3>2. CASE w.end # 0
        <4> DEFINE q == (w.end - 1) \div k
                   r == (w.end - 1) % k
        <4>1. w.end - 1 \in Nat
          BY <1>1, <3>2
        <4>2. q \in Nat /\ r \in 0 .. k - 1 /\ w.end - 1 = k * q + r
          BY <1>1, <4>1, DivMod
        <4>3. w.si = q /\ w.ei = r + 1
          BY <1>3, <1>5, <2>1, <3>2 DEF EndSpan, EiStop
        <4> HIDE DEF q, r
        <4> QED
          BY <1>1, <4>2, <4>3
      <3> QED
        BY <3>1, <3>2
    <2> QED
      BY <1>1, <2>3, <2>4 DEF WalkInv
  <1> QED
    BY <1>4, <1>5

\* A reader of len_, which takes no lock, meets only entries that exist, and a
\* walk sees every entry below the len_ it read, once and in order.
THEOREM ReadersAreSafe == ASSUME MapAssumption PROVE Spec => []MapInv
  <1>1. Init => MInv /\ WalkInv
    <2>1. Init => MInv
      BY MapInit
    <2>2. Init => WalkInv
      <3> SUFFICES ASSUME Init PROVE WalkInv
        OBVIOUS
      <3>1. <<>> \in Seq([id : Nat, entry : Nat \X Nat])
        OBVIOUS
      <3> QED
        BY <3>1 DEF Init, WalkInv, Walk, NoWalk
    <2> QED
      BY <2>1, <2>2
  <1>2. MInv /\ WalkInv /\ [Next]_vars => MInv' /\ WalkInv'
    <2> SUFFICES ASSUME MInv, WalkInv, [Next]_vars PROVE WalkInv'
      BY MapStep
    <2>1. CASE ForEach \/ EndWalk
      BY <2>1, ForEachStep DEF ForEach, EndWalk, MInv, MapType
    <2>2. CASE UNCHANGED walk
      BY <2>2 DEF WalkInv, EiStop
    <2> QED
      BY <2>1, <2>2, VisitStep, NextSpanStep
         DEF Next, GetID, AddSpan, AddEntry, OnID, vars
  <1>3. MInv /\ WalkInv => MapInv
    <2> SUFFICES ASSUME MInv, WalkInv PROVE MapInv
      OBVIOUS
    <2>1. EntriesExist
      <3>1. kSpanSize \in Nat \ {0}
        BY DEF MapAssumption
      <3>2. Null \notin Entries /\ Junk \notin Entries
        <4>1. \A f \in Entries : 0 \in DOMAIN f
          BY <3>1 DEF Entries
        <4>2. 0 \notin DOMAIN Null /\ 0 \notin DOMAIN Junk
          BY DEF Null, Junk
        <4> QED
          BY <4>1, <4>2
      <3>3. \A id \in 0 .. len - 1 : spans[id \div kSpanSize] \in Entries
        BY DEF MInv, SpansInv
      <3>4. \A key \in DOMAIN id_map : id_map[key] < len
        BY DEF MInv, MapType, IdsInv
      <3> QED
        BY <3>2, <3>3, <3>4 DEF EntriesExist
    <2>2. WalkIsComplete
      <3> SUFFICES ASSUME walk.pc = "done"
                   PROVE  walk.seen = [i \in 1 .. walk.end |-> EntryOf(i - 1)]
        BY DEF WalkIsComplete, EntryOf
      <3>1. walk.seen \in Seq([id : Nat, entry : Nat \X Nat])
            /\ DOMAIN walk.seen = 1 .. walk.end
            /\ \A i \in 1 .. walk.end : walk.seen[i] = EntryOf(i - 1)
        BY DEF WalkInv, Walk
      <3>2. walk.seen = [i \in 1 .. Len(walk.seen) |-> walk.seen[i]]
            /\ DOMAIN walk.seen = 1 .. Len(walk.seen)
        BY <3>1
      <3> QED
        BY <3>1, <3>2
    <2> QED
      BY <2>1, <2>2 DEF MapInv
  <1> QED
    BY <1>1, <1>2, <1>3, PTL DEF Spec
=============================================================================
