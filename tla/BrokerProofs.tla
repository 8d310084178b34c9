---------------------------- MODULE BrokerProofs ----------------------------
(***************************************************************************)
(* Theorems about SessionBroker, for any callers, any sizes of the pool,   *)
(* of the queue and of the stock of clean workers.                         *)
(***************************************************************************)
EXTENDS SessionBroker, FiniteSetTheorems, SequenceTheorems, TLAPS

In(c, w) == \E i \in 1..Len(w) : w[i] = c

Once(w) == \A i, j \in 1..Len(w) : w[i] = w[j] => i = j

Places(set) == {c \in Callers : cpc[c] \in set}

Held == {s \in Sessions : lease[s] \in {"held", "retained"}}

\* The calls that may yet start a worker.
Starting == Places({"pop", "try", "slot", "check", "poll", "waiting", "unslot"})
              \cup {c \in Callers : tpc[c] = "begin"}

\* The handle's worker runs, and its port is published.
Attached(c) == tpc[c] \in {"boot", "init", "ok"} \/ cpc[c] = "open"

LineTypes == permits \in Nat /\ waiters \in Seq(Callers) /\ granted \subseteq Callers

BrokerTypes ==
  /\ LineTypes /\ slots \in Nat
  /\ prewarmed \in Seq(Sessions)
  /\ cpc \in [Callers -> Calling \cup {"idle", "open", "dropped"}]
  /\ bare \subseteq Callers /\ sess \in [Callers -> Sessions \cup {NoSession}]
  /\ starts \in 0..MaxStarts
  /\ tpc \in [Callers -> {"none", "begin", "boot", "attach", "init", "ok", "err"}]
  /\ woken \subseteq Callers /\ cancelled \subseteq Callers
  /\ port \in [Callers -> Sessions \cup {NoSession}]
  /\ kpc \in [Threads -> {"idle", "lock", "force", "notify", "done"}]
  /\ kport \in [Threads -> Sessions \cup {NoSession}]
  /\ lease \in [Sessions -> {"unused", "held", "released", "retained"}]
  /\ forced \subseteq Sessions /\ spawned \in Nat

\* A task runs under a future that waits for it or was dropped; a bare permit is in the hands of a
\* call about to leave the queue or of a task that has not begun; a session is in the hands of its
\* task and then of the user; and whoever asks for a permit has found no clean worker.
Phase(c) ==
  /\ tpc[c] # "none" => cpc[c] \in {"joining", "dropped"}
  /\ c \in bare => cpc[c] = "unslot" \/ tpc[c] = "begin"
  /\ sess[c] # NoSession <=> \/ tpc[c] \in {"boot", "attach", "init", "ok"} \/ cpc[c] = "open"
                             \/ tpc[c] = "begin" /\ c \notin bare
  /\ cpc[c] \in {"try", "slot", "check", "poll", "waiting"} => prewarmed = <<>>

PhaseInv == \A c \in Callers : Phase(c)

Queued(c) == c \in granted \/ In(c, waiters)

\* Who waits is in line or has been granted a permit, once and not both.
LineInv ==
  /\ Once(waiters)
  /\ \A c \in granted : ~In(c, waiters)
  /\ waiters # <<>> => permits = 0

QueueInv == LineInv /\ \A c \in Callers : cpc[c] = "waiting" <=> Queued(c)

SlotCount ==
  slots + Len(waiters) + Cardinality(granted) + Cardinality(Places({"check", "poll", "unslot"}))
    = QueueCapacity

StartCount == spawned + Cardinality(Starting) <= Prewarm + starts

\* The clean workers are the first that were started, and nothing but the pool refers to them.
WarmInv ==
  /\ Prewarm <= spawned /\ Len(prewarmed) <= Prewarm
  /\ \A i \in 1..Len(prewarmed) : prewarmed[i] = i /\ lease[i] = "held"
  /\ \A s \in forced : s > Len(prewarmed)
  /\ \A c \in Callers : /\ sess[c] # NoSession => sess[c] > Len(prewarmed)
                        /\ port[c] # NoSession => port[c] > Len(prewarmed)
  /\ \A t \in Threads : kport[t] # NoSession => kport[t] > Len(prewarmed)
  /\ \A s \in Sessions : lease[s] = "unused" <=> s > spawned

\* A cancel that has read the port of a worker forces that worker, and a waiter does not start to
\* wait behind the flag.
CancelInv ==
  /\ \A c \in Callers : Attached(c) => port[c] = sess[c]
  /\ \A t \in Threads :
       /\ kpc[t] \in {"force", "notify", "done"} => t[1] \in cancelled
       /\ kpc[t] = "force" /\ Attached(t[1]) => kport[t] = sess[t[1]]
       /\ kpc[t] \in {"notify", "done"} /\ Attached(t[1]) => sess[t[1]] \in forced
  /\ \A c \in Callers :
       kpc[<<c, "user">>] = "done" /\ cpc[c] \in {"poll", "waiting"} => c \in woken

BrokerInv ==
  /\ BrokerTypes /\ PhaseInv /\ QueueInv /\ SlotCount /\ CapacityConserved /\ StartCount
  /\ WarmInv /\ CancelInv

-----------------------------------------------------------------------------
(***************************************************************************)
(* The queue.                                                              *)
(***************************************************************************)

\* v is w without its k-th element.
Without(v, w, k) ==
  /\ v \in Seq(Callers) /\ Len(v) + 1 = Len(w)
  /\ \A i \in 1..Len(v) : v[i] = IF i < k THEN w[i] ELSE w[i + 1]

\* The head leaves the queue.
LEMMA HeadLeaves ==
  ASSUME NEW w \in Seq(Callers), w # <<>>
  PROVE  Without(Tail(w), w, 1) /\ Head(w) = w[1] /\ 1 \in 1..Len(w)
<1>1. Len(w) \in Nat \ {0}
  BY EmptySeq, LenProperties
<1> QED BY <1>1, HeadTailProperties DEF Without

\* A waiter leaves the queue from wherever it is.
LEMMA OneLeaves ==
  ASSUME NEW w \in Seq(Callers), NEW k \in 1..Len(w)
  PROVE  Without(SubSeq(w, 1, k - 1) \o SubSeq(w, k + 1, Len(w)), w, k)
<1> DEFINE a == SubSeq(w, 1, k - 1)
           b == SubSeq(w, k + 1, Len(w))
<1>1. Len(w) \in Nat /\ k \in Nat /\ k >= 1 /\ k <= Len(w) /\ \A i \in 1..Len(w) : w[i] \in Callers
  BY LenProperties, ElementOfSeq
<1>2. /\ a \in Seq(Callers) /\ Len(a) = k - 1
      /\ \A i \in 1..(k - 1) : a[i] = w[i]
  <2>1. 1 \in Int /\ k - 1 \in Int /\ \A i \in 1..(k - 1) : w[i] \in Callers
    BY <1>1
  <2>2. /\ SubSeq(w, 1, k - 1) \in Seq(Callers)
        /\ Len(SubSeq(w, 1, k - 1)) = IF 1 <= k - 1 THEN k - 1 - 1 + 1 ELSE 0
        /\ \A i \in 1..(k - 1 - 1 + 1) : SubSeq(w, 1, k - 1)[i] = w[1 + i - 1]
    BY <2>1, SubSeqProperties
  <2> HIDE DEF a
  <2> QED BY <1>1, <2>2 DEF a
<1>3. /\ b \in Seq(Callers) /\ Len(b) = Len(w) - k
      /\ \A i \in 1..(Len(w) - k) : b[i] = w[k + i]
  <2>1. k + 1 \in Int /\ Len(w) \in Int /\ \A i \in (k + 1)..Len(w) : w[i] \in Callers
    BY <1>1
  <2>2. /\ SubSeq(w, k + 1, Len(w)) \in Seq(Callers)
        /\ Len(SubSeq(w, k + 1, Len(w))) = IF k + 1 <= Len(w) THEN Len(w) - (k + 1) + 1 ELSE 0
        /\ \A i \in 1..(Len(w) - (k + 1) + 1) : SubSeq(w, k + 1, Len(w))[i] = w[k + 1 + i - 1]
    BY <2>1, SubSeqProperties
  <2> HIDE DEF b
  <2> QED BY <1>1, <2>2 DEF b
<1> HIDE DEF a, b
<1>4. /\ a \o b \in Seq(Callers) /\ Len(a \o b) = Len(a) + Len(b)
      /\ \A i \in 1..(Len(a) + Len(b)) : (a \o b)[i] = IF i <= Len(a) THEN a[i] ELSE b[i - Len(a)]
  BY <1>2, <1>3, ConcatProperties
<1>5. Without(a \o b, w, k)
  BY <1>1, <1>2, <1>3, <1>4 DEF Without
<1> QED BY <1>5 DEF a, b

\* The others keep their places.
LEMMA OthersStay ==
  ASSUME NEW w \in Seq(Callers), Once(w), NEW k \in 1..Len(w), NEW v, Without(v, w, k)
  PROVE  Once(v) /\ \A c : In(c, v) <=> In(c, w) /\ c # w[k]
<1>1. Len(w) \in Nat /\ Len(v) \in Nat /\ Len(v) + 1 = Len(w)
  BY LenProperties DEF Without
<1>2. Once(v)
  <2>1. SUFFICES ASSUME NEW i \in 1..Len(v), NEW j \in 1..Len(v), v[i] = v[j] PROVE i = j
    BY DEF Once
  <2> DEFINE Old(n) == IF n < k THEN n ELSE n + 1
  <2>2. /\ v[i] = w[Old(i)] /\ Old(i) \in 1..Len(w)
        /\ v[j] = w[Old(j)] /\ Old(j) \in 1..Len(w)
    BY <1>1, <2>1 DEF Without
  <2>3. Old(i) = Old(j)
    <3> HIDE DEF Old
    <3> QED BY <2>1, <2>2 DEF Once
  <2> QED BY <1>1, <2>3
<1>3. ASSUME NEW c, In(c, v) PROVE In(c, w) /\ c # w[k]
  <2>1. PICK i \in 1..Len(v) : v[i] = c
    BY <1>3 DEF In
  <2>2. CASE i < k
    BY <1>1, <2>1, <2>2 DEF Without, Once, In
  <2>3. CASE ~(i < k)
    BY <1>1, <2>1, <2>3 DEF Without, Once, In
  <2> QED BY <2>2, <2>3
<1>4. ASSUME NEW c, In(c, w), c # w[k] PROVE In(c, v)
  <2>1. PICK i \in 1..Len(w) : w[i] = c
    BY <1>4 DEF In
  <2>2. CASE i < k
    <3>1. i \in 1..Len(v) /\ v[i] = c
      BY <1>1, <2>1, <2>2 DEF Without
    <3> QED BY <3>1 DEF In
  <2>3. CASE i > k
    <3>1. i - 1 \in 1..Len(v) /\ v[i - 1] = c
      BY <1>1, <2>1, <2>3 DEF Without
    <3> QED BY <3>1 DEF In
  <2> QED BY <1>1, <1>4, <2>1, <2>2, <2>3
<1> QED BY <1>2, <1>3, <1>4

\* A waiter that was not in line comes last.
LEMMA OneJoins ==
  ASSUME NEW w \in Seq(Callers), Once(w), NEW c \in Callers, ~In(c, w)
  PROVE  /\ Append(w, c) \in Seq(Callers) /\ Len(Append(w, c)) = Len(w) + 1
         /\ Once(Append(w, c))
         /\ \A d : In(d, Append(w, c)) <=> In(d, w) \/ d = c
<1> DEFINE v == Append(w, c)
<1>1. /\ v \in Seq(Callers) /\ Len(v) = Len(w) + 1 /\ Len(w) \in Nat
      /\ \A i \in 1..Len(w) : v[i] = w[i]
      /\ v[Len(w) + 1] = c
  BY AppendProperties, LenProperties
<1> HIDE DEF v
<1>2. Once(v)
  BY <1>1 DEF Once, In
<1>3. \A d : In(d, v) <=> In(d, w) \/ d = c
  <2>1. ASSUME NEW d, In(d, v) PROVE In(d, w) \/ d = c
    BY <1>1, <2>1 DEF In
  <2>2. ASSUME NEW d, In(d, w) PROVE In(d, v)
    BY <1>1, <2>2 DEF In
  <2>3. In(c, v)
    BY <1>1 DEF In
  <2> QED BY <2>1, <2>2, <2>3
<1> QED BY <1>1, <1>2, <1>3 DEF v

\* A released permit is free or goes with the head of the line; nobody else moves.
LEMMA PermitReleased ==
  ASSUME LineTypes, LineInv, NEW g \in SUBSET granted, ReleasePermit(g)
  PROVE  /\ LineTypes' /\ LineInv'
         /\ Cardinality(g) \in Nat /\ Cardinality(granted') \in Nat
         /\ permits' + Cardinality(granted') = permits + Cardinality(g) + 1
         /\ Len(waiters') + Cardinality(granted') = Len(waiters) + Cardinality(g)
         /\ \A c : Queued(c)' <=> c \in g \/ In(c, waiters)
<1>1. g \subseteq Callers /\ IsFiniteSet(g) /\ Cardinality(g) \in Nat
  BY BrokerAssumption, FS_Subset, FS_CardinalityType DEF LineTypes
<1>2. CASE waiters = <<>>
  <2>1. permits' = permits + 1 /\ granted' = g /\ waiters' = waiters
    BY <1>2 DEF ReleasePermit
  <2>2. \A c : ~In(c, waiters)
    BY <1>2, EmptySeq DEF In
  <2> QED BY <1>1, <1>2, <2>1, <2>2, EmptySeq DEF LineTypes, LineInv, Queued
<1>3. CASE waiters # <<>>
  <2> DEFINE h == Head(waiters)
             v == Tail(waiters)
  <2>1. granted' = g \cup {h} /\ waiters' = v /\ permits' = permits
    BY <1>3 DEF ReleasePermit
  <2>2. Without(v, waiters, 1) /\ h = waiters[1] /\ 1 \in 1..Len(waiters)
    BY <1>3, HeadLeaves DEF LineTypes
  <2> HIDE DEF h, v
  <2>3. Once(v) /\ \A c : In(c, v) <=> In(c, waiters) /\ c # h
    BY <2>2, OthersStay DEF LineTypes, LineInv
  <2>4. In(h, waiters) /\ h \in Callers
    BY <2>2, ElementOfSeq DEF In, LineTypes
  <2>5. h \notin g
    BY <2>4 DEF LineInv
  <2>6. Cardinality(granted') = Cardinality(g) + 1
    BY <1>1, <2>1, <2>5, FS_AddElement
  <2>7. v \in Seq(Callers) /\ Len(v) + 1 = Len(waiters) /\ Len(v) \in Nat /\ Len(waiters) \in Nat
    BY <2>2, LenProperties DEF Without, LineTypes
  <2>8. LineTypes' /\ LineInv'
    <3>1. LineTypes'
      BY <1>1, <2>1, <2>4, <2>7 DEF LineTypes
    <3>2. permits' = 0
      BY <1>3, <2>1 DEF LineInv
    <3>3. Once(waiters') /\ \A c \in granted' : ~In(c, waiters')
      BY <2>1, <2>3 DEF LineInv
    <3> QED BY <3>1, <3>2, <3>3 DEF LineInv
  <2>9. \A c : Queued(c)' <=> c \in g \/ In(c, waiters)
    BY <2>1, <2>3, <2>4 DEF Queued
  <2> QED BY <1>1, <2>1, <2>6, <2>7, <2>8, <2>9 DEF LineTypes
<1> QED BY <1>2, <1>3

\* Who leaves the queue takes no permit along, and nobody else leaves it.
LEMMA QueueLeft ==
  ASSUME LineTypes, LineInv, NEW c \in Callers, LeaveQueue(c)
  PROVE  /\ LineTypes' /\ LineInv'
         /\ Cardinality(granted) \in Nat /\ Cardinality(granted') \in Nat
         /\ permits' + Cardinality(granted') = permits + Cardinality(granted)
         /\ Queued(c) =>
              Len(waiters') + Cardinality(granted') + 1 = Len(waiters) + Cardinality(granted)
         /\ ~Queued(c) =>
              Len(waiters') + Cardinality(granted') = Len(waiters) + Cardinality(granted)
         /\ \A d : Queued(d)' <=> Queued(d) /\ d # c
<1>1. IsFiniteSet(granted) /\ Cardinality(granted) \in Nat /\ Len(waiters) \in Nat
  BY BrokerAssumption, FS_Subset, FS_CardinalityType, LenProperties DEF LineTypes
<1>2. CASE c \in granted /\ ReleasePermit(granted \ {c})
  <2>1. Cardinality(granted \ {c}) + 1 = Cardinality(granted)
    <3>1. Cardinality(granted \ {c}) = Cardinality(granted) - 1
      BY <1>1, <1>2, FS_RemoveElement, Zenon
    <3> QED BY <1>1, <3>1
  <2> DEFINE g == granted \ {c}
  <2>2. /\ LineTypes' /\ LineInv'
        /\ Cardinality(g) \in Nat /\ Cardinality(granted') \in Nat
        /\ permits' + Cardinality(granted') = permits + Cardinality(g) + 1
        /\ Len(waiters') + Cardinality(granted') = Len(waiters) + Cardinality(g)
        /\ \A d : Queued(d)' <=> d \in g \/ In(d, waiters)
    BY <1>2, PermitReleased
  <2>3. \A d : Queued(d)' <=> Queued(d) /\ d # c
    BY <1>2, <2>2 DEF LineInv, Queued
  <2>4. Queued(c)
    BY <1>2 DEF Queued
  <2>5. Len(waiters') \in Nat /\ permits \in Nat /\ permits' \in Nat
    BY <2>2, LenProperties DEF LineTypes
  <2> HIDE DEF g
  <2>6. Cardinality(g) + 1 = Cardinality(granted)
    BY <2>1 DEF g
  <2> QED BY <1>1, <2>2, <2>3, <2>4, <2>5, <2>6
<1>3. ASSUME c \notin granted, permits' = permits, granted' = granted,
             NEW i \in 1..Len(waiters), waiters[i] = c,
             waiters' = SubSeq(waiters, 1, i - 1) \o SubSeq(waiters, i + 1, Len(waiters))
      PROVE  /\ LineTypes' /\ LineInv' /\ Queued(c)
             /\ Len(waiters') + 1 = Len(waiters) /\ Len(waiters') \in Nat
             /\ \A d : Queued(d)' <=> Queued(d) /\ d # c
  <2>1. Without(waiters', waiters, i)
    BY <1>3, OneLeaves DEF LineTypes
  <2>2. Once(waiters') /\ \A d : In(d, waiters') <=> In(d, waiters) /\ d # c
    <3> DEFINE v == waiters'
    <3>1. Without(v, waiters, i)
      BY <2>1
    <3> HIDE DEF v
    <3>2. Once(v) /\ \A d : In(d, v) <=> In(d, waiters) /\ d # waiters[i]
      BY <3>1, OthersStay DEF LineTypes, LineInv
    <3> QED BY <1>3, <3>2 DEF v
  <2>3. waiters' \in Seq(Callers) /\ Len(waiters') + 1 = Len(waiters) /\ Len(waiters') \in Nat
    BY <2>1, LenProperties DEF Without
  <2>4. waiters # <<>> /\ In(c, waiters)
    BY <1>3, EmptySeq DEF In
  <2> QED BY <1>3, <2>2, <2>3, <2>4 DEF LineTypes, LineInv, Queued
<1>4. CASE c \notin granted /\ UNCHANGED <<permits, granted, waiters>>
           /\ \A i \in 1..Len(waiters) : waiters[i] # c
  BY <1>1, <1>4 DEF LineTypes, LineInv, Queued, In
<1>5. CASE /\ c \notin granted /\ UNCHANGED <<permits, granted>>
           /\ \E i \in 1..Len(waiters) :
                /\ waiters[i] = c
                /\ waiters' = SubSeq(waiters, 1, i - 1) \o SubSeq(waiters, i + 1, Len(waiters))
  <2>1. /\ LineTypes' /\ LineInv' /\ Queued(c)
        /\ Len(waiters') + 1 = Len(waiters) /\ Len(waiters') \in Nat
        /\ \A d : Queued(d)' <=> Queued(d) /\ d # c
    BY <1>3, <1>5
  <2>2. granted' = granted /\ permits' = permits
    BY <1>5
  <2>3. Len(waiters') + Cardinality(granted) + 1 = Len(waiters) + Cardinality(granted)
    BY <1>1, <2>1
  <2> QED BY <1>1, <2>1, <2>2, <2>3
<1> QED BY <1>2, <1>4, <1>5 DEF LeaveQueue

-----------------------------------------------------------------------------
(***************************************************************************)
(* Types.                                                                  *)
(***************************************************************************)

\* A call that may start a worker finds one of the sessions unused.
LEMMA RoomToStart ==
  ASSUME BrokerTypes, StartCount, NEW c \in Callers, tpc[c] = "begin"
  PROVE  spawned + 1 \in Sessions
<1>1. IsFiniteSet(Starting)
  BY BrokerAssumption, FS_Subset DEF Starting, Places
<1>2. c \in Starting
  BY DEF Starting
<1>3. Cardinality(Starting) \in Nat /\ Cardinality(Starting) # 0
  BY <1>1, <1>2, FS_EmptySet, FS_CardinalityType
<1> QED BY <1>3, BrokerAssumption DEF StartCount, BrokerTypes, Sessions

\* The worker taken from the stack is its last one.
LEMMA LastTaken ==
  ASSUME NEW w \in Seq(Sessions), w # <<>>
  PROVE  /\ Len(w) \in Nat \ {0} /\ w[Len(w)] \in Sessions
         /\ SubSeq(w, 1, Len(w) - 1) \in Seq(Sessions)
         /\ Len(SubSeq(w, 1, Len(w) - 1)) = Len(w) - 1
         /\ \A i \in 1..(Len(w) - 1) : SubSeq(w, 1, Len(w) - 1)[i] = w[i]
<1>1. Len(w) \in Nat \ {0} /\ \A i \in 1..Len(w) : w[i] \in Sessions
  BY EmptySeq, ElementOfSeq
<1>2. /\ SubSeq(w, 1, Len(w) - 1) \in Seq(Sessions)
      /\ Len(SubSeq(w, 1, Len(w) - 1)) = IF 1 <= Len(w) - 1 THEN Len(w) - 1 - 1 + 1 ELSE 0
      /\ \A i \in 1..(Len(w) - 1 - 1 + 1) : SubSeq(w, 1, Len(w) - 1)[i] = w[1 + i - 1]
  BY <1>1, SubSeqProperties
<1>3. \A i \in 1..(Len(w) - 1) : i \in 1..(Len(w) - 1 - 1 + 1) /\ 1 + i - 1 = i
  BY <1>1
<1>4. \A i \in 1..(Len(w) - 1) : SubSeq(w, 1, Len(w) - 1)[i] = w[i]
  BY <1>2, <1>3
<1>5. Len(SubSeq(w, 1, Len(w) - 1)) = Len(w) - 1
  <2> DEFINE n == Len(w)
             l == Len(SubSeq(w, 1, n - 1))
  <2>1. n \in Nat \ {0} /\ l = IF 1 <= n - 1 THEN n - 1 - 1 + 1 ELSE 0
    BY <1>1, <1>2
  <2> HIDE DEF n, l
  <2>2. l = n - 1
    BY <2>1
  <2> QED BY <2>2 DEF n, l
<1>6. w[Len(w)] \in Sessions
  BY <1>1
<1> QED BY <1>1, <1>2, <1>4, <1>5, <1>6

\* Every step keeps the types.
LEMMA TypeStep == BrokerInv /\ [Next]_vars => BrokerTypes'
<1> SUFFICES ASSUME BrokerInv, [Next]_vars PROVE BrokerTypes'
  OBVIOUS
<1> USE DEF sem, calls, handles, cancels, leases, Go, Task, StartTask, DropHandle, Calling
<1>1. BrokerTypes /\ LineTypes /\ LineInv /\ StartCount
  BY DEF BrokerInv, BrokerTypes, QueueInv
<1>2. ASSUME NEW c \in Callers, CallStep(c) PROVE BrokerTypes'
  <2> DEFINE Moved ==
               /\ cpc' \in [Callers -> Calling \cup {"idle", "open", "dropped"}]
               /\ tpc' \in [Callers -> {"none", "begin", "boot", "attach", "init", "ok", "err"}]
  <2>0. ASSUME \/ Go(c, "try") /\ UNCHANGED tpc
               \/ Go(c, "slot") /\ UNCHANGED tpc
               \/ StartTask(c)
        PROVE  Moved
    BY <1>1, <2>0 DEF BrokerTypes
  <2>1. CASE TakePrewarmed(c)
    <3>1. CASE prewarmed = <<>>
      BY <1>1, <2>0, <2>1, <3>1 DEF TakePrewarmed, BrokerTypes, LineTypes
    <3>2. CASE prewarmed # <<>>
      <4>1. prewarmed[Len(prewarmed)] \in Sessions /\ prewarmed' \in Seq(Sessions)
        <5>1. prewarmed \in Seq(Sessions)
          BY <1>1 DEF BrokerTypes
        <5>2. prewarmed' = SubSeq(prewarmed, 1, Len(prewarmed) - 1)
          BY <2>1, <3>2 DEF TakePrewarmed
        <5> QED BY <3>2, <5>1, <5>2, LastTaken
      <4>2. sess' \in [Callers -> Sessions \cup {NoSession}]
        <5>1. sess \in [Callers -> Sessions \cup {NoSession}]
          BY <1>1 DEF BrokerTypes
        <5>2. sess' = [sess EXCEPT ![c] = prewarmed[Len(prewarmed)]]
          BY <2>1, <3>2 DEF TakePrewarmed
        <5> QED BY <4>1, <5>1, <5>2
      <4>3. Moved /\ UNCHANGED <<sem, slots, bare, starts, woken, handles, cancels, leases>>
        BY <2>0, <2>1, <3>2 DEF TakePrewarmed
      <4> HIDE DEF Go, StartTask, Calling
      <4> QED BY <1>1, <4>1, <4>2, <4>3 DEF BrokerTypes, LineTypes
    <3> QED BY <3>1, <3>2
  <2>2. CASE TryAcquire(c)
    <3>1. /\ Moved
          /\ UNCHANGED <<waiters, granted, slots, prewarmed, sess, starts, woken, handles, cancels,
                         leases>>
      BY <2>0, <2>2 DEF TryAcquire
    <3>2. permits' \in Nat /\ bare' \subseteq Callers
      <4>1. permits \in Nat /\ bare \subseteq Callers
        BY <1>1 DEF BrokerTypes, LineTypes
      <4> HIDE DEF Go, StartTask
      <4>2. \/ permits > 0 /\ permits' = permits - 1 /\ bare' = bare \cup {c}
            \/ UNCHANGED <<permits, bare>>
        BY <2>2 DEF TryAcquire
      <4> QED BY <4>1, <4>2
    <3> HIDE DEF Go, StartTask, Calling
    <3> QED BY <1>1, <3>1, <3>2 DEF BrokerTypes, LineTypes
  <2>3. CASE TakeSlot(c) \/ CheckFlag(c)
    BY <1>1, <2>3, SMTT(30) DEF TakeSlot, CheckFlag, BrokerTypes, LineTypes
  <2>7. CASE DropSlot(c)
    BY <1>1, <2>7 DEF DropSlot, BrokerTypes, LineTypes
  <2>4. CASE PollAcquire(c)
    <3>1. waiters' \in Seq(Callers)
      BY <1>1, <2>4, AppendProperties DEF PollAcquire, LineTypes
    <3>2. LineTypes' /\ bare' \subseteq Callers
      BY <1>1, <2>4, <3>1 DEF PollAcquire, BrokerTypes, LineTypes
    <3>3. \E at \in {"unslot", "waiting"} : cpc' = [cpc EXCEPT ![c] = at]
      BY <2>4 DEF PollAcquire
    <3> QED BY <1>1, <2>4, <3>2, <3>3 DEF PollAcquire, BrokerTypes
  <2>5. CASE QueueCancelled(c) \/ QueueTimesOut(c)
    <3>1. LineTypes'
      BY <1>1, <2>5, QueueLeft DEF QueueCancelled, QueueTimesOut
    <3> QED BY <1>1, <2>5, <3>1 DEF QueueCancelled, QueueTimesOut, BrokerTypes
  <2>6. CASE QueueGranted(c) \/ Join(c)
    BY <1>1, <2>6 DEF QueueGranted, Join, BrokerTypes, LineTypes
  <2> QED BY <1>2, <2>1, <2>2, <2>3, <2>4, <2>5, <2>6, <2>7 DEF CallStep
<1>3. ASSUME NEW c \in Callers, TaskStep(c) PROVE BrokerTypes'
  <2>1. CASE TaskRefuses(c)
    <3>1. LineTypes'
      BY <1>1, <2>1, PermitReleased DEF TaskRefuses, LineTypes
    <3> QED BY <1>1, <2>1, <3>1 DEF TaskRefuses, BrokerTypes
  <2>2. CASE TaskSpawns(c)
    <3>1. LineTypes'
      BY <1>1, <2>2, PermitReleased DEF TaskSpawns, LineTypes
    <3>2. spawned + 1 \in Sessions
      BY <1>1, <2>2, RoomToStart DEF TaskSpawns
    <3> QED BY <1>1, <2>2, <3>1, <3>2 DEF TaskSpawns, BrokerTypes
  <2>3. CASE TaskUsesClean(c) \/ TaskBoots(c)
    BY <1>1, <2>3 DEF TaskUsesClean, TaskBoots, BrokerTypes, LineTypes
  <2>4. CASE TaskAttaches(c) \/ TaskInitialises(c) \/ TaskOrphaned(c)
    <3>1. forced' \subseteq Sessions /\ sess' \in [Callers -> Sessions \cup {NoSession}]
      BY <1>1, <2>4 DEF TaskAttaches, TaskInitialises, TaskOrphaned, BrokerTypes
    <3>2. port' \in [Callers -> Sessions \cup {NoSession}]
      BY <1>1, <2>4 DEF TaskAttaches, TaskInitialises, TaskOrphaned, BrokerTypes
    <3>3. \E at \in {"init", "ok", "err", "none"} : tpc' = [tpc EXCEPT ![c] = at]
      BY <2>4 DEF TaskAttaches, TaskInitialises, TaskOrphaned
    <3> QED BY <1>1, <2>4, <3>1, <3>2, <3>3
            DEF TaskAttaches, TaskInitialises, TaskOrphaned, BrokerTypes, LineTypes
  <2> QED BY <1>3, <2>1, <2>2, <2>3, <2>4 DEF TaskStep
<1>4. ASSUME NEW c \in Callers, UserStep(c) PROVE BrokerTypes'
  <2>1. CASE Begin(c)
    BY <1>1, <2>1, BrokerAssumption DEF Begin, BrokerTypes, LineTypes
  <2>2. CASE DropQueued(c)
    <3>1. LineTypes'
      BY <1>1, <2>2, QueueLeft DEF DropQueued
    <3> QED BY <1>1, <2>2, <3>1 DEF DropQueued, BrokerTypes
  <2>3. CASE DropJoining(c)
    BY <1>1, <2>3 DEF DropJoining, BrokerTypes, LineTypes, Threads
  <2>4. CASE Cancel(c)
    BY <1>1, <2>4 DEF Cancel, BrokerTypes, LineTypes, Threads
  <2>5. CASE EndSession(c)
    <3>1. sess[c] \in Sessions
      BY <1>1, <2>5 DEF EndSession, BrokerInv, PhaseInv, Phase, BrokerTypes
    <3> QED BY <1>1, <2>5, <3>1 DEF EndSession, BrokerTypes, LineTypes
  <2> QED BY <1>4, <2>1, <2>2, <2>3, <2>4, <2>5 DEF UserStep
<1>5. ASSUME NEW t \in Threads, CancelStep(t) PROVE BrokerTypes'
  <2>1. t[1] \in Callers
    BY DEF Threads
  <2>2. CASE CancelLocks(t)
    BY <1>1, <2>1, <2>2 DEF CancelLocks, BrokerTypes, LineTypes
  <2>3. CASE CancelForces(t)
    BY <1>1, <2>1, <2>3 DEF CancelForces, BrokerTypes, LineTypes
  <2>4. CASE CancelNotifies(t)
    BY <1>1, <2>1, <2>4 DEF CancelNotifies, BrokerTypes, LineTypes
  <2> QED BY <1>5, <2>2, <2>3, <2>4 DEF CancelStep
<1>6. ASSUME NEW s \in Sessions, Settle(s) PROVE BrokerTypes'
  <2>1. LineTypes'
    BY <1>1, <1>6, PermitReleased DEF Settle, LineTypes
  <2> QED BY <1>1, <1>6, <2>1 DEF Settle, BrokerTypes
<1>7. CASE UNCHANGED vars
  BY <1>1, <1>7 DEF vars, BrokerTypes, LineTypes
<1> QED BY <1>2, <1>3, <1>4, <1>5, <1>6, <1>7 DEF Next, Finished

-----------------------------------------------------------------------------
(***************************************************************************)
(* Who holds what, and who stands in line.                                 *)
(***************************************************************************)
\* No step takes a caller, its task or its permit out of the positions Phase knows.
LEMMA PhaseStep == BrokerInv /\ [Next]_vars => PhaseInv'
<1> SUFFICES ASSUME BrokerInv, [Next]_vars, NEW d \in Callers PROVE Phase(d)'
  BY DEF PhaseInv
<1> USE DEF sem, calls, handles, cancels, leases, Go, Task, StartTask, DropHandle, Calling
<1>1. BrokerTypes /\ Phase(d) /\ NoSession \notin Sessions
  BY BrokerAssumption DEF BrokerInv, PhaseInv, Sessions
<1>2. ASSUME NEW c \in Callers, CallStep(c) PROVE Phase(d)'
  <2> USE <1>1 DEF PhaseInv, BrokerTypes, Phase
  <2>1. Phase(c)
    BY DEF BrokerInv
  <2>2. CASE TakePrewarmed(c)
    <3>1. CASE prewarmed = <<>>
      BY <2>1, <2>2, <3>1 DEF TakePrewarmed
    <3>2. CASE prewarmed # <<>>
      <4>1. \E s \in Sessions : sess' = [sess EXCEPT ![c] = s]
        BY <2>2, <3>2, LastTaken DEF TakePrewarmed
      <4> QED BY <2>1, <2>2, <3>2, <4>1 DEF TakePrewarmed
    <3> QED BY <3>1, <3>2
  <2>3. CASE TryAcquire(c)
    BY <2>1, <2>3 DEF TryAcquire
  <2>4. CASE TakeSlot(c)
    BY <2>1, <2>4 DEF TakeSlot
  <2>5. CASE CheckFlag(c)
    BY <2>1, <2>5 DEF CheckFlag
  <2>6. CASE PollAcquire(c)
    BY <2>1, <2>6 DEF PollAcquire
  <2>7. CASE QueueCancelled(c)
    BY <2>1, <2>7 DEF QueueCancelled
  <2>8. CASE QueueGranted(c)
    BY <2>1, <2>8 DEF QueueGranted
  <2>9. CASE QueueTimesOut(c)
    BY <2>1, <2>9 DEF QueueTimesOut
  <2>10. CASE DropSlot(c)
    BY <2>1, <2>10 DEF DropSlot
  <2>11. CASE Join(c)
    BY <2>1, <2>11 DEF Join
  <2> QED BY <1>2, <2>2, <2>3, <2>4, <2>5, <2>6, <2>7, <2>8, <2>9, <2>10, <2>11 DEF CallStep
<1>3. ASSUME NEW c \in Callers, TaskStep(c) PROVE Phase(d)'
  <2> USE <1>1 DEF PhaseInv, BrokerTypes, Phase
  <2>1. Phase(c)
    BY DEF BrokerInv
  <2>2. CASE TaskRefuses(c)
    BY <2>1, <2>2 DEF TaskRefuses
  <2>3. CASE TaskUsesClean(c)
    BY <2>1, <2>3 DEF TaskUsesClean
  <2>4. CASE TaskSpawns(c)
    <3>1. spawned + 1 \in Sessions
      BY <2>4, RoomToStart DEF TaskSpawns, BrokerInv
    <3> QED BY <2>1, <2>4, <3>1 DEF TaskSpawns
  <2>5. CASE TaskBoots(c)
    BY <2>1, <2>5 DEF TaskBoots
  <2>6. CASE TaskAttaches(c)
    BY <2>1, <2>6 DEF TaskAttaches
  <2>7. CASE TaskInitialises(c)
    BY <2>1, <2>7 DEF TaskInitialises
  <2>8. CASE TaskOrphaned(c)
    BY <2>1, <2>8 DEF TaskOrphaned
  <2> QED BY <1>3, <2>2, <2>3, <2>4, <2>5, <2>6, <2>7, <2>8 DEF TaskStep
<1>4. ASSUME NEW c \in Callers, UserStep(c) PROVE Phase(d)'
  <2> USE <1>1 DEF PhaseInv, BrokerTypes, Phase
  <2>1. Phase(c)
    BY DEF BrokerInv
  <2>2. CASE Begin(c)
    BY <2>1, <2>2 DEF Begin
  <2>3. CASE DropQueued(c)
    BY <2>1, <2>3 DEF DropQueued
  <2>4. CASE DropJoining(c)
    BY <2>1, <2>4 DEF DropJoining
  <2>5. CASE EndSession(c)
    BY <2>1, <2>5 DEF EndSession
  <2>6. CASE Cancel(c)
    BY <2>6 DEF Cancel
  <2> QED BY <1>4, <2>2, <2>3, <2>4, <2>5, <2>6 DEF UserStep
<1>5. CASE UNCHANGED <<prewarmed, cpc, bare, sess, tpc>>
  BY <1>1, <1>5 DEF Phase
<1>6. ASSUME NEW t \in Threads, CancelStep(t) PROVE Phase(d)'
  BY <1>5, <1>6 DEF CancelStep, CancelLocks, CancelForces, CancelNotifies
<1>7. ASSUME NEW s \in Sessions, Settle(s) PROVE Phase(d)'
  BY <1>5, <1>7 DEF Settle
<1>8. CASE UNCHANGED vars
  BY <1>5, <1>8 DEF vars
<1> QED BY <1>2, <1>3, <1>4, <1>6, <1>7, <1>8 DEF Next, Finished

\* Every step keeps the queue in order, its callers waiting and its head told of a place.
LEMMA QueueStep == BrokerInv /\ [Next]_vars => QueueInv'
<1> SUFFICES ASSUME BrokerInv, [Next]_vars PROVE QueueInv'
  OBVIOUS
<1> USE DEF sem, calls, handles, cancels, leases, Go, Task, StartTask, Calling
<1>1. /\ LineTypes /\ LineInv /\ cpc \in [Callers -> Calling \cup {"idle", "open", "dropped"}]
      /\ \A c \in Callers : cpc[c] = "waiting" <=> Queued(c)
  BY DEF BrokerInv, BrokerTypes, QueueInv
\* A step that moves nobody into the line or out of it.
<1>2. ASSUME UNCHANGED sem, \A c \in Callers : cpc'[c] = "waiting" <=> cpc[c] = "waiting"
      PROVE  QueueInv'
  BY <1>1, <1>2 DEF QueueInv, LineInv, Queued
<1>3. ASSUME ReleasePermit(granted), UNCHANGED cpc PROVE QueueInv'
  <2>1. LineInv' /\ \A c : Queued(c)' <=> Queued(c)
    BY <1>1, <1>3, PermitReleased DEF Queued
  <2> QED BY <1>1, <1>3, <2>1 DEF QueueInv
<1>4. ASSUME NEW c \in Callers, LeaveQueue(c), Go(c, "unslot") PROVE QueueInv'
  <2>1. LineInv' /\ \A d : Queued(d)' <=> Queued(d) /\ d # c
    BY <1>1, <1>4, QueueLeft
  <2> QED BY <1>1, <1>4, <2>1 DEF QueueInv
<1>5. ASSUME NEW c \in Callers, CallStep(c) PROVE QueueInv'
  <2>1. CASE TakePrewarmed(c) \/ TakeSlot(c) \/ CheckFlag(c) \/ DropSlot(c) \/ Join(c)
    <3>1. UNCHANGED sem
      BY <2>1 DEF TakePrewarmed, TakeSlot, CheckFlag, DropSlot, Join
    <3>2. \E at \in {"joining", "try", "check", "idle", "unslot", "poll", "open"} :
            cpc' = [cpc EXCEPT ![c] = at]
      BY <2>1 DEF TakePrewarmed, TakeSlot, CheckFlag, DropSlot, Join
    <3>3. cpc[c] # "waiting"
      BY <2>1 DEF TakePrewarmed, TakeSlot, CheckFlag, DropSlot, Join
    <3> QED BY <1>1, <1>2, <3>1, <3>2, <3>3
  <2>2. CASE TryAcquire(c)
    BY <1>1, <2>2 DEF TryAcquire, QueueInv, LineInv, LineTypes, Queued
  <2>3. CASE PollAcquire(c)
    <3>1. CASE permits > 0
      BY <1>1, <2>3, <3>1 DEF PollAcquire, QueueInv, LineInv, LineTypes, Queued
    <3>2. CASE permits = 0
      <4>1. ~Queued(c) /\ waiters' = Append(waiters, c) /\ granted' = granted
        BY <1>1, <2>3, <3>2 DEF PollAcquire
      <4>2. Once(waiters') /\ \A d : In(d, waiters') <=> In(d, waiters) \/ d = c
        BY <1>1, <4>1, OneJoins DEF LineTypes, LineInv, Queued
      <4> QED BY <1>1, <2>3, <3>2, <4>1, <4>2 DEF PollAcquire, QueueInv, LineInv, Queued
    <3> QED BY <1>1, <2>3, <3>1, <3>2 DEF PollAcquire
  <2>4. CASE QueueCancelled(c) \/ QueueTimesOut(c)
    BY <1>4, <2>4 DEF QueueCancelled, QueueTimesOut
  <2>5. CASE QueueGranted(c)
    BY <1>1, <2>5 DEF QueueGranted, QueueInv, LineInv, Queued
  <2> QED BY <1>5, <2>1, <2>2, <2>3, <2>4, <2>5 DEF CallStep
<1>6. ASSUME NEW c \in Callers, TaskStep(c) PROVE QueueInv'
  BY <1>2, <1>3, <1>6 DEF TaskStep, TaskRefuses, TaskUsesClean, TaskSpawns, TaskBoots, TaskAttaches,
                          TaskInitialises, TaskOrphaned
<1>7. ASSUME NEW c \in Callers, UserStep(c) PROVE QueueInv'
  <2>1. CASE DropQueued(c)
    BY <1>4, <2>1 DEF DropQueued
  <2>2. CASE Begin(c) \/ DropJoining(c) \/ EndSession(c) \/ Cancel(c)
    <3>1. UNCHANGED sem
      BY <2>2 DEF Begin, DropJoining, EndSession, Cancel
    <3>2. \/ UNCHANGED cpc
          \/ /\ \E at \in {"idle", "pop", "dropped"} : cpc' = [cpc EXCEPT ![c] = at]
             /\ cpc[c] # "waiting"
      BY <2>2 DEF Begin, DropJoining, EndSession, Cancel
    <3> QED BY <1>1, <1>2, <3>1, <3>2
  <2> QED BY <1>7, <2>1, <2>2 DEF UserStep
<1>8. ASSUME NEW t \in Threads, CancelStep(t) PROVE QueueInv'
  BY <1>2, <1>8 DEF CancelStep, CancelLocks, CancelForces, CancelNotifies
<1>9. ASSUME NEW s \in Sessions, Settle(s) PROVE QueueInv'
  BY <1>2, <1>3, <1>9 DEF Settle
<1>10. CASE UNCHANGED vars
  BY <1>2, <1>10 DEF vars
<1> QED BY <1>5, <1>6, <1>7, <1>8, <1>9, <1>10 DEF Next, Finished

-----------------------------------------------------------------------------
(***************************************************************************)
(* Counting: queue slots, permits, workers that may still start.           *)
(***************************************************************************)

\* One caller's move changes the number at any set of places by one at most.
LEMMA Moves ==
  ASSUME BrokerTypes, NEW c \in Callers, NEW at, Go(c, at), NEW set
  PROVE  LET n == Cardinality(Places(set))
             m == Cardinality(Places(set)')
         IN  /\ n \in Nat /\ m \in Nat
             /\ (cpc[c] \in set <=> at \in set) => m = n
             /\ cpc[c] \notin set /\ at \in set => m = n + 1
             /\ cpc[c] \in set /\ at \notin set => m + 1 = n
<1> DEFINE S == Places(set)
           T == Places(set)'
<1>1. IsFiniteSet(S) /\ Cardinality(S) \in Nat
  BY BrokerAssumption, FS_Subset, FS_CardinalityType DEF Places
<1>2. IsFiniteSet(T) /\ Cardinality(T) \in Nat
  BY BrokerAssumption, FS_Subset, FS_CardinalityType DEF Places
<1>3. cpc' = [cpc EXCEPT ![c] = at] /\ cpc \in [Callers -> Calling \cup {"idle", "open", "dropped"}]
  BY DEF Go, BrokerTypes
<1>4. c \in S <=> cpc[c] \in set
  BY DEF Places
<1>5. CASE at \in set
  <2>1. T = S \cup {c}
    BY <1>3, <1>5 DEF Places
  <2> HIDE DEF S, T
  <2>2. Cardinality(T) = IF c \in S THEN Cardinality(S) ELSE Cardinality(S) + 1
    BY <1>1, <2>1, FS_AddElement
  <2>3. /\ c \in S => Cardinality(T) = Cardinality(S)
        /\ c \notin S => Cardinality(T) = Cardinality(S) + 1
    BY <2>2
  <2> QED BY <1>1, <1>2, <1>4, <1>5, <2>3 DEF S, T
<1>6. CASE at \notin set
  <2>1. T = S \ {c}
    BY <1>3, <1>6 DEF Places
  <2> HIDE DEF S, T
  <2>2. Cardinality(T) = IF c \in S THEN Cardinality(S) - 1 ELSE Cardinality(S)
    BY <1>1, <2>1, FS_RemoveElement
  <2>3. /\ c \notin S => Cardinality(T) = Cardinality(S)
        /\ c \in S => Cardinality(T) + 1 = Cardinality(S)
    BY <1>1, <2>2
  <2> QED BY <1>1, <1>2, <1>4, <1>6, <2>3 DEF S, T
<1> QED BY <1>5, <1>6

\* Queue slots change hands, but none is lost and none comes from nowhere.
LEMMA SlotStep == BrokerInv /\ [Next]_vars => SlotCount'
<1> SUFFICES ASSUME BrokerInv, [Next]_vars PROVE SlotCount'
  OBVIOUS
<1> DEFINE P == {"check", "poll", "unslot"}
<1> USE DEF sem, calls, handles, cancels, leases, Task, StartTask
<1>1. /\ BrokerTypes /\ LineTypes /\ LineInv /\ slots \in Nat /\ QueueCapacity \in Nat
      /\ Len(waiters) \in Nat
      /\ IsFiniteSet(granted) /\ Cardinality(granted) \in Nat
      /\ Cardinality(Places(P)) \in Nat
      /\ \A c \in Callers : cpc[c] = "waiting" <=> Queued(c)
      /\ slots + Len(waiters) + Cardinality(granted) + Cardinality(Places(P)) = QueueCapacity
  <2>1. BrokerTypes /\ LineTypes /\ LineInv /\ SlotCount
    BY DEF BrokerInv, BrokerTypes, QueueInv
  <2>2. IsFiniteSet(granted) /\ Cardinality(granted) \in Nat
    BY <2>1, BrokerAssumption, FS_Subset, FS_CardinalityType DEF LineTypes
  <2>3. IsFiniteSet(Places(P)) /\ Cardinality(Places(P)) \in Nat
    BY BrokerAssumption, FS_Subset, FS_CardinalityType DEF Places
  <2> QED BY <2>1, <2>2, <2>3, BrokerAssumption, LenProperties
          DEF LineTypes, BrokerTypes, SlotCount, BrokerInv, QueueInv
<1>2. ASSUME UNCHANGED <<slots, cpc>>,
             Len(waiters') + Cardinality(granted') = Len(waiters) + Cardinality(granted),
             Len(waiters') \in Nat, Cardinality(granted') \in Nat
      PROVE  SlotCount'
  BY <1>1, <1>2 DEF SlotCount, Places
<1>3. ASSUME ReleasePermit(granted), UNCHANGED <<slots, cpc>> PROVE SlotCount'
  <2>1. /\ Len(waiters') + Cardinality(granted') = Len(waiters) + Cardinality(granted)
        /\ LineTypes' /\ Cardinality(granted') \in Nat
    BY <1>1, <1>3, PermitReleased
  <2>2. Len(waiters') \in Nat
    BY <2>1, LenProperties DEF LineTypes
  <2> QED BY <1>2, <1>3, <2>1, <2>2
<1>4. ASSUME UNCHANGED <<slots, waiters, granted, cpc>> PROVE SlotCount'
  BY <1>1, <1>2, <1>4
\* A move between places that hold no slot, or that both do.
<1>5. ASSUME UNCHANGED <<slots, waiters, granted>>, NEW c \in Callers, NEW at, Go(c, at),
             cpc[c] \in P <=> at \in P
      PROVE  SlotCount'
  <2>1. Cardinality(Places(P)') = Cardinality(Places(P))
    BY <1>1, <1>5, Moves
  <2> HIDE DEF P
  <2>2. slots' + Len(waiters') + Cardinality(granted') + Cardinality(Places(P)') = QueueCapacity
    BY <1>1, <1>5, <2>1
  <2> QED BY <2>2 DEF SlotCount, P
<1>6. ASSUME NEW c \in Callers, LeaveQueue(c), Go(c, "unslot"), cpc[c] \in {"poll", "waiting"},
             UNCHANGED slots
      PROVE  SlotCount'
  <2>1. /\ Cardinality(granted') \in Nat /\ LineTypes'
        /\ Queued(c) => Len(waiters') + Cardinality(granted') + 1
                          = Len(waiters) + Cardinality(granted)
        /\ ~Queued(c) => Len(waiters') + Cardinality(granted') = Len(waiters) + Cardinality(granted)
    BY <1>1, <1>6, QueueLeft
  <2>2. Len(waiters') \in Nat
    BY <2>1, LenProperties DEF LineTypes
  <2>3. /\ Cardinality(Places(P)') \in Nat
        /\ cpc[c] \notin P => Cardinality(Places(P)') = Cardinality(Places(P)) + 1
        /\ cpc[c] \in P => Cardinality(Places(P)') = Cardinality(Places(P))
    BY <1>1, <1>6, Moves
  <2>4. Queued(c) <=> cpc[c] \notin P
    BY <1>1, <1>6
  <2> HIDE DEF P
  <2>5. /\ slots \in Nat /\ slots' = slots
        /\ Len(waiters) \in Nat /\ Cardinality(granted) \in Nat /\ Cardinality(Places(P)) \in Nat
        /\ slots + Len(waiters) + Cardinality(granted) + Cardinality(Places(P)) = QueueCapacity
    BY <1>1, <1>6
  <2>6. CASE Queued(c)
    <3>1. /\ Len(waiters') + Cardinality(granted') + 1 = Len(waiters) + Cardinality(granted)
          /\ Cardinality(Places(P)') = Cardinality(Places(P)) + 1
      BY <2>1, <2>3, <2>4, <2>6
    <3>2. slots' + Len(waiters') + Cardinality(granted') + Cardinality(Places(P)') = QueueCapacity
      BY <2>1, <2>2, <2>5, <3>1, SMTT(30)
    <3> QED BY <3>2 DEF SlotCount, P
  <2>7. CASE ~Queued(c)
    <3>1. /\ Len(waiters') + Cardinality(granted') = Len(waiters) + Cardinality(granted)
          /\ Cardinality(Places(P)') = Cardinality(Places(P))
      BY <2>1, <2>3, <2>4, <2>7
    <3>2. slots' + Len(waiters') + Cardinality(granted') + Cardinality(Places(P)') = QueueCapacity
      BY <2>1, <2>2, <2>5, <3>1
    <3> QED BY <3>2 DEF SlotCount, P
  <2> QED BY <2>6, <2>7
<1>7. ASSUME NEW c \in Callers, CallStep(c) PROVE SlotCount'
  <2>1. CASE TakePrewarmed(c)
    BY <1>5, <2>1 DEF TakePrewarmed
  <2>2. CASE TryAcquire(c)
    BY <1>5, <2>2 DEF TryAcquire
  <2>3. CASE TakeSlot(c)
    <3>1. CASE slots = 0
      BY <1>5, <2>3, <3>1, SMTT(20) DEF TakeSlot
    <3>2. CASE slots > 0
      <4>1. /\ Cardinality(Places(P)') = Cardinality(Places(P)) + 1
            /\ slots' = slots - 1 /\ UNCHANGED <<waiters, granted>>
        BY <1>1, <2>3, <3>2, Moves DEF TakeSlot
      <4> HIDE DEF P
      <4>2. slots' + Len(waiters') + Cardinality(granted') + Cardinality(Places(P)') = QueueCapacity
        BY <1>1, <4>1
      <4> QED BY <4>2 DEF SlotCount, P
    <3> QED BY <2>3, <3>1, <3>2 DEF TakeSlot
  <2>4. CASE CheckFlag(c)
    BY <1>5, <2>4 DEF CheckFlag
  <2>5. CASE PollAcquire(c)
    <3>1. CASE permits > 0
      BY <1>5, <2>5, <3>1 DEF PollAcquire
    <3>2. CASE permits = 0
      <4>1. /\ Cardinality(Places(P)') + 1 = Cardinality(Places(P))
            /\ Cardinality(Places(P)') \in Nat
            /\ waiters' = Append(waiters, c) /\ UNCHANGED <<slots, granted>>
        BY <1>1, <2>5, <3>2, Moves DEF PollAcquire
      <4>2. Len(waiters') = Len(waiters) + 1
        BY <1>1, <4>1, AppendProperties DEF LineTypes
      <4> HIDE DEF P
      <4>3. slots' + Len(waiters') + Cardinality(granted') + Cardinality(Places(P)') = QueueCapacity
        BY <1>1, <4>1, <4>2
      <4> QED BY <4>3 DEF SlotCount, P
    <3> QED BY <1>1, <2>5, <3>1, <3>2 DEF PollAcquire
  <2>6. CASE QueueCancelled(c) \/ QueueTimesOut(c)
    BY <1>6, <2>6 DEF QueueCancelled, QueueTimesOut
  <2>7. CASE QueueGranted(c)
    <3>1. /\ Cardinality(Places(P)') = Cardinality(Places(P)) + 1
          /\ c \in granted /\ granted' = granted \ {c} /\ UNCHANGED <<slots, waiters>>
      BY <1>1, <2>7, Moves DEF QueueGranted
    <3>2. Cardinality(granted') = Cardinality(granted) - 1
      BY <1>1, <3>1, FS_RemoveElement
    <3> HIDE DEF P
    <3>3. slots' + Len(waiters') + Cardinality(granted') + Cardinality(Places(P)') = QueueCapacity
      BY <1>1, <3>1, <3>2
    <3> QED BY <3>3 DEF SlotCount, P
  <2>8. CASE DropSlot(c)
    <3>1. \E at \in {"joining", "idle"} : Go(c, at)
      BY <2>8 DEF DropSlot
    <3>2. /\ Cardinality(Places(P)') + 1 = Cardinality(Places(P))
          /\ Cardinality(Places(P)') \in Nat
          /\ slots' = slots + 1 /\ UNCHANGED <<waiters, granted>>
      BY <1>1, <2>8, <3>1, Moves DEF DropSlot
    <3> HIDE DEF P
    <3>3. slots' + Len(waiters') + Cardinality(granted') + Cardinality(Places(P)') = QueueCapacity
      BY <1>1, <3>2
    <3> QED BY <3>3 DEF SlotCount, P
  <2>9. CASE Join(c)
    BY <1>5, <2>9 DEF Join
  <2> QED BY <1>7, <2>1, <2>2, <2>3, <2>4, <2>5, <2>6, <2>7, <2>8, <2>9 DEF CallStep
<1>8. ASSUME NEW c \in Callers, TaskStep(c) PROVE SlotCount'
  BY <1>3, <1>4, <1>8 DEF TaskStep, TaskRefuses, TaskUsesClean, TaskSpawns, TaskBoots, TaskAttaches,
                          TaskInitialises, TaskOrphaned
<1>9. ASSUME NEW c \in Callers, UserStep(c) PROVE SlotCount'
  <2>1. CASE Begin(c)
    BY <1>5, <2>1 DEF Begin
  <2>2. CASE DropQueued(c)
    BY <1>6, <2>2 DEF DropQueued
  <2>3. CASE DropJoining(c)
    BY <1>5, <2>3 DEF DropJoining
  <2>4. CASE EndSession(c)
    BY <1>5, <2>4 DEF EndSession
  <2>5. CASE Cancel(c)
    BY <1>4, <2>5 DEF Cancel
  <2> QED BY <1>9, <2>1, <2>2, <2>3, <2>4, <2>5 DEF UserStep
<1>10. ASSUME NEW t \in Threads, CancelStep(t) PROVE SlotCount'
  BY <1>4, <1>10 DEF CancelStep, CancelLocks, CancelForces, CancelNotifies
<1>11. ASSUME NEW s \in Sessions, Settle(s) PROVE SlotCount'
  BY <1>3, <1>4, <1>11 DEF Settle
<1>12. CASE UNCHANGED vars
  BY <1>4, <1>12 DEF vars
<1> QED BY <1>7, <1>8, <1>9, <1>10, <1>11, <1>12 DEF Next, Finished

\* Every permit stays accounted for.
LEMMA CapacityStep == BrokerInv /\ [Next]_vars => CapacityConserved'
<1> SUFFICES ASSUME BrokerInv, [Next]_vars PROVE CapacityConserved'
  OBVIOUS
<1> USE DEF sem, calls, handles, cancels, leases, Task, StartTask, DropHandle
<1>1. /\ BrokerTypes /\ LineTypes /\ LineInv /\ permits \in Nat /\ MaxSessions \in Nat
      /\ IsFiniteSet(granted) /\ Cardinality(granted) \in Nat
      /\ IsFiniteSet(bare) /\ Cardinality(bare) \in Nat
      /\ IsFiniteSet(Held) /\ Cardinality(Held) \in Nat
      /\ permits + Cardinality(granted) + Cardinality(bare) + Cardinality(Held) = MaxSessions
      /\ PhaseInv /\ lease \in [Sessions -> {"unused", "held", "released", "retained"}]
      /\ \A s \in Sessions : lease[s] = "unused" <=> s > spawned
  <2>1. BrokerTypes /\ LineTypes /\ LineInv /\ CapacityConserved /\ PhaseInv /\ WarmInv
    BY DEF BrokerInv, BrokerTypes, QueueInv
  <2>2. IsFiniteSet(granted) /\ IsFiniteSet(bare)
    BY <2>1, BrokerAssumption, FS_Subset DEF LineTypes, BrokerTypes
  <2>3. IsFiniteSet(Sessions)
    BY BrokerAssumption, FS_Interval DEF Sessions
  <2>4. IsFiniteSet(Held)
    BY <2>3, FS_Subset DEF Held
  <2> QED BY <2>1, <2>2, <2>4, FS_CardinalityType, BrokerAssumption
          DEF LineTypes, BrokerTypes, CapacityConserved, Held, WarmInv
<1>2. ASSUME UNCHANGED <<permits, granted, bare, lease>> PROVE CapacityConserved'
  BY <1>2 DEF BrokerInv, CapacityConserved
<1>3. ASSUME permits' + Cardinality(granted') = permits + Cardinality(granted),
             LineTypes', Cardinality(granted') \in Nat, UNCHANGED <<bare, lease>>
      PROVE  CapacityConserved'
  <2>1. permits' + Cardinality(granted') + Cardinality(bare) + Cardinality(Held) = MaxSessions
    BY <1>1, <1>3 DEF LineTypes
  <2> QED BY <1>3, <2>1 DEF CapacityConserved, Held
\* One permit comes back: from a call or from a session.
<1>4. ASSUME ReleasePermit(granted), Cardinality(bare') \in Nat, Cardinality(Held') \in Nat,
             Cardinality(bare') + Cardinality(Held') + 1 = Cardinality(bare) + Cardinality(Held)
      PROVE  CapacityConserved'
  <2>1. /\ permits' + Cardinality(granted') = permits + Cardinality(granted) + 1
        /\ LineTypes' /\ Cardinality(granted') \in Nat
    BY <1>1, <1>4, PermitReleased
  <2>2. permits' \in Nat
    BY <2>1 DEF LineTypes
  <2>3. permits' + Cardinality(granted') + Cardinality(bare') + Cardinality(Held') = MaxSessions
    BY <1>1, <1>4, <2>1, <2>2
  <2> QED BY <2>3 DEF CapacityConserved, Held
<1>5. ASSUME NEW c \in Callers, permits > 0, permits' = permits - 1, bare' = bare \cup {c},
             c \notin bare, UNCHANGED <<granted, lease>>
      PROVE  CapacityConserved'
  <2>1. Cardinality(bare') = Cardinality(bare) + 1
    BY <1>1, <1>5, FS_AddElement
  <2>2. permits' + Cardinality(granted) + Cardinality(bare') + Cardinality(Held) = MaxSessions
    BY <1>1, <1>5, <2>1
  <2> QED BY <1>5, <2>2 DEF CapacityConserved, Held
<1>6. ASSUME NEW c \in Callers, CallStep(c) PROVE CapacityConserved'
  <2>1. CASE TakePrewarmed(c) \/ TakeSlot(c) \/ CheckFlag(c) \/ DropSlot(c) \/ Join(c)
    BY <1>2, <2>1 DEF TakePrewarmed, TakeSlot, CheckFlag, DropSlot, Join
  <2>2. CASE TryAcquire(c) \/ PollAcquire(c)
    <3>1. c \notin bare
      BY <1>1, <2>2 DEF TryAcquire, PollAcquire, PhaseInv, Phase
    <3> QED BY <1>2, <1>5, <2>2, <3>1 DEF TryAcquire, PollAcquire
  <2>3. CASE QueueCancelled(c) \/ QueueTimesOut(c)
    BY <1>1, <1>3, <2>3, QueueLeft DEF QueueCancelled, QueueTimesOut
  <2>4. CASE QueueGranted(c)
    <3>1. c \notin bare /\ c \in granted
      BY <1>1, <2>4 DEF QueueGranted, PhaseInv, Phase
    <3>2. Cardinality(bare') = Cardinality(bare) + 1
      BY <1>1, <2>4, <3>1, FS_AddElement DEF QueueGranted
    <3>3. Cardinality(granted') = Cardinality(granted) - 1
      BY <1>1, <2>4, <3>1, FS_RemoveElement DEF QueueGranted
    <3>4. permits' = permits /\ lease' = lease
      BY <2>4 DEF QueueGranted
    <3>5. permits' + Cardinality(granted') + Cardinality(bare') + Cardinality(Held) = MaxSessions
      BY <1>1, <3>2, <3>3, <3>4
    <3> QED BY <3>4, <3>5 DEF CapacityConserved, Held
  <2> QED BY <1>6, <2>1, <2>2, <2>3, <2>4 DEF CallStep
\* A permit leaves a call.
<1>7. ASSUME NEW c \in Callers, c \in bare, bare' = bare \ {c}
      PROVE  Cardinality(bare') \in Nat /\ Cardinality(bare') + 1 = Cardinality(bare)
  <2>1. Cardinality(bare') = Cardinality(bare) - 1 /\ IsFiniteSet(bare')
    BY <1>1, <1>7, FS_RemoveElement
  <2>2. Cardinality(bare') \in Nat
    BY <2>1, FS_CardinalityType
  <2> QED BY <1>1, <2>1, <2>2
<1>8. ASSUME NEW c \in Callers, TaskStep(c) PROVE CapacityConserved'
  <2>1. CASE TaskRefuses(c)
    <3>1. CASE c \in bare
      <4>1. lease' = lease /\ Held' = Held
        BY <2>1 DEF TaskRefuses, Held
      <4>2. Cardinality(bare') \in Nat /\ Cardinality(bare') + 1 = Cardinality(bare)
        BY <1>7, <2>1, <3>1 DEF TaskRefuses
      <4> QED BY <1>1, <1>4, <2>1, <3>1, <4>1, <4>2 DEF TaskRefuses
    <3>2. CASE c \notin bare
      BY <1>2, <2>1, <3>2 DEF TaskRefuses
    <3> QED BY <3>1, <3>2
  <2>2. CASE TaskSpawns(c)
    <3>1. Cardinality(bare') \in Nat /\ Cardinality(bare') + 1 = Cardinality(bare)
      BY <1>7, <2>2 DEF TaskSpawns
    <3>2. CASE c \in cancelled
      <4>1. Held' = Held
        BY <2>2, <3>2 DEF TaskSpawns, Held
      <4> QED BY <1>1, <1>4, <2>2, <3>1, <3>2, <4>1 DEF TaskSpawns
    <3>3. CASE c \notin cancelled
      <4>1. spawned + 1 \in Sessions /\ lease[spawned + 1] = "unused"
        <5>1. spawned + 1 \in Sessions /\ spawned \in Nat
          BY <1>1, <2>2, RoomToStart DEF TaskSpawns, BrokerInv, BrokerTypes
        <5> QED BY <1>1, <5>1
      <4>2. Held' = Held \cup {spawned + 1} /\ spawned + 1 \notin Held
        BY <1>1, <2>2, <3>3, <4>1 DEF TaskSpawns, Held
      <4>3. Cardinality(Held') = Cardinality(Held) + 1
        BY <1>1, <4>2, FS_AddElement
      <4>4. permits' = permits /\ granted' = granted
        BY <2>2, <3>3 DEF TaskSpawns
      <4>5. permits' + Cardinality(granted') + Cardinality(bare') + Cardinality(Held') = MaxSessions
        BY <1>1, <3>1, <4>3, <4>4
      <4> QED BY <4>5 DEF CapacityConserved, Held
    <3> QED BY <3>2, <3>3
  <2>3. CASE TaskUsesClean(c) \/ TaskBoots(c) \/ TaskAttaches(c) \/ TaskInitialises(c)
               \/ TaskOrphaned(c)
    BY <1>2, <2>3 DEF TaskUsesClean, TaskBoots, TaskAttaches, TaskInitialises, TaskOrphaned
  <2> QED BY <1>8, <2>1, <2>2, <2>3 DEF TaskStep
<1>9. ASSUME NEW c \in Callers, UserStep(c) PROVE CapacityConserved'
  <2>1. CASE DropQueued(c)
    BY <1>1, <1>3, <2>1, QueueLeft DEF DropQueued
  <2>2. CASE Begin(c) \/ DropJoining(c) \/ EndSession(c) \/ Cancel(c)
    BY <1>2, <2>2 DEF Begin, DropJoining, EndSession, Cancel
  <2> QED BY <1>9, <2>1, <2>2 DEF UserStep
<1>10. ASSUME NEW t \in Threads, CancelStep(t) PROVE CapacityConserved'
  BY <1>2, <1>10 DEF CancelStep, CancelLocks, CancelForces, CancelNotifies
<1>11. ASSUME NEW s \in Sessions, Settle(s) PROVE CapacityConserved'
  <2>1. s \in Held /\ bare' = bare
    BY <1>11 DEF Settle, Held
  <2>2. CASE lease' = [lease EXCEPT ![s] = "released"] /\ ReleasePermit(granted)
    <3>1. Held' = Held \ {s}
      BY <1>1, <2>2 DEF Held
    <3>2. Cardinality(Held') = Cardinality(Held) - 1 /\ IsFiniteSet(Held')
      BY <1>1, <2>1, <3>1, FS_RemoveElement
    <3>3. Cardinality(Held') \in Nat
      BY <3>2, FS_CardinalityType
    <3> QED BY <1>1, <1>4, <2>1, <2>2, <3>2, <3>3
  <2>3. CASE lease' = [lease EXCEPT ![s] = "retained"] /\ UNCHANGED sem
    <3>1. Held' = Held
      BY <1>1, <2>1, <2>3 DEF Held
    <3> QED BY <1>1, <2>1, <2>3, <3>1 DEF CapacityConserved, Held
  <2> QED BY <1>11, <2>2, <2>3 DEF Settle
<1>12. CASE UNCHANGED vars
  BY <1>2, <1>12 DEF vars
<1> QED BY <1>6, <1>8, <1>9, <1>10, <1>11, <1>12 DEF Next, Finished

\* A call asks for one worker at most.
LEMMA StartStep == BrokerInv /\ [Next]_vars => StartCount'
<1> SUFFICES ASSUME BrokerInv, [Next]_vars PROVE StartCount'
  OBVIOUS
<1> USE DEF sem, calls, handles, cancels, leases, Go, Task, StartTask
<1>1. /\ IsFiniteSet(Starting) /\ Cardinality(Starting) \in Nat
      /\ spawned \in Nat /\ starts \in Nat /\ Prewarm \in Nat
      /\ spawned + Cardinality(Starting) <= Prewarm + starts
      /\ cpc \in [Callers -> Calling \cup {"idle", "open", "dropped"}]
      /\ tpc \in [Callers -> {"none", "begin", "boot", "attach", "init", "ok", "err"}]
      /\ PhaseInv
  <2>1. IsFiniteSet(Starting)
    BY BrokerAssumption, FS_Subset DEF Starting, Places
  <2> QED BY <2>1, FS_CardinalityType, BrokerAssumption DEF BrokerInv, BrokerTypes, StartCount
<1>2. ASSUME Starting' = Starting, UNCHANGED <<starts, spawned>> PROVE StartCount'
  BY <1>1, <1>2 DEF StartCount
<1>3. ASSUME NEW c \in Callers, Starting' = Starting \ {c}, UNCHANGED <<starts, spawned>>
      PROVE  StartCount'
  <2>1. Cardinality(Starting') = IF c \in Starting THEN Cardinality(Starting) - 1
                                                   ELSE Cardinality(Starting)
    BY <1>1, <1>3, FS_RemoveElement
  <2> HIDE DEF Starting
  <2> QED BY <1>1, <1>3, <2>1 DEF StartCount
<1>4. ASSUME UNCHANGED <<cpc, tpc, starts, spawned>> PROVE StartCount'
  BY <1>2, <1>4 DEF Starting, Places
<1>5. ASSUME NEW c \in Callers, CallStep(c) PROVE StartCount'
  <2>1. UNCHANGED <<starts, spawned>>
    BY <1>5 DEF CallStep, TakePrewarmed, TryAcquire, TakeSlot, CheckFlag, PollAcquire,
                QueueCancelled, QueueGranted, QueueTimesOut, DropSlot, Join
  <2>2. CASE TakePrewarmed(c) \/ TryAcquire(c)
    <3>1. Starting' = Starting
      BY <1>1, <2>2 DEF TakePrewarmed, TryAcquire, Starting, Places
    <3> QED BY <1>2, <2>1, <3>1
  <2>3. CASE TakeSlot(c) \/ DropSlot(c)
    <3>1. Starting' = Starting \/ Starting' = Starting \ {c}
      BY <1>1, <2>3 DEF TakeSlot, DropSlot, Starting, Places, PhaseInv, Phase
    <3> QED BY <1>2, <1>3, <2>1, <3>1
  <2>4. CASE CheckFlag(c) \/ PollAcquire(c) \/ QueueCancelled(c) \/ QueueGranted(c)
               \/ QueueTimesOut(c)
    <3>1. Starting' = Starting
      BY <1>1, <2>4 DEF CheckFlag, PollAcquire, QueueCancelled, QueueGranted, QueueTimesOut,
                        Starting, Places
    <3> QED BY <1>2, <2>1, <3>1
  <2>5. CASE Join(c)
    <3>1. Starting' = Starting
      BY <1>1, <2>5 DEF Join, Starting, Places
    <3> QED BY <1>2, <2>1, <3>1
  <2> QED BY <1>5, <2>2, <2>3, <2>4, <2>5 DEF CallStep
<1>6. ASSUME NEW c \in Callers, TaskStep(c) PROVE StartCount'
  <2>1. CASE TaskSpawns(c) /\ c \notin cancelled
    <3>1. Starting' = Starting \ {c} /\ c \in Starting
      BY <1>1, <2>1 DEF TaskSpawns, Starting, Places, PhaseInv, Phase
    <3>2. Cardinality(Starting') = Cardinality(Starting) - 1
      BY <1>1, <3>1, FS_RemoveElement
    <3>3. spawned' = spawned + 1 /\ starts' = starts
      BY <2>1 DEF TaskSpawns
    <3> HIDE DEF Starting
    <3> QED BY <1>1, <3>2, <3>3 DEF StartCount
  <2>2. CASE TaskRefuses(c) \/ TaskUsesClean(c) \/ (TaskSpawns(c) /\ c \in cancelled)
    <3>1. Starting' = Starting \ {c} /\ UNCHANGED <<starts, spawned>>
      BY <1>1, <2>2 DEF TaskRefuses, TaskUsesClean, TaskSpawns, Starting, Places, PhaseInv, Phase
    <3> QED BY <1>3, <3>1
  <2>3. CASE TaskBoots(c) \/ TaskAttaches(c) \/ TaskInitialises(c) \/ TaskOrphaned(c)
    <3>1. Starting' = Starting /\ UNCHANGED <<starts, spawned>>
      BY <1>1, <2>3 DEF TaskBoots, TaskAttaches, TaskInitialises, TaskOrphaned, Starting, Places
    <3> QED BY <1>2, <3>1
  <2> QED BY <1>6, <2>1, <2>2, <2>3 DEF TaskStep
<1>7. ASSUME NEW c \in Callers, UserStep(c) PROVE StartCount'
  <2>1. CASE Begin(c)
    <3>1. Starting' \subseteq Starting \cup {c} /\ starts' = starts + 1 /\ spawned' = spawned
      BY <1>1, <2>1 DEF Begin, Starting, Places
    <3>2. /\ IsFiniteSet(Starting \cup {c})
          /\ Cardinality(Starting \cup {c}) = IF c \in Starting THEN Cardinality(Starting)
                                                               ELSE Cardinality(Starting) + 1
      BY <1>1, FS_AddElement
    <3>3. /\ Cardinality(Starting') <= Cardinality(Starting \cup {c})
          /\ Cardinality(Starting') \in Nat
      BY <3>1, <3>2, FS_Subset, FS_CardinalityType
    <3> HIDE DEF Starting
    <3>4. Cardinality(Starting') <= Cardinality(Starting) + 1
      BY <1>1, <3>2, <3>3
    <3> QED BY <1>1, <3>1, <3>3, <3>4 DEF StartCount
  <2>2. CASE DropQueued(c) \/ DropJoining(c) \/ EndSession(c)
    <3>1. Starting' = Starting /\ UNCHANGED <<starts, spawned>>
      BY <1>1, <2>2 DEF DropQueued, DropJoining, EndSession, Starting, Places
    <3> QED BY <1>2, <3>1
  <2>3. CASE Cancel(c)
    BY <1>4, <2>3 DEF Cancel
  <2> QED BY <1>7, <2>1, <2>2, <2>3 DEF UserStep
<1>8. ASSUME NEW t \in Threads, CancelStep(t) PROVE StartCount'
  BY <1>4, <1>8 DEF CancelStep, CancelLocks, CancelForces, CancelNotifies
<1>9. ASSUME NEW s \in Sessions, Settle(s) PROVE StartCount'
  BY <1>4, <1>9 DEF Settle
<1>10. CASE UNCHANGED vars
  BY <1>4, <1>10 DEF vars
<1> QED BY <1>5, <1>6, <1>7, <1>8, <1>9, <1>10 DEF Next, Finished

-----------------------------------------------------------------------------
(***************************************************************************)
(* Clean workers, and workers that a cancel is to reach.                   *)
(***************************************************************************)
\* A clean worker stays untouched until it is popped, and new workers come after all others.
LEMMA WarmStep == BrokerInv /\ [Next]_vars => WarmInv'
<1> SUFFICES ASSUME BrokerInv, [Next]_vars PROVE WarmInv'
  OBVIOUS
<1> USE DEF sem, calls, handles, cancels, leases, Task, StartTask, DropHandle
<1>1. /\ BrokerTypes /\ PhaseInv /\ WarmInv /\ NoSession \notin Sessions
      /\ Len(prewarmed) \in Nat /\ Prewarm \in Nat
      /\ \A s \in Sessions : s \in Nat
  BY BrokerAssumption, LenProperties DEF BrokerInv, BrokerTypes, Sessions
<1> USE <1>1
<1>2. CASE UNCHANGED <<prewarmed, sess, port, kport, lease, forced, spawned>>
  BY <1>2 DEF WarmInv
\* Sessions in hand are none of the clean ones.
<1>3. ASSUME NEW c \in Callers, UNCHANGED <<prewarmed, port, kport, lease, spawned>>,
             sess' = sess \/ sess' = [sess EXCEPT ![c] = NoSession],
             forced' = forced \/ forced' = forced \cup ({sess[c]} \ {NoSession})
      PROVE  WarmInv'
  BY <1>3 DEF WarmInv, BrokerTypes
<1>4. ASSUME NEW c \in Callers, CallStep(c) PROVE WarmInv'
  <2>1. CASE TakePrewarmed(c) /\ prewarmed # <<>>
    <3> DEFINE n == Len(prewarmed)
               v == SubSeq(prewarmed, 1, n - 1)
    <3>1. /\ n \in Nat \ {0} /\ Len(v) = n - 1
          /\ prewarmed[n] \in Sessions
          /\ \A i \in 1..(n - 1) : v[i] = prewarmed[i]
      BY <2>1, LastTaken DEF BrokerTypes
    <3>2. /\ prewarmed' = v /\ sess' = [sess EXCEPT ![c] = prewarmed[n]]
          /\ UNCHANGED <<port, kport, lease, forced, spawned>>
      BY <2>1 DEF TakePrewarmed
    <3>3. prewarmed[n] = n
      BY <3>1 DEF WarmInv
    <3> HIDE DEF v
    <3>4. \A i \in 1..Len(v) : v[i] = i /\ lease[i] = "held"
      BY <3>1 DEF WarmInv
    <3>5. \A i \in Sessions : i > n => i > Len(v)
      BY <3>1
    <3> QED BY <3>1, <3>2, <3>3, <3>4, <3>5 DEF WarmInv, BrokerTypes
  <2>2. CASE ~(TakePrewarmed(c) /\ prewarmed # <<>>)
    BY <1>2, <1>4, <2>2 DEF CallStep, TakePrewarmed, TryAcquire, TakeSlot, CheckFlag, PollAcquire,
                            QueueCancelled, QueueGranted, QueueTimesOut, DropSlot, Join
  <2> QED BY <2>1, <2>2
<1>5. ASSUME NEW c \in Callers, TaskStep(c) PROVE WarmInv'
  <2>1. CASE TaskRefuses(c) \/ TaskBoots(c) \/ TaskInitialises(c) \/ TaskOrphaned(c)
    BY <1>3, <2>1 DEF TaskRefuses, TaskBoots, TaskInitialises, TaskOrphaned
  <2>2. CASE TaskUsesClean(c)
    BY <1>2, <2>2 DEF TaskUsesClean
  <2>3. CASE TaskSpawns(c) /\ c \notin cancelled
    <3> DEFINE s == spawned + 1
    <3>1. s \in Sessions /\ spawned \in Nat
      BY <2>3, RoomToStart DEF TaskSpawns, BrokerInv, BrokerTypes
    <3>2. /\ spawned' = s /\ lease' = [lease EXCEPT ![s] = "held"]
          /\ sess' = [sess EXCEPT ![c] = s] /\ port' = [port EXCEPT ![c] = s]
          /\ UNCHANGED <<prewarmed, kport, forced>>
      BY <2>3 DEF TaskSpawns
    <3>3. s > Len(prewarmed) /\ Prewarm <= s
      BY <3>1 DEF WarmInv
    <3>4. \A r \in Sessions : lease'[r] = "unused" <=> r > spawned'
      BY <3>1, <3>2 DEF WarmInv, BrokerTypes
    <3>5. \A i \in 1..Len(prewarmed) : prewarmed[i] = i /\ lease'[i] = "held"
      BY <3>1, <3>2, <3>3 DEF WarmInv, BrokerTypes
    <3>6. \A d \in Callers : /\ sess'[d] # NoSession => sess'[d] > Len(prewarmed)
                             /\ port'[d] # NoSession => port'[d] > Len(prewarmed)
      BY <3>1, <3>2, <3>3 DEF WarmInv, BrokerTypes
    <3> QED BY <3>2, <3>3, <3>4, <3>5, <3>6 DEF WarmInv
  <2>4. CASE TaskSpawns(c) /\ c \in cancelled
    <3>1. /\ port' = [port EXCEPT ![c] = NoSession]
          /\ UNCHANGED <<prewarmed, sess, kport, lease, forced, spawned>>
      BY <2>4 DEF TaskSpawns
    <3> QED BY <3>1 DEF WarmInv, BrokerTypes
  <2>5. CASE TaskAttaches(c)
    <3>1. /\ port' = [port EXCEPT ![c] = sess[c]]
          /\ UNCHANGED <<prewarmed, kport, lease, spawned>>
          /\ sess' = sess \/ sess' = [sess EXCEPT ![c] = NoSession]
          /\ forced' = forced \/ forced' = forced \cup ({sess[c]} \ {NoSession})
      BY <2>5 DEF TaskAttaches
    <3> QED BY <3>1 DEF WarmInv, BrokerTypes
  <2> QED BY <1>5, <2>1, <2>2, <2>3, <2>4, <2>5 DEF TaskStep
<1>6. ASSUME NEW c \in Callers, UserStep(c) PROVE WarmInv'
  <2>1. CASE EndSession(c)
    <3>1. sess[c] # NoSession
      BY <2>1 DEF EndSession, PhaseInv, Phase
    <3> QED BY <1>3, <2>1, <3>1 DEF EndSession
  <2>2. CASE Begin(c) \/ DropQueued(c) \/ DropJoining(c) \/ Cancel(c)
    BY <1>2, <2>2 DEF Begin, DropQueued, DropJoining, Cancel
  <2> QED BY <1>6, <2>1, <2>2 DEF UserStep
<1>7. ASSUME NEW t \in Threads, CancelStep(t) PROVE WarmInv'
  <2>1. t[1] \in Callers
    BY DEF Threads
  <2>2. CASE CancelLocks(t)
    BY <2>1, <2>2 DEF CancelLocks, WarmInv, BrokerTypes
  <2>3. CASE CancelForces(t)
    BY <2>1, <2>3 DEF CancelForces, WarmInv, BrokerTypes
  <2>4. CASE CancelNotifies(t)
    BY <1>2, <2>4 DEF CancelNotifies
  <2> QED BY <1>7, <2>2, <2>3, <2>4 DEF CancelStep
<1>8. ASSUME NEW s \in Sessions, Settle(s) PROVE WarmInv'
  <2>1. s > Len(prewarmed)
    <3>1. CASE s \in forced
      BY <3>1 DEF WarmInv
    <3>2. CASE Working(s)
      BY <3>2 DEF Working, WarmInv
    <3> QED BY <1>8, <3>1, <3>2 DEF Settle
  <2>2. /\ \E l \in {"released", "retained"} : lease' = [lease EXCEPT ![s] = l]
        /\ lease[s] = "held"
        /\ UNCHANGED <<prewarmed, sess, port, kport, forced, spawned>>
    BY <1>8 DEF Settle
  <2> QED BY <2>1, <2>2 DEF WarmInv, BrokerTypes
<1>9. CASE UNCHANGED vars
  BY <1>2, <1>9 DEF vars
<1> QED BY <1>4, <1>5, <1>6, <1>7, <1>8, <1>9 DEF Next, Finished

\* Every step keeps a cancelled caller on its way out.
LEMMA CancelInvStep == BrokerInv /\ [Next]_vars => CancelInv'
<1> SUFFICES ASSUME BrokerInv, [Next]_vars PROVE CancelInv'
  OBVIOUS
<1> USE DEF sem, calls, handles, cancels, leases, Go, Task, StartTask, DropHandle
<1>1. /\ BrokerTypes /\ PhaseInv /\ CancelInv /\ NoSession \notin Sessions
      /\ \A t \in Threads : t[1] \in Callers
      /\ \A c \in Callers : <<c, "user">> \in Threads
  BY BrokerAssumption DEF BrokerInv, Sessions, Threads
<1> USE <1>1
\* A step of the caller that publishes no worker and lets nobody wait behind the flag.
<1>2. ASSUME NEW c \in Callers, UNCHANGED <<kport, cancelled, port>>, forced \subseteq forced',
             kpc' = kpc \/ kpc' = [kpc EXCEPT ![<<c, "guard">>] = "lock"],
             \A d \in Callers : Attached(d)' => Attached(d) /\ sess'[d] = sess[d],
             \A d \in Callers : cpc'[d] \in {"poll", "waiting"}
                                  => \/ cpc[d] \in {"poll", "waiting"} /\ (d \in woken => d \in woken')
                                     \/ d \notin cancelled
      PROVE  CancelInv'
  <2>1. \A t \in Threads : kpc'[t] \in {"force", "notify", "done"} => kpc'[t] = kpc[t]
    BY <1>2 DEF BrokerTypes, Threads
  <2>2. \A d \in Callers : Attached(d)' => port'[d] = sess'[d]
    BY <1>2 DEF CancelInv
  <2>3. ASSUME NEW t \in Threads
        PROVE  /\ kpc'[t] \in {"force", "notify", "done"} => t[1] \in cancelled'
               /\ kpc'[t] = "force" /\ Attached(t[1])' => kport'[t] = sess'[t[1]]
               /\ kpc'[t] \in {"notify", "done"} /\ Attached(t[1])' => sess'[t[1]] \in forced'
    BY <1>2, <2>1 DEF CancelInv
  <2>4. ASSUME NEW d \in Callers, kpc'[<<d, "user">>] = "done", cpc'[d] \in {"poll", "waiting"}
        PROVE  d \in woken'
    BY <1>2, <2>1, <2>4 DEF CancelInv
  <2> QED BY <2>2, <2>3, <2>4 DEF CancelInv
<1>3. ASSUME NEW c \in Callers, CallStep(c) PROVE CancelInv'
  <2>1. /\ UNCHANGED <<kpc, kport, cancelled, port, forced>>
        /\ \A d \in Callers : woken \ {c} \subseteq woken'
    BY <1>3 DEF CallStep, TakePrewarmed, TryAcquire, TakeSlot, CheckFlag, PollAcquire,
                QueueCancelled, QueueGranted, QueueTimesOut, DropSlot, Join
  <2>2. \A d \in Callers : Attached(d)' => Attached(d) /\ sess'[d] = sess[d]
    BY <1>3 DEF CallStep, TakePrewarmed, TryAcquire, TakeSlot, CheckFlag, PollAcquire,
                QueueCancelled, QueueGranted, QueueTimesOut, DropSlot, Join, Attached, BrokerTypes
  <2>3. \A d \in Callers : cpc'[d] \in {"poll", "waiting"}
                             => \/ cpc[d] \in {"poll", "waiting"} /\ (d \in woken => d \in woken')
                                \/ d \notin cancelled
    BY <1>3 DEF CallStep, TakePrewarmed, TryAcquire, TakeSlot, CheckFlag, PollAcquire,
                QueueCancelled, QueueGranted, QueueTimesOut, DropSlot, Join, BrokerTypes
  <2> QED BY <1>2, <2>1, <2>2, <2>3
\* A worker comes within reach only under a handle that nobody has cancelled.
<1>4. ASSUME NEW c \in Callers, c \notin cancelled, NEW s \in Sessions,
             UNCHANGED <<cpc, kpc, kport, cancelled, woken, forced>>,
             port' = [port EXCEPT ![c] = s], sess' = [sess EXCEPT ![c] = s],
             \A d \in Callers : d # c => tpc'[d] = tpc[d]
      PROVE  CancelInv'
  <2>1. \A t \in Threads : t[1] = c => kpc[t] \notin {"force", "notify", "done"}
    BY <1>4 DEF CancelInv
  <2>2. \A d \in Callers \ {c} : /\ Attached(d)' <=> Attached(d)
                                 /\ port'[d] = port[d] /\ sess'[d] = sess[d]
    BY <1>4 DEF Attached, BrokerTypes
  <2>3. port'[c] = sess'[c]
    BY <1>4 DEF BrokerTypes
  <2> QED BY <1>4, <2>1, <2>2, <2>3 DEF CancelInv
<1>5. ASSUME NEW c \in Callers, TaskStep(c) PROVE CancelInv'
  <2>1. CASE TaskSpawns(c) /\ c \notin cancelled
    <3>1. spawned + 1 \in Sessions
      BY <2>1, RoomToStart DEF TaskSpawns, BrokerInv
    <3> QED BY <1>4, <2>1, <3>1 DEF TaskSpawns, BrokerTypes
  <2>2. CASE TaskAttaches(c) /\ c \notin cancelled
    <3>1. sess[c] \in Sessions /\ sess = [sess EXCEPT ![c] = sess[c]]
      BY <2>2 DEF TaskAttaches, PhaseInv, Phase, BrokerTypes
    <3> QED BY <1>4, <2>2, <3>1 DEF TaskAttaches, BrokerTypes
  <2>3. CASE (TaskSpawns(c) \/ TaskAttaches(c)) /\ c \in cancelled
    <3>1. /\ UNCHANGED <<cpc, kpc, kport, cancelled, woken>> /\ forced \subseteq forced'
          /\ ~Attached(c)'
          /\ \A d \in Callers \ {c} : /\ Attached(d)' <=> Attached(d)
                                      /\ port'[d] = port[d] /\ sess'[d] = sess[d]
      BY <2>3 DEF TaskSpawns, TaskAttaches, Attached, BrokerTypes, PhaseInv, Phase
    <3> QED BY <3>1 DEF CancelInv
  <2>4. CASE TaskRefuses(c) \/ TaskUsesClean(c) \/ TaskBoots(c) \/ TaskOrphaned(c)
    <3>1. /\ UNCHANGED <<cpc, kpc, kport, cancelled, port, woken>> /\ forced \subseteq forced'
      BY <2>4 DEF TaskRefuses, TaskUsesClean, TaskBoots, TaskOrphaned
    <3>2. \A d \in Callers : Attached(d)' => Attached(d) /\ sess'[d] = sess[d]
      BY <2>4 DEF TaskRefuses, TaskUsesClean, TaskBoots, TaskOrphaned, Attached, BrokerTypes,
                  PhaseInv, Phase
    <3> QED BY <1>2, <3>1, <3>2
  <2>5. CASE TaskInitialises(c)
    <3>1. /\ UNCHANGED <<cpc, kpc, kport, cancelled, port, woken>> /\ forced \subseteq forced'
      BY <2>5 DEF TaskInitialises
    <3>2. \A d \in Callers : Attached(d)' => Attached(d) /\ sess'[d] = sess[d]
      BY <2>5 DEF TaskInitialises, Attached, BrokerTypes, PhaseInv, Phase
    <3> QED BY <1>2, <3>1, <3>2
  <2> QED BY <1>5, <2>1, <2>2, <2>3, <2>4, <2>5 DEF TaskStep, TaskSpawns
<1>6. ASSUME NEW c \in Callers, UserStep(c) PROVE CancelInv'
  <2>1. CASE Cancel(c)
    <3>1. /\ kpc' = [kpc EXCEPT ![<<c, "user">>] = "lock"]
          /\ UNCHANGED <<cpc, tpc, sess, kport, cancelled, port, woken, forced>>
      BY <2>1 DEF Cancel
    <3>2. \A t \in Threads : kpc'[t] \in {"force", "notify", "done"} => kpc'[t] = kpc[t]
      BY <3>1 DEF BrokerTypes
    <3> QED BY <3>1, <3>2 DEF CancelInv, Attached
  <2>2. CASE Begin(c) \/ DropQueued(c) \/ DropJoining(c) \/ EndSession(c)
    <3>1. /\ UNCHANGED <<kport, cancelled, port, woken>> /\ forced \subseteq forced'
          /\ kpc' = kpc \/ kpc' = [kpc EXCEPT ![<<c, "guard">>] = "lock"]
      BY <2>2 DEF Begin, DropQueued, DropJoining, EndSession
    <3>2. \A d \in Callers : Attached(d)' => Attached(d) /\ sess'[d] = sess[d]
      BY <2>2 DEF Begin, DropQueued, DropJoining, EndSession, Attached, BrokerTypes, PhaseInv, Phase
    <3>3. \A d \in Callers : cpc'[d] \in {"poll", "waiting"} => cpc[d] \in {"poll", "waiting"}
      BY <2>2 DEF Begin, DropQueued, DropJoining, EndSession, BrokerTypes
    <3> QED BY <1>2, <3>1, <3>2, <3>3
  <2> QED BY <1>6, <2>1, <2>2 DEF UserStep
<1>7. ASSUME NEW t \in Threads, CancelStep(t) PROVE CancelInv'
  <2> USE DEF CancelInv, Attached, BrokerTypes
  <2>1. CASE CancelLocks(t)
    BY <2>1 DEF CancelLocks
  <2>2. CASE CancelForces(t)
    BY <2>2 DEF CancelForces, PhaseInv, Phase
  <2>3. CASE CancelNotifies(t)
    <3>1. \A d \in Callers : kpc'[<<d, "user">>] = "done" /\ cpc'[d] \in {"poll", "waiting"}
                               => d \in woken'
      BY <2>3 DEF CancelNotifies, Listening
    <3> QED BY <2>3, <3>1 DEF CancelNotifies
  <2> QED BY <1>7, <2>1, <2>2, <2>3 DEF CancelStep
<1>8. ASSUME NEW s \in Sessions, Settle(s) PROVE CancelInv'
  BY <1>8 DEF Settle, CancelInv, Attached
<1>9. CASE UNCHANGED vars
  BY <1>9 DEF vars, CancelInv, Attached
<1> QED BY <1>3, <1>5, <1>6, <1>7, <1>8, <1>9 DEF Next, Finished

-----------------------------------------------------------------------------
(***************************************************************************)
(* The theorems.                                                           *)
(***************************************************************************)
\* Nobody has asked for anything, and the stock of clean workers is full.
LEMMA BrokerInit == Init => BrokerInv
<1> SUFFICES ASSUME Init PROVE BrokerInv
  OBVIOUS
<1> USE DEF Init
<1>1. /\ Prewarm \in Nat /\ MaxSessions \in Nat /\ Prewarm <= MaxSessions /\ QueueCapacity \in Nat
      /\ MaxStarts \in Nat /\ NoSession \notin Sessions /\ 1..Prewarm \subseteq Sessions
  BY BrokerAssumption DEF Sessions
<1>2. waiters = <<>> /\ Len(waiters) = 0 /\ waiters \in Seq(Callers) /\ \A c : ~In(c, waiters)
  BY EmptySeq DEF In
<1>3. prewarmed \in Seq(Sessions) /\ Len(prewarmed) = Prewarm
  <2>1. prewarmed \in [1..Prewarm -> Sessions]
    BY <1>1
  <2> QED BY <1>1, <2>1, SeqDef
<1>4. BrokerTypes
  <2>1. LineTypes
    BY <1>1, <1>2 DEF LineTypes
  <2> QED BY <1>1, <1>3, <2>1 DEF BrokerTypes, Calling
<1>5. PhaseInv
  BY DEF PhaseInv, Phase
<1>6. QueueInv
  BY <1>2 DEF QueueInv, LineInv, Queued, Once
<1>7. SlotCount
  <2>1. Places({"check", "poll", "unslot"}) = {}
    BY DEF Places
  <2>2. Cardinality(Places({"check", "poll", "unslot"})) = 0 /\ Cardinality(granted) = 0
    BY <2>1, FS_EmptySet
  <2> QED BY <1>1, <1>2, <2>2 DEF SlotCount
<1>8. CapacityConserved
  <2>1. {s \in Sessions : lease[s] \in {"held", "retained"}} = 1..Prewarm
    BY <1>1 DEF Sessions
  <2>2. Cardinality(1..Prewarm) = Prewarm
    BY <1>1, FS_Interval
  <2>3. /\ Cardinality({s \in Sessions : lease[s] \in {"held", "retained"}}) = Prewarm
        /\ Cardinality(granted) = 0 /\ Cardinality(bare) = 0
    BY <2>1, <2>2, FS_EmptySet
  <2>4. permits = MaxSessions - Prewarm
    OBVIOUS
  <2> HIDE DEF Init
  <2> QED BY <1>1, <2>3, <2>4 DEF CapacityConserved
<1>9. StartCount
  <2>1. Starting = {}
    BY DEF Starting, Places
  <2> QED BY <1>1, <2>1, FS_EmptySet DEF StartCount
<1>10. WarmInv
  BY <1>1, <1>3 DEF WarmInv, Sessions
<1>11. CancelInv
  BY DEF CancelInv, Attached
<1> QED BY <1>4, <1>5, <1>6, <1>7, <1>8, <1>9, <1>10, <1>11 DEF BrokerInv

\* Every step keeps the invariant.
LEMMA BrokerStep == BrokerInv /\ [Next]_vars => BrokerInv'
BY TypeStep, PhaseStep, QueueStep, SlotStep, CapacityStep, StartStep, WarmStep, CancelInvStep
   DEF BrokerInv

\* The invariant holds of every behaviour.
LEMMA BrokerInvariant == Spec => []BrokerInv
BY BrokerInit, BrokerStep, PTL DEF Spec

\* Every permit of max_sessions is in exactly one place, whatever is cancelled, dropped or timed out
\* meanwhile: acquire, start_session_blocking and the release by the supervisor lose none.
THEOREM CapacityHolds == Spec => []CapacityConserved
<1>1. BrokerInv => CapacityConserved
  BY DEF BrokerInv
<1> QED BY <1>1, BrokerInvariant, PTL

\* The queue of acquire never holds more than queue_capacity callers, and nobody stands in it while
\* a permit is free or a clean worker is idle.
THEOREM QueueHolds == Spec => []QueueDisciplined
<1>1. BrokerInv => QueueDisciplined
  <2> SUFFICES ASSUME BrokerInv PROVE QueueDisciplined
    OBVIOUS
  <2>1. Len(waiters) + Cardinality(granted) <= QueueCapacity
    <3>1. /\ IsFiniteSet(granted) /\ IsFiniteSet(Places({"check", "poll", "unslot"}))
      BY BrokerAssumption, FS_Subset DEF Places, BrokerInv, BrokerTypes, LineTypes
    <3>2. /\ Cardinality(granted) \in Nat /\ Cardinality(Places({"check", "poll", "unslot"})) \in Nat
          /\ Len(waiters) \in Nat /\ slots \in Nat
      BY <3>1, FS_CardinalityType, LenProperties DEF BrokerInv, BrokerTypes, LineTypes
    <3> DEFINE n == Cardinality(Places({"check", "poll", "unslot"}))
    <3>3. n \in Nat /\ slots + Len(waiters) + Cardinality(granted) + n = QueueCapacity
      BY <3>2 DEF BrokerInv, SlotCount
    <3> HIDE DEF n
    <3> QED BY <3>2, <3>3
  <2>2. ASSUME waiters # <<>> PROVE permits = 0 /\ prewarmed = <<>>
    <3>1. Len(waiters) \in Nat \ {0} /\ \A i \in 1..Len(waiters) : waiters[i] \in Callers
      BY <2>2, EmptySeq, ElementOfSeq DEF BrokerInv, BrokerTypes, LineTypes
    <3>2. waiters[1] \in Callers /\ In(waiters[1], waiters)
      BY <3>1 DEF In
    <3>3. cpc[waiters[1]] = "waiting"
      BY <3>2 DEF BrokerInv, QueueInv, Queued
    <3> QED BY <2>2, <3>2, <3>3 DEF BrokerInv, QueueInv, LineInv, PhaseInv, Phase
  <2> QED BY <2>1, <2>2 DEF QueueDisciplined
<1> QED BY <1>1, BrokerInvariant, PTL

\* No waiter of a handle sleeps on once its cancel() has returned: the Notified is enabled before
\* the flag is read (cancelled of SessionCancellation).
THEOREM WakeHolds == Spec => []CancelWakes
<1>1. BrokerInv => CancelWakes
  BY DEF BrokerInv, CancelInv, CancelWakes
<1> QED BY <1>1, BrokerInvariant, PTL

\* Once cancel() has returned, the handle's worker has been forced, however far its start had come
\* (attach publishes the port and reads the flag under one lock).
THEOREM ReachHolds == Spec => []CancelReachesWorker
<1>1. BrokerInv => CancelReachesWorker
  BY DEF BrokerInv, CancelInv, CancelReachesWorker, Attached
<1> QED BY <1>1, BrokerInvariant, PTL

\* The types of the model, with the bounds that the counts give: permits and slots never exceed
\* what the semaphores began with, and no more workers are started than calls ask for.
THEOREM BrokerTypesHold == Spec => []TypeOK
<1>1. BrokerInv => TypeOK
  <2> SUFFICES ASSUME BrokerInv PROVE TypeOK
    OBVIOUS
  <2>1. BrokerTypes /\ LineTypes /\ SlotCount /\ CapacityConserved /\ StartCount
    BY DEF BrokerInv, BrokerTypes
  <2>2. /\ IsFiniteSet(granted) /\ IsFiniteSet(bare) /\ IsFiniteSet(Starting)
        /\ IsFiniteSet(Places({"check", "poll", "unslot"}))
    BY <2>1, BrokerAssumption, FS_Subset DEF Places, Starting, BrokerTypes, LineTypes
  <2>3. IsFiniteSet(Sessions)
    BY BrokerAssumption, FS_Interval DEF Sessions
  <2>4. IsFiniteSet(Held)
    BY <2>3, FS_Subset DEF Held
  <2> DEFINE n == Cardinality(Places({"check", "poll", "unslot"}))
             g == Cardinality(granted)
             b == Cardinality(bare)
             h == Cardinality(Held)
             k == Cardinality(Starting)
  <2>5. n \in Nat /\ g \in Nat /\ b \in Nat /\ h \in Nat /\ k \in Nat /\ Len(waiters) \in Nat
    BY <2>1, <2>2, <2>4, FS_CardinalityType, LenProperties DEF LineTypes
  <2>6. /\ slots + Len(waiters) + g + n = QueueCapacity /\ permits + g + b + h = MaxSessions
        /\ spawned + k <= Prewarm + starts
    BY <2>1 DEF SlotCount, CapacityConserved, StartCount, Held
  <2> HIDE DEF n, g, b, h, k
  <2>7. permits \in Nat /\ slots \in Nat /\ spawned \in Nat /\ starts \in 0..MaxStarts
    BY <2>1 DEF BrokerTypes, LineTypes
  <2>8. permits \in 0..MaxSessions /\ slots \in 0..QueueCapacity
    BY <2>5, <2>6, <2>7, BrokerAssumption
  <2>9. spawned \in 0..(Prewarm + MaxStarts)
    BY <2>5, <2>6, <2>7, BrokerAssumption
  <2> QED BY <2>1, <2>8, <2>9 DEF TypeOK, BrokerTypes, LineTypes
<1> QED BY <1>1, BrokerInvariant, PTL

-----------------------------------------------------------------------------
(***************************************************************************)
(* The broker implements the pool of sessions.                             *)
(***************************************************************************)
Warm == {prewarmed[i] : i \in DOMAIN prewarmed}
Used == {s \in Sessions : lease[s] # "unused"}

\* The stack of clean workers is the first of all that were started.
LEMMA WarmSet ==
  ASSUME NEW w \in Seq(Sessions), \A i \in 1..Len(w) : w[i] = i
  PROVE  {w[i] : i \in DOMAIN w} = 1..Len(w)
<1>1. DOMAIN w = 1..Len(w)
  BY LenProperties
<1> QED BY <1>1

\* The pool counts as the broker does.
LEMMA SameCount == \A S : Pool!Cardinality(S) = Cardinality(S)
BY Zenon DEF Cardinality, Pool!Cardinality

\* A caller starts a worker only while a permit is in its hands, which no session holds.
LEMMA RoomInPool ==
  ASSUME BrokerInv, NEW c \in bare
  PROVE  Cardinality(Held) < MaxSessions
<1>1. IsFiniteSet(bare) /\ IsFiniteSet(granted) /\ IsFiniteSet(Sessions)
  BY BrokerAssumption, FS_Subset, FS_Interval DEF BrokerInv, BrokerTypes, LineTypes, Sessions
<1>2. IsFiniteSet(Held)
  BY <1>1, FS_Subset DEF Held
<1> DEFINE h == Cardinality(Held)
           g == Cardinality(granted)
           b == Cardinality(bare)
<1>3. h \in Nat /\ g \in Nat /\ b \in Nat /\ b # 0
  BY <1>1, <1>2, FS_CardinalityType, FS_EmptySet
<1>4. permits \in Nat /\ permits + g + b + h = MaxSessions /\ MaxSessions \in Nat
  BY BrokerAssumption DEF BrokerInv, BrokerTypes, LineTypes, CapacityConserved, Held
<1> HIDE DEF h, g, b
<1>5. h < MaxSessions
  BY <1>3, <1>4
<1> QED BY <1>5 DEF h

\* An empty broker is an empty pool.
LEMMA PoolInit == Init => Pool!Init
<1> SUFFICES ASSUME Init PROVE Pool!Init
  OBVIOUS
<1>1. BrokerInv
  BY BrokerInit
<1>2. Prewarm \in Nat /\ MaxStarts \in Nat
  BY BrokerAssumption
<1>3. Held = 1..Prewarm /\ Used = 1..Prewarm /\ Len(prewarmed) = Prewarm
  <2>1. Held = 1..Prewarm /\ Used = 1..Prewarm
    BY <1>2 DEF Init, Held, Used, Sessions
  <2>2. DOMAIN prewarmed = 1..Prewarm /\ DOMAIN prewarmed = 1..Len(prewarmed)
    BY <1>1, LenProperties DEF Init, BrokerInv, BrokerTypes
  <2>3. Len(prewarmed) \in Nat
    BY <1>1, LenProperties DEF BrokerInv, BrokerTypes
  <2> QED BY <1>2, <2>1, <2>2, <2>3
<1>4. Warm = 1..Prewarm
  BY <1>1, <1>3, WarmSet DEF BrokerInv, BrokerTypes, WarmInv, Warm
<1> QED BY <1>3, <1>4 DEF Init, Pool!Init, Held, Warm, Used

\* What a step does to the pool: it takes a clean worker, starts a worker, lets one go, retires one,
\* or it is no business of the pool.
LEMMA PoolStep == BrokerInv /\ BrokerInv' /\ [Next]_vars => [Pool!Next]_(Pool!pvars)
<1> SUFFICES ASSUME BrokerInv, BrokerInv', [Next]_vars PROVE [Pool!Next]_(Pool!pvars)
  OBVIOUS
<1> USE DEF sem, calls, handles, cancels, leases, Task, StartTask, DropHandle
<1>1. /\ BrokerTypes /\ PhaseInv /\ WarmInv /\ NoSession \notin Sessions
      /\ Warm = 1..Len(prewarmed) /\ Warm' = 1..Len(prewarmed')
      /\ Len(prewarmed) \in Nat
      /\ \A s \in Sessions : s \in Nat
  <2>1. Warm = 1..Len(prewarmed) /\ Warm' = 1..Len(prewarmed')
    BY WarmSet DEF BrokerInv, BrokerTypes, WarmInv, Warm
  <2> QED BY <2>1, BrokerAssumption, LenProperties DEF BrokerInv, BrokerTypes, Sessions
<1>2. ASSUME UNCHANGED <<prewarmed, lease, sess>> PROVE [Pool!Next]_(Pool!pvars)
  BY <1>2 DEF Pool!pvars
<1>3. ASSUME NEW c \in Callers, UNCHANGED <<prewarmed, lease>>,
             sess' = [sess EXCEPT ![c] = NoSession]
      PROVE  [Pool!Next]_(Pool!pvars)
  <2>1. CASE sess[c] = NoSession
    <3>1. sess' = sess
      BY <1>1, <1>3, <2>1 DEF BrokerTypes
    <3> QED BY <1>2, <1>3, <3>1
  <2>2. CASE sess[c] # NoSession
    <3>1. Pool!LetGo(c)
      BY <1>3, <2>2 DEF Pool!LetGo
    <3> QED BY <3>1 DEF Pool!Next
  <2> QED BY <2>1, <2>2
<1>4. ASSUME NEW c \in Callers, CallStep(c) PROVE [Pool!Next]_(Pool!pvars)
  <2>1. CASE TakePrewarmed(c) /\ prewarmed # <<>>
    <3> DEFINE n == Len(prewarmed)
    <3>1. /\ n \in Nat \ {0} /\ prewarmed[n] \in Sessions
          /\ Len(SubSeq(prewarmed, 1, n - 1)) = n - 1
      BY <1>1, <2>1, LastTaken DEF BrokerTypes
    <3>2. /\ Len(prewarmed') = n - 1 /\ sess' = [sess EXCEPT ![c] = prewarmed[n]]
          /\ lease' = lease
      BY <2>1, <3>1 DEF TakePrewarmed
    <3>3. prewarmed[n] = n
      BY <1>1, <3>1 DEF WarmInv
    <3>4. sess[c] = NoSession
      BY <1>1, <2>1 DEF TakePrewarmed, PhaseInv, Phase
    <3>5. n \in Warm /\ Warm' = Warm \ {n}
      BY <1>1, <3>1, <3>2
    <3>6. PICK s \in Sessions : s = n
      BY <3>1, <3>3
    <3> HIDE DEF n
    <3>7. Pool!TakeWarm(c, s)
      <4>1. Held' = Held /\ Used' = Used
        BY <3>2 DEF Held, Used
      <4> QED BY <3>2, <3>3, <3>4, <3>5, <3>6, <4>1 DEF Pool!TakeWarm, Warm, Held, Used
    <3> QED BY <3>7 DEF Pool!Next
  <2>2. CASE ~(TakePrewarmed(c) /\ prewarmed # <<>>)
    BY <1>2, <1>4, <2>2 DEF CallStep, TakePrewarmed, TryAcquire, TakeSlot, CheckFlag, PollAcquire,
                            QueueCancelled, QueueGranted, QueueTimesOut, DropSlot, Join
  <2> QED BY <2>1, <2>2
<1>5. ASSUME NEW c \in Callers, TaskStep(c) PROVE [Pool!Next]_(Pool!pvars)
  <2>1. CASE TaskSpawns(c) /\ c \notin cancelled
    <3>1. spawned + 1 \in Sessions /\ spawned \in Nat
      BY <1>1, <2>1, RoomToStart DEF TaskSpawns, BrokerInv, BrokerTypes
    <3>2. PICK s \in Sessions : s = spawned + 1
      BY <3>1
    <3>3. lease[s] = "unused"
      BY <1>1, <3>1, <3>2 DEF WarmInv
    <3>4. /\ lease' = [lease EXCEPT ![s] = "held"] /\ sess' = [sess EXCEPT ![c] = s]
          /\ prewarmed' = prewarmed
      BY <2>1, <3>2 DEF TaskSpawns
    <3>5. sess[c] = NoSession
      BY <1>1, <2>1 DEF TaskSpawns, PhaseInv, Phase
    <3>6. Cardinality(Held) < MaxSessions
      BY <2>1, RoomInPool DEF TaskSpawns
    <3>7. Held' = Held \cup {s} /\ Used' = Used \cup {s} /\ s \in Sessions \ Used /\ Warm' = Warm
      BY <1>1, <3>3, <3>4 DEF Held, Used, Warm, BrokerTypes
    <3>8. Pool!Start(c, s)
      <4>1. /\ s \in Sessions \ Used /\ sess[c] = NoSession /\ Cardinality(Held) < MaxSessions
            /\ Held' = Held \cup {s} /\ Used' = Used \cup {s}
            /\ sess' = [sess EXCEPT ![c] = s] /\ UNCHANGED Warm
        BY <3>4, <3>5, <3>6, <3>7
      <4> QED BY <4>1, SameCount, Zenon DEF Pool!Start, Held, Used, Warm
    <3> QED BY <3>8 DEF Pool!Next
  <2>2. CASE TaskUsesClean(c) \/ (TaskSpawns(c) /\ c \in cancelled)
    BY <1>2, <2>2 DEF TaskUsesClean, TaskSpawns
  <2>3. CASE TaskRefuses(c) \/ TaskBoots(c) \/ TaskAttaches(c) \/ TaskInitialises(c)
               \/ TaskOrphaned(c)
    <3>1. /\ UNCHANGED <<prewarmed, lease>>
          /\ sess' = sess \/ sess' = [sess EXCEPT ![c] = NoSession]
      BY <2>3 DEF TaskRefuses, TaskBoots, TaskAttaches, TaskInitialises, TaskOrphaned
    <3> QED BY <1>2, <1>3, <3>1
  <2> QED BY <1>5, <2>1, <2>2, <2>3 DEF TaskStep
<1>6. ASSUME NEW c \in Callers, UserStep(c) PROVE [Pool!Next]_(Pool!pvars)
  BY <1>2, <1>3, <1>6 DEF UserStep, Begin, DropQueued, DropJoining, EndSession, Cancel
<1>7. ASSUME NEW t \in Threads, CancelStep(t) PROVE [Pool!Next]_(Pool!pvars)
  BY <1>2, <1>7 DEF CancelStep, CancelLocks, CancelForces, CancelNotifies
<1>8. ASSUME NEW s \in Sessions, Settle(s) PROVE [Pool!Next]_(Pool!pvars)
  <2>1. lease[s] = "held" /\ UNCHANGED <<prewarmed, sess>>
    BY <1>8 DEF Settle
  <2>2. s > Len(prewarmed)
    <3>1. CASE s \in forced
      BY <1>1, <3>1 DEF WarmInv
    <3>2. CASE Working(s)
      BY <1>1, <3>2 DEF Working, WarmInv
    <3> QED BY <1>8, <3>1, <3>2 DEF Settle
  <2>3. CASE lease' = [lease EXCEPT ![s] = "released"]
    <3>1. Held' = Held \ {s} /\ Used' = Used /\ Warm' = Warm /\ s \in Held \ Warm
      BY <1>1, <2>1, <2>2, <2>3 DEF Held, Used, BrokerTypes
    <3>2. Pool!Retire(s)
      BY <2>1, <3>1 DEF Pool!Retire, Held, Used, Warm
    <3> QED BY <3>2 DEF Pool!Next
  <2>4. CASE lease' = [lease EXCEPT ![s] = "retained"]
    <3>1. Held' = Held /\ Used' = Used /\ Warm' = Warm
      BY <1>1, <2>1, <2>4 DEF Held, Used, BrokerTypes
    <3> QED BY <2>1, <3>1 DEF Pool!pvars, Held, Used, Warm
  <2> QED BY <1>8, <2>3, <2>4 DEF Settle
<1>9. CASE UNCHANGED vars
  BY <1>2, <1>9 DEF vars
<1> QED BY <1>4, <1>5, <1>6, <1>7, <1>8, <1>9 DEF Next, Finished

\* SessionBroker is a bounded pool of sessions: whatever its queue, its stack of clean workers and its
\* cancellations do, a caller sees a session taken clean or started within max_sessions, never one
\* that another caller had.
THEOREM BrokerImplementsPool == Spec => PoolSpec
BY PoolInit, PoolStep, BrokerInvariant, PTL DEF Spec, PoolSpec, Pool!Spec
=============================================================================
