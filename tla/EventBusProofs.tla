--------------------------- MODULE EventBusProofs ---------------------------
(***************************************************************************)
(* Proofs about the event bus, for any plugins, patterns, queue sizes and  *)
(* limits.                                                                 *)
(*                                                                         *)
(* Publishing re-enters itself, so several events can be on their way at   *)
(* once. FramesOK says what a routing on the call stack may rely on when   *)
(* it goes on: its event is still unknown to every subscription it has yet *)
(* to reach. Books says what a subscription has done with its events.      *)
(***************************************************************************)
EXTENDS EventBus, FiniteSetTheorems, SequenceTheorems, TLAPS

Routes(c) == {i \in DOMAIN c : c[i].do = "route"}

\* The routings on the stack c are of different events, published among the
\* first n, and no subscription in "to" has seen the event.
FramesOK(c, f, n) ==
    /\ \A i \in Routes(c) :
          /\ c[i].event.id \in 1..n
          /\ \A s \in c[i].to : c[i].event.id \notin f[s].routed
    /\ \A i, j \in Routes(c) : c[i].event.id = c[j].event.id => i = j

Distinct(q) == \A i, j \in 1..Len(q) : q[i].id = q[j].id => i = j

\* Where the events routed to one subscription are: its queue is q, f its fate.
Books(q, f) ==
    /\ f.routed = Ids(f.handed) \cup Ids(q) \cup f.dead \cup f.dropped
    /\ Distinct(f.handed) /\ Distinct(q)
    /\ Ids(f.handed) \cap Ids(q) = {}
    /\ (Ids(f.handed) \cup Ids(q)) \cap (f.dead \cup f.dropped) = {}
    /\ f.dead \cap f.dropped = {}

\* What has not been subscribed is as it was made.
OffIsEmpty ==
    \A s \in Sub \ live : sub[s] = NewState("mark_unhealthy") /\ fate[s] = NoFate

\* The stack only speaks of live subscriptions.
CallsAreLive ==
    \A i \in DOMAIN calls :
        /\ calls[i].do = "route" => calls[i].to \subseteq live
        /\ calls[i].do = "kick" => calls[i].s \in live

BooksInv ==
    /\ \A s \in Sub : fate[s].routed \subseteq 1..seq /\ Books(sub[s].queue, fate[s])
    /\ FramesOK(calls, fate, seq)

-----------------------------------------------------------------------------
(* Queues.                                                                 *)

LEMMA IdsMembers ==
    ASSUME NEW S, NEW q \in Seq(S)
    PROVE  \A x : x \in Ids(q) <=> \E i \in 1..Len(q) : q[i].id = x
<1>1. DOMAIN q = 1..Len(q)
  BY LenProperties
<1>2. ToSet(q) = {q[i] : i \in 1..Len(q)}
  BY <1>1 DEF ToSet
<1> QED BY <1>2 DEF Ids

LEMMA IdsOfEmpty == Ids(<<>>) = {}
<1>1. ToSet(<<>>) = {}
  BY DEF ToSet
<1> QED BY <1>1 DEF Ids

LEMMA IdsOfAppend ==
    ASSUME NEW q \in Seq(Event), NEW e \in Event
    PROVE  Ids(Append(q, e)) = Ids(q) \cup {e.id}
<1> DEFINE w == Append(q, e)
<1>1. /\ w \in Seq(Event) /\ Len(q) \in Nat
      /\ Len(w) = Len(q) + 1
      /\ \A i \in 1..Len(q) : w[i] = q[i]
      /\ w[Len(q) + 1] = e
  BY AppendProperties, LenProperties
<1> HIDE DEF w
<1>2. ASSUME NEW x
      PROVE  x \in Ids(w) <=> x \in Ids(q) \cup {e.id}
  <2>1. x \in Ids(w) <=> \E i \in 1..(Len(q) + 1) : w[i].id = x
    BY <1>1, IdsMembers
  <2>2. x \in Ids(q) <=> \E i \in 1..Len(q) : q[i].id = x
    BY IdsMembers
  <2>3. \A i \in 1..(Len(q) + 1) : i \in 1..Len(q) \/ i = Len(q) + 1
    BY <1>1
  <2>4. \A i \in 1..Len(q) : i \in 1..(Len(q) + 1)
    BY <1>1
  <2>5. Len(q) + 1 \in 1..(Len(q) + 1)
    BY <1>1
  <2> QED BY <1>1, <2>1, <2>2, <2>3, <2>4, <2>5
<1> QED BY <1>2 DEF w

LEMMA IdsOfTail ==
    ASSUME NEW q \in Seq(Event), q # <<>>, Distinct(q)
    PROVE  Ids(Tail(q)) = Ids(q) \ {Head(q).id} /\ Head(q).id \in Ids(q)
<1> DEFINE w == Tail(q)
<1>1. /\ w \in Seq(Event) /\ Len(q) \in Nat \ {0}
      /\ Len(w) = Len(q) - 1
      /\ \A i \in 1..(Len(q) - 1) : w[i] = q[i + 1]
      /\ Head(q) = q[1]
  BY HeadTailProperties, LenProperties, EmptySeq
<1> HIDE DEF w
<1>2. ASSUME NEW x
      PROVE  x \in Ids(w) <=> x \in Ids(q) /\ x # Head(q).id
  <2>1. x \in Ids(w) <=> \E i \in 1..(Len(q) - 1) : q[i + 1].id = x
    BY <1>1, IdsMembers
  <2>2. x \in Ids(q) <=> \E i \in 1..Len(q) : q[i].id = x
    BY IdsMembers
  <2>3. ASSUME NEW i \in 1..(Len(q) - 1), q[i + 1].id = x
        PROVE  x \in Ids(q) /\ x # q[1].id
    <3>1. i + 1 \in 1..Len(q) /\ 1 \in 1..Len(q) /\ i + 1 # 1
      BY <1>1
    <3> QED BY <2>2, <2>3, <3>1 DEF Distinct
  <2>4. ASSUME NEW i \in 1..Len(q), q[i].id = x, x # q[1].id
        PROVE  \E j \in 1..(Len(q) - 1) : q[j + 1].id = x
    <3>1. i # 1
      BY <2>4
    <3>2. i - 1 \in 1..(Len(q) - 1) /\ (i - 1) + 1 = i
      BY <1>1, <3>1
    <3> QED BY <2>4, <3>2
  <2> QED BY <1>1, <2>1, <2>2, <2>3, <2>4
<1>3. Head(q).id \in Ids(q)
  <2>1. 1 \in 1..Len(q)
    BY <1>1
  <2> QED BY <1>1, <2>1, IdsMembers
<1> QED BY <1>2, <1>3 DEF w

LEMMA IdsOfConcat ==
    ASSUME NEW h \in Seq(Event), NEW q \in Seq(Event)
    PROVE  Ids(h \o q) = Ids(h) \cup Ids(q)
<1> DEFINE w == h \o q
<1>1. /\ w \in Seq(Event) /\ Len(h) \in Nat /\ Len(q) \in Nat
      /\ Len(w) = Len(h) + Len(q)
      /\ \A i \in 1..(Len(h) + Len(q)) :
            w[i] = IF i <= Len(h) THEN h[i] ELSE q[i - Len(h)]
  BY ConcatProperties, LenProperties
<1> HIDE DEF w
<1>2. ASSUME NEW x
      PROVE  x \in Ids(w) <=> x \in Ids(h) \cup Ids(q)
  <2>1. x \in Ids(w) <=> \E i \in 1..(Len(h) + Len(q)) : w[i].id = x
    BY <1>1, IdsMembers
  <2>2. x \in Ids(q) <=> \E i \in 1..Len(q) : q[i].id = x
    BY IdsMembers
  <2>3. x \in Ids(h) <=> \E i \in 1..Len(h) : h[i].id = x
    BY IdsMembers
  <2>4. ASSUME NEW i \in 1..Len(h), h[i].id = x
        PROVE  x \in Ids(w)
    <3>1. i \in 1..(Len(h) + Len(q)) /\ i <= Len(h)
      BY <1>1
    <3> QED BY <1>1, <2>1, <2>4, <3>1
  <2>5. ASSUME NEW i \in 1..Len(q), q[i].id = x
        PROVE  x \in Ids(w)
    <3>1. /\ Len(h) + i \in 1..(Len(h) + Len(q)) /\ ~(Len(h) + i <= Len(h))
          /\ (Len(h) + i) - Len(h) = i
      BY <1>1
    <3> QED BY <1>1, <2>1, <2>5, <3>1
  <2>6. ASSUME NEW i \in 1..(Len(h) + Len(q)), w[i].id = x
        PROVE  x \in Ids(h) \cup Ids(q)
    <3>1. CASE i <= Len(h)
      <4>1. i \in 1..Len(h)
        BY <1>1, <3>1
      <4> QED BY <1>1, <2>3, <2>6, <3>1, <4>1
    <3>2. CASE ~(i <= Len(h))
      <4>1. i - Len(h) \in 1..Len(q)
        BY <1>1, <3>2
      <4> QED BY <1>1, <2>2, <2>6, <3>2, <4>1
    <3> QED BY <3>1, <3>2
  <2> QED BY <2>1, <2>2, <2>3, <2>4, <2>5, <2>6
<1> QED BY <1>2 DEF w

LEMMA DistinctAppend ==
    ASSUME NEW q \in Seq(Event), NEW e \in Event, Distinct(q), e.id \notin Ids(q)
    PROVE  Distinct(Append(q, e))
<1>1. /\ Append(q, e) \in Seq(Event) /\ Len(q) \in Nat
      /\ Len(Append(q, e)) = Len(q) + 1
      /\ \A i \in 1..Len(q) : Append(q, e)[i] = q[i]
      /\ Append(q, e)[Len(q) + 1] = e
  BY AppendProperties, LenProperties
<1>2. \A i \in 1..Len(q) : q[i].id # e.id
  BY IdsMembers
<1>3. \A i \in 1..(Len(q) + 1) : i \in 1..Len(q) \/ i = Len(q) + 1
  BY <1>1
<1> QED BY <1>1, <1>2, <1>3 DEF Distinct

LEMMA DistinctTail ==
    ASSUME NEW q \in Seq(Event), q # <<>>, Distinct(q)
    PROVE  Distinct(Tail(q))
<1>1. /\ Len(q) \in Nat \ {0} /\ Len(Tail(q)) = Len(q) - 1
      /\ \A i \in 1..(Len(q) - 1) : Tail(q)[i] = q[i + 1]
  BY HeadTailProperties, LenProperties, EmptySeq
<1> SUFFICES ASSUME NEW i \in 1..(Len(q) - 1), NEW j \in 1..(Len(q) - 1),
                    q[i + 1].id = q[j + 1].id
             PROVE  i = j
  BY <1>1 DEF Distinct
<1>2. i + 1 \in 1..Len(q) /\ j + 1 \in 1..Len(q)
  BY <1>1
<1>3. i + 1 = j + 1
  BY <1>2 DEF Distinct
<1> QED BY <1>1, <1>3

LEMMA DistinctConcat ==
    ASSUME NEW h \in Seq(Event), NEW q \in Seq(Event), Distinct(h), Distinct(q),
           Ids(h) \cap Ids(q) = {}
    PROVE  Distinct(h \o q)
<1>1. /\ h \o q \in Seq(Event) /\ Len(h) \in Nat /\ Len(q) \in Nat
      /\ Len(h \o q) = Len(h) + Len(q)
      /\ \A i \in 1..(Len(h) + Len(q)) :
            (h \o q)[i] = IF i <= Len(h) THEN h[i] ELSE q[i - Len(h)]
  BY ConcatProperties, LenProperties
<1>2. \A i \in 1..(Len(h) + Len(q)) :
         \/ i \in 1..Len(h) /\ (h \o q)[i] = h[i]
         \/ /\ i - Len(h) \in 1..Len(q) /\ i \notin 1..Len(h)
            /\ (h \o q)[i] = q[i - Len(h)]
  BY <1>1
<1>3. \A i \in 1..Len(h), j \in 1..Len(q) : h[i].id # q[j].id
  BY IdsMembers
<1> SUFFICES ASSUME NEW i \in 1..(Len(h) + Len(q)), NEW j \in 1..(Len(h) + Len(q)),
                    (h \o q)[i].id = (h \o q)[j].id
             PROVE  i = j
  BY <1>1 DEF Distinct
<1>4. CASE i \in 1..Len(h)
  BY <1>2, <1>3, <1>4 DEF Distinct
<1>5. CASE i \notin 1..Len(h)
  <2>1. i - Len(h) \in 1..Len(q) /\ (h \o q)[i] = q[i - Len(h)]
    BY <1>2, <1>5
  <2>2. j - Len(h) \in 1..Len(q) /\ (h \o q)[j] = q[j - Len(h)]
    BY <1>2, <1>3, <2>1
  <2>3. i - Len(h) = j - Len(h)
    BY <2>1, <2>2 DEF Distinct
  <2> QED BY <1>1, <2>3
<1> QED BY <1>4, <1>5

-----------------------------------------------------------------------------
(* The books of one subscription, as its events move. "g" is the fate after *)
(* the step.                                                                *)

\* A new event that is given up at once.
LEMMA BooksGivenUp ==
    ASSUME NEW q \in Seq(Event), NEW f \in Fate, NEW g \in Fate, NEW x \in Nat,
           Books(q, f), x \notin f.routed,
           g.routed = f.routed \cup {x}, g.handed = f.handed,
           \/ g.dead = f.dead \cup {x} /\ g.dropped = f.dropped
           \/ g.dead = f.dead /\ g.dropped = f.dropped \cup {x}
    PROVE  Books(q, g)
<1>1. /\ x \notin Ids(f.handed) /\ x \notin Ids(q) /\ x \notin f.dead
      /\ x \notin f.dropped
  BY DEF Books
<1> QED BY <1>1 DEF Books

\* A new event that is queued.
LEMMA BooksQueued ==
    ASSUME NEW q \in Seq(Event), NEW f \in Fate, NEW g \in Fate, NEW e \in Event,
           Books(q, f), e.id \notin f.routed,
           g.routed = f.routed \cup {e.id}, g.handed = f.handed,
           g.dead = f.dead, g.dropped = f.dropped
    PROVE  Books(Append(q, e), g)
<1>1. /\ e.id \notin Ids(f.handed) /\ e.id \notin Ids(q) /\ e.id \notin f.dead
      /\ e.id \notin f.dropped
  BY DEF Books
<1>2. Ids(Append(q, e)) = Ids(q) \cup {e.id} /\ Distinct(Append(q, e))
  BY <1>1, IdsOfAppend, DistinctAppend DEF Books
<1> QED BY <1>1, <1>2 DEF Books

\* A new event that displaces the oldest one.
LEMMA BooksDisplaced ==
    ASSUME NEW q \in Seq(Event), q # <<>>, NEW f \in Fate, NEW g \in Fate,
           NEW e \in Event, Books(q, f), e.id \notin f.routed,
           g.routed = f.routed \cup {e.id}, g.handed = f.handed,
           g.dead = f.dead, g.dropped = f.dropped \cup {Head(q).id}
    PROVE  Books(Displaced(q, e), g)
<1> DEFINE t == Tail(q)
           x == Head(q).id
<1>1. t \in Seq(Event) /\ Distinct(q)
  BY HeadTailProperties DEF Books
<1>2. Ids(t) = Ids(q) \ {x} /\ x \in Ids(q) /\ Distinct(t)
  BY <1>1, IdsOfTail, DistinctTail
<1> HIDE DEF t, x
<1>3. /\ e.id \notin Ids(f.handed) /\ e.id \notin Ids(q) /\ e.id \notin f.dead
      /\ e.id \notin f.dropped
  BY DEF Books
<1>4. Ids(Append(t, e)) = Ids(t) \cup {e.id} /\ Distinct(Append(t, e))
  BY <1>1, <1>2, <1>3, IdsOfAppend, DistinctAppend
<1>5. Displaced(q, e) = Append(t, e) /\ g.dropped = f.dropped \cup {x}
  BY DEF Displaced, t, x
<1> QED BY <1>2, <1>3, <1>4, <1>5 DEF Books

\* The queue is handed over.
LEMMA BooksHandedOver ==
    ASSUME NEW q \in Seq(Event), NEW f \in Fate, NEW g \in Fate, Books(q, f),
           g.routed = f.routed, g.handed = f.handed \o q,
           g.dead = f.dead, g.dropped = f.dropped
    PROVE  Books(<<>>, g)
<1>1. f.handed \in Seq(Event)
  BY DEF Fate
<1>2. Ids(g.handed) = Ids(f.handed) \cup Ids(q) /\ Distinct(g.handed)
  BY <1>1, IdsOfConcat, DistinctConcat DEF Books
<1>3. Distinct(<<>>)
  BY EmptySeq DEF Distinct
<1> QED BY <1>2, <1>3, IdsOfEmpty DEF Books

\* The queue is drained to the dead-letter log.
LEMMA BooksDrained ==
    ASSUME NEW q \in Seq(Event), NEW f \in Fate, NEW g \in Fate, Books(q, f),
           g.routed = f.routed, g.handed = f.handed,
           g.dead = f.dead \cup Ids(q), g.dropped = f.dropped
    PROVE  Books(<<>>, g)
<1>1. Distinct(<<>>)
  BY EmptySeq DEF Distinct
<1> QED BY <1>1, IdsOfEmpty DEF Books

LEMMA BooksAtFirst == Books(<<>>, NoFate)
<1>1. Distinct(<<>>)
  BY EmptySeq DEF Distinct
<1> QED BY <1>1, IdsOfEmpty DEF Books, NoFate

\* As many events as there are numbers.
LEMMA CountOfIds ==
    ASSUME NEW q \in Seq(Event), Distinct(q)
    PROVE  IsFiniteSet(Ids(q)) /\ Cardinality(Ids(q)) = Len(q)
<1> DEFINE f == [i \in 1..Len(q) |-> q[i].id]
<1>1. Len(q) \in Nat
  BY LenProperties
<1>2. IsFiniteSet(1..Len(q)) /\ Cardinality(1..Len(q)) = Len(q)
  BY SMTT(30), <1>1, FS_Interval
<1>3. f \in Bijection(1..Len(q), Ids(q))
  <2>1. f \in [1..Len(q) -> Ids(q)]
    BY IdsMembers
  <2>2. \A i, j \in 1..Len(q) : f[i] = f[j] => i = j
    BY DEF Distinct
  <2>3. \A x \in Ids(q) : \E i \in 1..Len(q) : f[i] = x
    BY IdsMembers
  <2> QED BY <2>1, <2>2, <2>3 DEF Bijection, Injection, Surjection, IsInjective
<1>4. ExistsBijection(1..Len(q), Ids(q))
  BY <1>3 DEF ExistsBijection
<1> QED BY <1>2, <1>4, FS_Bijection

LEMMA CountOfUnion ==
    ASSUME NEW A, NEW B, IsFiniteSet(A), IsFiniteSet(B), A \cap B = {}
    PROVE  /\ IsFiniteSet(A \cup B)
           /\ Cardinality(A \cup B) = Cardinality(A) + Cardinality(B)
<1>1. Cardinality(A \cap B) = 0 /\ Cardinality(A) \in Nat /\ Cardinality(B) \in Nat
  BY FS_EmptySet, FS_CardinalityType
<1>2. /\ IsFiniteSet(A \cup B)
      /\ Cardinality(A \cup B) = Cardinality(A) + Cardinality(B) - Cardinality(A \cap B)
  BY FS_Union
<1> QED BY <1>1, <1>2

\* Books that are in order add up.
LEMMA BooksAddUp ==
    ASSUME NEW q \in Seq(Event), NEW f \in Fate, Books(q, f),
           NEW n \in Nat, f.routed \subseteq 1..n
    PROVE  Cardinality(f.routed) = Len(f.handed) + Len(q) + Cardinality(f.dead)
                                     + Cardinality(f.dropped)
<1>1. f.handed \in Seq(Event)
  BY DEF Fate
<1>2. /\ IsFiniteSet(Ids(f.handed)) /\ Cardinality(Ids(f.handed)) = Len(f.handed)
      /\ IsFiniteSet(Ids(q)) /\ Cardinality(Ids(q)) = Len(q)
  BY <1>1, CountOfIds DEF Books
<1>3. f.dead \subseteq 1..n /\ f.dropped \subseteq 1..n /\ IsFiniteSet(1..n)
  BY FS_Interval DEF Books
<1>4. IsFiniteSet(f.dead) /\ IsFiniteSet(f.dropped)
  BY <1>3, FS_Subset
<1> DEFINE A == Ids(f.handed) \cup Ids(q)
           B == f.dead \cup f.dropped
<1>5. IsFiniteSet(A) /\ Cardinality(A) = Len(f.handed) + Len(q)
  BY <1>2, CountOfUnion DEF Books
<1>6. IsFiniteSet(B) /\ Cardinality(B) = Cardinality(f.dead) + Cardinality(f.dropped)
  BY <1>4, CountOfUnion DEF Books
<1>7. A \cap B = {} /\ f.routed = A \cup B
  BY DEF Books
<1>8. /\ Len(f.handed) \in Nat /\ Len(q) \in Nat
      /\ Cardinality(f.dead) \in Nat /\ Cardinality(f.dropped) \in Nat
  BY <1>1, <1>4, LenProperties, FS_CardinalityType
<1> HIDE DEF A, B
<1>9. Cardinality(f.routed) = Cardinality(A) + Cardinality(B)
  BY <1>5, <1>6, <1>7, CountOfUnion
<1> QED BY <1>5, <1>6, <1>8, <1>9

-----------------------------------------------------------------------------
(* The call stack.                                                         *)

\* What a step puts in the place of the call on top of c: calls about the
\* subscription s, and at most the rest of the routing on top.
Made(m, c, s) ==
    /\ m \in Seq(Call)
    /\ \A i \in 1..Len(m) :
          IF m[i].do = "route"
          THEN /\ i = Len(m) /\ c[1].do = "route"
               /\ m[i] = Route(c[1].event, c[1].to \ {s})
          ELSE m[i].s = s

LEMMA StackAfter ==
    ASSUME NEW c \in Seq(Call), c # <<>>, NEW m \in Seq(Call)
    PROVE  /\ m \o Tail(c) \in Seq(Call)
           /\ Len(c) \in Nat \ {0} /\ Len(m) \in Nat
           /\ DOMAIN (m \o Tail(c)) = 1..(Len(m) + Len(c) - 1)
           /\ \A i \in 1..(Len(m) + Len(c) - 1) :
                 (m \o Tail(c))[i] = IF i <= Len(m) THEN m[i] ELSE c[i - Len(m) + 1]
<1>1. /\ Tail(c) \in Seq(Call) /\ Len(c) \in Nat \ {0} /\ Len(m) \in Nat
      /\ Len(Tail(c)) = Len(c) - 1
      /\ \A i \in 1..(Len(c) - 1) : Tail(c)[i] = c[i + 1]
  BY HeadTailProperties, LenProperties, EmptySeq
<1> DEFINE t == Tail(c)
<1> HIDE DEF t
<1>2. t \in Seq(Call) /\ Len(t) = Len(c) - 1
  BY <1>1 DEF t
<1>3. /\ m \o t \in Seq(Call) /\ Len(m \o t) = Len(m) + Len(t)
      /\ \A i \in 1..(Len(m) + Len(t)) :
            (m \o t)[i] = IF i <= Len(m) THEN m[i] ELSE t[i - Len(m)]
  BY <1>2, ConcatProperties
<1>4. DOMAIN (m \o t) = 1..(Len(m) + Len(c) - 1)
  BY <1>1, <1>2, <1>3, LenProperties
<1>5. ASSUME NEW i \in 1..(Len(m) + Len(c) - 1), ~(i <= Len(m))
      PROVE  t[i - Len(m)] = c[i - Len(m) + 1]
  <2>1. i - Len(m) \in 1..(Len(c) - 1)
    BY <1>1, <1>5
  <2> QED BY <1>1, <2>1 DEF t
<1>6. \A i \in 1..(Len(m) + Len(c) - 1) :
         (m \o t)[i] = IF i <= Len(m) THEN m[i] ELSE c[i - Len(m) + 1]
  BY <1>1, <1>2, <1>3, <1>5
<1> QED BY <1>1, <1>3, <1>4, <1>6 DEF t

\* Every routing on the new stack was on the old one, with no more to reach.
LEMMA RoutesAfter ==
    ASSUME NEW c \in Seq(Call), c # <<>>, NEW s, NEW m, Made(m, c, s),
           NEW i \in Routes(m \o Tail(c))
    PROVE  /\ i \in Nat /\ Len(m) \in Nat
           /\ i - Len(m) + 1 \in Routes(c)
           /\ (m \o Tail(c))[i].event = c[i - Len(m) + 1].event
           /\ (m \o Tail(c))[i].to \subseteq c[i - Len(m) + 1].to
           /\ i - Len(m) + 1 = 1 => s \notin (m \o Tail(c))[i].to
<1> DEFINE d == m \o Tail(c)
           k == i - Len(m) + 1
<1>1. /\ Len(c) \in Nat \ {0} /\ Len(m) \in Nat
      /\ DOMAIN d = 1..(Len(m) + Len(c) - 1) /\ DOMAIN c = 1..Len(c)
      /\ \A j \in 1..(Len(m) + Len(c) - 1) :
            d[j] = IF j <= Len(m) THEN m[j] ELSE c[j - Len(m) + 1]
  BY StackAfter, LenProperties DEF Made
<1>2. i \in 1..(Len(m) + Len(c) - 1) /\ d[i].do = "route"
  BY <1>1 DEF Routes
<1> HIDE DEF d
<1>3. CASE i <= Len(m)
  <2>1. i \in 1..Len(m) /\ d[i] = m[i]
    BY <1>1, <1>2, <1>3
  <2>2. i = Len(m) /\ c[1].do = "route" /\ m[i] = Route(c[1].event, c[1].to \ {s})
    BY <1>2, <2>1 DEF Made
  <2>3. k = 1 /\ 1 \in DOMAIN c
    BY <1>1, <2>2
  <2>4. d[i].event = c[1].event /\ d[i].to = c[1].to \ {s}
    BY <2>1, <2>2 DEF Route
  <2> QED BY <1>1, <1>2, <2>2, <2>3, <2>4 DEF Routes, d
<1>4. CASE ~(i <= Len(m))
  <2>1. d[i] = c[k] /\ k \in 1..Len(c) /\ k # 1
    BY <1>1, <1>2, <1>4
  <2> QED BY <1>1, <1>2, <2>1 DEF Routes, d
<1> QED BY <1>3, <1>4

\* The routings rely on nothing that such a step changes: the event on top is
\* noted for s only.
LEMMA FramesAfter ==
    ASSUME NEW c \in Seq(Call), c # <<>>, NEW s \in Sub, NEW m, Made(m, c, s),
           NEW f, NEW g, NEW n \in Nat, FramesOK(c, f, n),
           \A t \in Sub \ {s} : g[t].routed = f[t].routed,
           \/ g[s].routed = f[s].routed
           \/ c[1].do = "route" /\ g[s].routed = f[s].routed \cup {c[1].event.id},
           \A j \in Routes(c) : c[j].to \subseteq Sub
    PROVE  FramesOK(m \o Tail(c), g, n)
<1> DEFINE d == m \o Tail(c)
           from(i) == i - Len(m) + 1
<1>1. \A i \in Routes(d) :
         /\ i \in Nat /\ Len(m) \in Nat
         /\ from(i) \in Routes(c)
         /\ d[i].event = c[from(i)].event /\ d[i].to \subseteq c[from(i)].to
         /\ from(i) = 1 => s \notin d[i].to
  BY RoutesAfter
<1> HIDE DEF d
<1>2. ASSUME NEW i \in Routes(d)
      PROVE  d[i].event.id \in 1..n /\ \A t \in d[i].to : d[i].event.id \notin g[t].routed
  <2> DEFINE k == from(i)
  <2>1. k \in Routes(c) /\ d[i].event = c[k].event /\ d[i].to \subseteq c[k].to
    BY <1>1
  <2>2. c[k].event.id \in 1..n /\ \A t \in c[k].to : c[k].event.id \notin f[t].routed
    BY <2>1 DEF FramesOK
  <2> SUFFICES ASSUME NEW t \in d[i].to PROVE c[k].event.id \notin g[t].routed
    BY <2>1, <2>2
  <2>3. t \in c[k].to /\ t \in Sub
    BY <2>1
  <2>4. CASE t # s
    BY <2>2, <2>3, <2>4
  <2>5. CASE t = s /\ k = 1
    BY <1>1, <2>5
  <2>6. CASE t = s /\ k # 1
    <3>1. c[1].do = "route" => c[k].event.id # c[1].event.id
      <4>1. 1 \in DOMAIN c
        BY LenProperties, EmptySeq
      <4> QED BY <2>1, <2>6, <4>1 DEF FramesOK, Routes
    <3> QED BY <2>2, <2>3, <2>6, <3>1
  <2> QED BY <2>4, <2>5, <2>6
<1>3. ASSUME NEW i \in Routes(d), NEW j \in Routes(d), d[i].event.id = d[j].event.id
      PROVE  i = j
  <2>0. /\ from(i) \in Routes(c) /\ from(j) \in Routes(c)
        /\ c[from(i)].event.id = c[from(j)].event.id
    BY <1>1, <1>3
  <2>1. from(i) = from(j)
    BY <2>0 DEF FramesOK
  <2> QED BY <1>1, <2>1
<1> QED BY <1>2, <1>3 DEF FramesOK, d

-----------------------------------------------------------------------------
(* What the steps do, one subscription at a time.                          *)

LEMMA CallFields ==
    ASSUME NEW x \in Call
    PROVE  /\ x.do \in {"route", "kick", "emit"}
           /\ x.do = "route" => x.event \in Event /\ x.to \subseteq Sub
           /\ x.do = "kick" => x.s \in Sub
           /\ x.do = "emit" => x.s \in Sub /\ x.notice \in Notice
BY DEF Call

LEMMA CallsAreCalls ==
    /\ \A e \in Event, to \in SUBSET Sub : Route(e, to) \in Call
    /\ \A s \in Sub : Kick(s) \in Call
    /\ \A s \in Sub, n \in Notice : Emit(s, n) \in Call
BY DEF Route, Kick, Emit, Call

LEMMA OnTop ==
    ASSUME TypeOK, ~Idle
    PROVE  /\ calls \in Seq(Call) /\ calls # <<>>
           /\ 1 \in DOMAIN calls /\ Head(calls) = calls[1] /\ calls[1] \in Call
<1>1. calls \in Seq(Call) /\ calls # <<>>
  BY DEF TypeOK, Idle
<1> QED BY <1>1, LenProperties, EmptySeq

LEMMA SubFields ==
    ASSUME TypeOK, NEW s \in Sub
    PROVE  /\ sub[s] \in State /\ fate[s] \in Fate
           /\ sub[s].queue \in Seq(Event) /\ Len(sub[s].queue) \in 0..Capacity
           /\ sub[s].healthy \in BOOLEAN /\ sub[s].retrying \in BOOLEAN
           /\ sub[s].failures \in Nat /\ sub[s].policy \in Policy
           /\ fate[s].routed \subseteq Nat /\ fate[s].dead \subseteq Nat
           /\ fate[s].dropped \subseteq Nat /\ fate[s].handed \in Seq(Event)
<1>1. sub[s] \in State /\ fate[s] \in Fate /\ Len(sub[s].queue) <= Capacity
  BY DEF TypeOK
<1>2. sub[s].queue \in Seq(Event)
  BY <1>1 DEF State
<1>3. Len(sub[s].queue) \in Nat /\ Capacity \in Nat
  BY <1>2, LenProperties, BusAssumption
<1>4. Len(sub[s].queue) \in 0..Capacity
  BY <1>1, <1>3
<1> QED BY <1>1, <1>2, <1>4 DEF State, Fate

\* The others are left alone.
Others(s) == \A t \in Sub \ {s} : sub'[t] = sub[t] /\ fate'[t] = fate[t]

\* enqueueEvent() of e for s, by its five outcomes.
Refused(s, e) ==
    /\ ~sub[s].healthy /\ sub'[s] = sub[s] /\ unhealthy' = unhealthy
    /\ fate'[s].dead = fate[s].dead \cup {e.id} /\ fate'[s].dropped = fate[s].dropped

Overwhelmed(s, e) ==
    /\ sub[s].healthy /\ sub'[s] = [sub[s] EXCEPT !.healthy = FALSE]
    /\ unhealthy' = unhealthy + 1
    /\ fate'[s].dead = fate[s].dead \cup {e.id} /\ fate'[s].dropped = fate[s].dropped

OldestLost(s, e) ==
    /\ sub[s].healthy /\ Len(sub[s].queue) = Capacity
    /\ sub'[s] = [sub[s] EXCEPT !.queue = Displaced(@, e)] /\ unhealthy' = unhealthy
    /\ fate'[s].dead = fate[s].dead
    /\ fate'[s].dropped = fate[s].dropped \cup {Head(sub[s].queue).id}

NewestLost(s, e) ==
    /\ sub[s].healthy /\ sub'[s] = sub[s] /\ unhealthy' = unhealthy
    /\ fate'[s].dead = fate[s].dead /\ fate'[s].dropped = fate[s].dropped \cup {e.id}

Queued(s, e) ==
    /\ sub[s].healthy /\ Len(sub[s].queue) < Capacity
    /\ sub'[s] = [sub[s] EXCEPT !.queue = Append(@, e)] /\ unhealthy' = unhealthy
    /\ fate'[s].dead = fate[s].dead /\ fate'[s].dropped = fate[s].dropped

Taken(s, e) ==
    /\ sub' \in [Sub -> State] /\ fate' \in [Sub -> Fate] /\ Others(s)
    /\ fate'[s].routed = fate[s].routed \cup {e.id}
    /\ fate'[s].handed = fate[s].handed
    /\ \/ Refused(s, e) \/ Overwhelmed(s, e) \/ OldestLost(s, e)
       \/ NewestLost(s, e) \/ Queued(s, e)

LEMMA MadeOfCalls ==
    ASSUME NEW c, NEW s, c[1].do = "route", NEW r \in Call, r.do = "route",
           r = Route(c[1].event, c[1].to \ {s})
    PROVE  /\ Made(<<r>>, c, s)
           /\ \A k \in Call : k.do # "route" /\ k.s = s => Made(<<k, r>>, c, s)
           /\ \A k, l \in Call : /\ k.do # "route" /\ k.s = s
                               /\ l.do # "route" /\ l.s = s
                               => Made(<<k, l, r>>, c, s)
<1>1. Made(<<r>>, c, s)
  <2>1. <<r>> \in Seq(Call) /\ Len(<<r>>) = 1 /\ <<r>>[1] = r
    OBVIOUS
  <2>2. \A i \in 1..1 : i = 1
    OBVIOUS
  <2> QED BY <2>1, <2>2 DEF Made
<1>2. ASSUME NEW k \in Call, k.do # "route", k.s = s
      PROVE  Made(<<k, r>>, c, s)
  <2> DEFINE m == <<k, r>>
  <2>1. m \in Seq(Call) /\ Len(m) = 2 /\ m[1] = k /\ m[2] = r
    OBVIOUS
  <2>2. \A i \in 1..2 : i = 1 \/ i = 2
    OBVIOUS
  <2> HIDE DEF m
  <2>3. Made(m, c, s)
    BY <1>2, <2>1, <2>2 DEF Made
  <2> QED BY <2>3 DEF m
<1>3. ASSUME NEW k \in Call, NEW l \in Call, k.do # "route", k.s = s,
             l.do # "route", l.s = s
      PROVE  Made(<<k, l, r>>, c, s)
  <2> DEFINE m == <<k, l, r>>
  <2>1. m \in Seq(Call) /\ Len(m) = 3 /\ m[1] = k /\ m[2] = l /\ m[3] = r
    OBVIOUS
  <2>2. \A i \in 1..3 : i = 1 \/ i = 2 \/ i = 3
    OBVIOUS
  <2> HIDE DEF m
  <2>3. Made(m, c, s)
    BY <1>3, <2>1, <2>2 DEF Made
  <2> QED BY <2>3 DEF m
<1> QED BY <1>1, <1>2, <1>3

LEMMA EnqueueFacts ==
    ASSUME TypeOK, ~Idle, calls[1].do = "route", NEW s \in calls[1].to,
           Enqueue(s, calls[1].event, Route(calls[1].event, calls[1].to \ {s}))
    PROVE  /\ Taken(s, calls[1].event)
           /\ \E m : Made(m, calls, s) /\ calls' = m \o Tail(calls)
<1> DEFINE e == calls[1].event
           rest == Route(e, calls[1].to \ {s})
           r == sub[s]
           g == [fate[s] EXCEPT !.routed = @ \cup {e.id}]
<1>1. e \in Event /\ s \in Sub /\ rest \in Call /\ e.id \in Nat
  <2>1. calls[1] \in Call
    BY OnTop
  <2>2. e \in Event /\ calls[1].to \subseteq Sub
    BY <2>1, CallFields
  <2> QED BY <2>2, CallsAreCalls DEF Event
<1>2. /\ sub \in [Sub -> State] /\ fate \in [Sub -> Fate]
      /\ r \in State /\ fate[s] \in Fate /\ r.queue \in Seq(Event)
      /\ Len(r.queue) \in 0..Capacity /\ r.healthy \in BOOLEAN /\ r.policy \in Policy
  BY <1>1, SubFields DEF TypeOK
<1>3. /\ g \in Fate /\ g.routed = fate[s].routed \cup {e.id}
      /\ g.handed = fate[s].handed /\ g.dead = fate[s].dead
      /\ g.dropped = fate[s].dropped
  BY <1>1, <1>2 DEF Fate
<1>4. /\ DeadLetter(g, {e}) \in Fate
      /\ DeadLetter(g, {e}).routed = g.routed /\ DeadLetter(g, {e}).handed = g.handed
      /\ DeadLetter(g, {e}).dead = g.dead \cup {e.id}
      /\ DeadLetter(g, {e}).dropped = g.dropped
  BY ZenonT(60), <1>1, <1>3 DEF DeadLetter, Fate
<1> HIDE DEF g
<1>5. ASSUME NEW x \in Nat
      PROVE  LET h == [g EXCEPT !.dropped = @ \cup {x}]
             IN  /\ h \in Fate /\ h.routed = g.routed /\ h.handed = g.handed
                 /\ h.dead = g.dead /\ h.dropped = g.dropped \cup {x}
  BY <1>3 DEF Fate
<1>6. Capacity \in Nat \ {0}
  BY BusAssumption
<1> DEFINE em(n) == Emit(s, n)
           kick == Kick(s)
<1>7. /\ kick \in Call /\ kick.do = "kick" /\ kick.s = s
      /\ \A n \in Notice : em(n) \in Call /\ em(n).do = "emit" /\ em(n).s = s
  BY <1>1, CallsAreCalls DEF Kick, Emit
<1>8. rest.do = "route" /\ {"subscriber.unhealthy", "subscriber.overflow"} \subseteq Notice
  BY DEF Route, Notice
<1> HIDE DEF rest, kick, em
<1>9. Made(<<rest>>, calls, s) /\ Made(<<kick, rest>>, calls, s)
  BY <1>1, <1>7, <1>8, MadeOfCalls DEF rest
<1>10. \A n \in Notice : Made(<<em(n), rest>>, calls, s) /\ Made(<<em(n), kick, rest>>, calls, s)
  BY <1>1, <1>7, <1>8, MadeOfCalls DEF rest
<1>11. CASE ~r.healthy /\ fate' = [fate EXCEPT ![s] = DeadLetter(g, {e})]
             /\ Becomes(<<rest>>) /\ UNCHANGED <<sub, unhealthy>>
  <2>1. Taken(s, e)
    BY <1>1, <1>2, <1>3, <1>4, <1>11 DEF Taken, Refused, Others
  <2> QED BY <1>9, <1>11, <2>1 DEF Becomes
<1>12. CASE /\ r.healthy /\ Len(r.queue) = Capacity
            /\ sub' = [sub EXCEPT ![s].healthy = FALSE]
            /\ unhealthy' = unhealthy + 1
            /\ fate' = [fate EXCEPT ![s] = DeadLetter(g, {e})]
            /\ Becomes(<<em("subscriber.unhealthy"), rest>>)
  <2>1. sub' \in [Sub -> State] /\ sub'[s] = [r EXCEPT !.healthy = FALSE]
    BY <1>1, <1>2, <1>12 DEF State
  <2>2. Taken(s, e)
    BY <1>1, <1>2, <1>3, <1>4, <1>12, <2>1 DEF Taken, Overwhelmed, Others
  <2> QED BY <1>8, <1>10, <1>12, <2>2 DEF Becomes
<1>13. CASE /\ r.healthy /\ Len(r.queue) = Capacity
            /\ sub' = [sub EXCEPT ![s].queue = Displaced(@, e)]
            /\ fate' = [fate EXCEPT ![s] = [g EXCEPT !.dropped = @ \cup {Head(r.queue).id}]]
            /\ Becomes(<<em("subscriber.overflow"), kick, rest>>)
            /\ UNCHANGED unhealthy
  <2>1. r.queue # <<>>
    BY <1>6, <1>13, EmptySeq
  <2>2. Head(r.queue) \in Event /\ Tail(r.queue) \in Seq(Event)
    BY <1>2, <2>1, HeadTailProperties
  <2>3. Displaced(r.queue, e) \in Seq(Event)
    BY <1>1, <2>2, AppendProperties DEF Displaced
  <2>4. Head(r.queue).id \in Nat
    BY <2>2 DEF Event
  <2>5. sub' \in [Sub -> State] /\ sub'[s] = [r EXCEPT !.queue = Displaced(@, e)]
    BY <1>1, <1>2, <1>13, <2>3 DEF State
  <2>6. Taken(s, e)
    BY <1>1, <1>2, <1>3, <1>5, <1>13, <2>4, <2>5 DEF Taken, OldestLost, Others
  <2> QED BY <1>8, <1>10, <1>13, <2>6 DEF Becomes
<1>14. CASE /\ r.healthy
            /\ fate' = [fate EXCEPT ![s] = [g EXCEPT !.dropped = @ \cup {e.id}]]
            /\ Becomes(<<em("subscriber.overflow"), kick, rest>>)
            /\ UNCHANGED <<sub, unhealthy>>
  <2>1. Taken(s, e)
    BY <1>1, <1>2, <1>3, <1>5, <1>14 DEF Taken, NewestLost, Others
  <2> QED BY <1>8, <1>10, <1>14, <2>1 DEF Becomes
<1>15. CASE /\ r.healthy /\ Len(r.queue) # Capacity
            /\ sub' = [sub EXCEPT ![s].queue = Append(@, e)]
            /\ fate' = [fate EXCEPT ![s] = g]
            /\ Becomes(<<kick, rest>>)
            /\ UNCHANGED unhealthy
  <2>1. Append(r.queue, e) \in Seq(Event) /\ Len(r.queue) < Capacity
    BY <1>1, <1>2, <1>6, <1>15, AppendProperties
  <2>2. sub' \in [Sub -> State] /\ sub'[s] = [r EXCEPT !.queue = Append(@, e)]
    BY <1>1, <1>2, <1>15, <2>1 DEF State
  <2>3. Taken(s, e)
    BY <1>1, <1>2, <1>3, <1>15, <2>1, <2>2 DEF Taken, Queued, Others
  <2> QED BY <1>9, <1>15, <2>3 DEF Becomes
<1> QED BY <1>11, <1>12, <1>13, <1>14, <1>15 DEF Enqueue, g, rest, kick, em

\* A queue that takes an event is going to be looked at.
Kicks(s) ==
    \/ sub'[s].queue = sub[s].queue
    \/ \E i \in DOMAIN calls' : calls'[i] = Kick(s)

LEMMA EnqueueKicks ==
    ASSUME TypeOK, ~Idle, NEW s \in Sub, NEW e \in Event, NEW rest \in Call,
           Enqueue(s, e, rest)
    PROVE  Kicks(s)
<1> DEFINE emit == Emit(s, "subscriber.overflow")
           kick == Kick(s)
<1>1. calls \in Seq(Call) /\ calls # <<>> /\ emit \in Call /\ kick \in Call
  BY OnTop, CallsAreCalls DEF Notice
<1>2. sub \in [Sub -> State]
  BY DEF TypeOK
<1> HIDE DEF emit, kick
<1>3. CASE sub'[s].queue = sub[s].queue
  BY <1>3 DEF Kicks
<1>4. CASE calls' = <<kick, rest>> \o Tail(calls)
  <2> DEFINE m == <<kick, rest>>
  <2>1. m \in Seq(Call) /\ Len(m) = 2 /\ m[1] = kick
    BY <1>1
  <2> HIDE DEF m
  <2>2. /\ Len(calls) \in Nat \ {0} /\ DOMAIN (m \o Tail(calls)) = 1..(Len(m) + Len(calls) - 1)
        /\ \A i \in 1..(Len(m) + Len(calls) - 1) :
              (m \o Tail(calls))[i] = IF i <= Len(m) THEN m[i] ELSE calls[i - Len(m) + 1]
    BY <1>1, <2>1, StackAfter
  <2>3. 1 \in 1..(Len(m) + Len(calls) - 1) /\ 1 <= Len(m)
    BY <2>1, <2>2
  <2>4. 1 \in DOMAIN (m \o Tail(calls)) /\ (m \o Tail(calls))[1] = kick
    BY <2>1, <2>2, <2>3
  <2> QED BY <1>4, <2>4 DEF Kicks, m, kick
<1>5. CASE calls' = <<emit, kick, rest>> \o Tail(calls)
  <2> DEFINE m == <<emit, kick, rest>>
  <2>1. m \in Seq(Call) /\ Len(m) = 3 /\ m[2] = kick
    BY <1>1
  <2> HIDE DEF m
  <2>2. /\ Len(calls) \in Nat \ {0} /\ DOMAIN (m \o Tail(calls)) = 1..(Len(m) + Len(calls) - 1)
        /\ \A i \in 1..(Len(m) + Len(calls) - 1) :
              (m \o Tail(calls))[i] = IF i <= Len(m) THEN m[i] ELSE calls[i - Len(m) + 1]
    BY <1>1, <2>1, StackAfter
  <2>3. 2 \in 1..(Len(m) + Len(calls) - 1) /\ 2 <= Len(m)
    BY <2>1, <2>2
  <2>4. 2 \in DOMAIN (m \o Tail(calls)) /\ (m \o Tail(calls))[2] = kick
    BY <2>1, <2>2, <2>3
  <2> QED BY <1>5, <2>4 DEF Kicks, m, kick
<1> QED BY <1>2, <1>3, <1>4, <1>5 DEF Enqueue, Becomes, State, emit, kick

\* processQueue() for s, by its four outcomes.
Passed(s) ==
    /\ sub'[s] = [sub[s] EXCEPT !.retrying = FALSE] /\ unhealthy' = unhealthy
    /\ fate'[s] = fate[s]
    /\ sub[s].healthy => sub[s].queue = <<>>

Delivered(s) ==
    /\ sub[s].healthy /\ sub[s].queue # <<>>
    /\ sub'[s] = [sub[s] EXCEPT !.retrying = FALSE, !.queue = <<>>, !.failures = 0]
    /\ unhealthy' = unhealthy
    /\ fate'[s] = [fate[s] EXCEPT !.handed = @ \o sub[s].queue]

Postponed(s) ==
    /\ sub[s].healthy /\ fate'[s] = fate[s] /\ unhealthy' = unhealthy
    /\ sub'[s] = [sub[s] EXCEPT !.failures = @ + 1, !.retrying = TRUE]

Abandoned(s) ==
    /\ sub[s].healthy /\ unhealthy' = unhealthy + 1
    /\ sub'[s] = [sub[s] EXCEPT !.retrying = FALSE, !.failures = @ + 1,
                                !.healthy = FALSE, !.queue = <<>>]
    /\ fate'[s] = [fate[s] EXCEPT !.dead = @ \cup Ids(sub[s].queue)]

Served(s) ==
    /\ sub' \in [Sub -> State] /\ fate' \in [Sub -> Fate] /\ Others(s)
    /\ Passed(s) \/ Delivered(s) \/ Postponed(s) \/ Abandoned(s)

LEMMA MadeOfNone ==
    ASSUME NEW s \in Sub
    PROVE  /\ \A c : Made(<<>>, c, s)
           /\ \A n, o \in Notice : \A c : Made(<<Emit(s, n), Emit(s, o)>>, c, s)
<1>1. <<>> \in Seq(Call) /\ Len(<<>>) = 0
  BY EmptySeq
<1>2. \A c : Made(<<>>, c, s)
  BY <1>1 DEF Made
<1>3. ASSUME NEW n \in Notice, NEW o \in Notice, NEW c
      PROVE  Made(<<Emit(s, n), Emit(s, o)>>, c, s)
  <2> DEFINE a == Emit(s, n)
             b == Emit(s, o)
             m == <<a, b>>
  <2>1. a \in Call /\ a.do = "emit" /\ a.s = s /\ b \in Call /\ b.do = "emit" /\ b.s = s
    BY CallsAreCalls DEF Emit
  <2> HIDE DEF a, b
  <2>2. m \in Seq(Call) /\ Len(m) = 2 /\ m[1] = a /\ m[2] = b
    BY <2>1
  <2>3. \A i \in 1..2 : i = 1 \/ i = 2
    OBVIOUS
  <2> HIDE DEF m
  <2>4. Made(m, c, s)
    BY <2>1, <2>2, <2>3 DEF Made
  <2> QED BY <2>4 DEF m, a, b
<1> QED BY <1>2, <1>3

LEMMA ProcessFacts ==
    ASSUME TypeOK, NEW s \in Sub, NEW top, Process(s, top)
    PROVE  /\ Served(s)
           /\ \E m : (\A c : Made(m, c, s)) /\ calls' = IF m = <<>> THEN top ELSE m \o top
<1> DEFINE r == [sub[s] EXCEPT !.retrying = FALSE]
           f == fate[s]
           ms == <<Emit(s, "dlq.overflow"), Emit(s, "subscriber.unhealthy")>>
<1>1. /\ sub \in [Sub -> State] /\ fate \in [Sub -> Fate] /\ sub[s] \in State
      /\ f \in Fate /\ sub[s].queue \in Seq(Event) /\ f.handed \in Seq(Event)
      /\ f.dead \subseteq Nat
  BY SubFields DEF TypeOK
<1>2. /\ r \in State /\ r.queue = sub[s].queue /\ r.healthy = sub[s].healthy
      /\ r.failures = sub[s].failures /\ r.failures \in Nat
  BY <1>1 DEF State
<1>3. (\A c : Made(<<>>, c, s)) /\ (\A c : Made(ms, c, s)) /\ ms # <<>>
  BY MadeOfNone DEF Notice
<1> HIDE DEF ms, r
<1>8. \A n \in Nat : n + 1 \in Nat
  OBVIOUS
<1>4. CASE Stalled(r) /\ sub' = [sub EXCEPT ![s] = r] /\ calls' = top
             /\ UNCHANGED <<unhealthy, fate>>
  <2>1. Served(s)
    BY <1>1, <1>2, <1>4 DEF Served, Passed, Others, Stalled, r
  <2> QED BY <1>3, <1>4, <2>1
<1>5. CASE /\ ~Stalled(r) /\ calls' = top /\ UNCHANGED unhealthy
           /\ sub' = [sub EXCEPT ![s] = [r EXCEPT !.queue = <<>>, !.failures = 0]]
           /\ fate' = [fate EXCEPT ![s].handed = @ \o r.queue]
  <2>1. f.handed \o r.queue \in Seq(Event) /\ <<>> \in Seq(Event)
    BY <1>1, <1>2, ConcatProperties, EmptySeq
  <2>2. /\ fate' = [fate EXCEPT ![s] = [f EXCEPT !.handed = @ \o r.queue]]
        /\ [f EXCEPT !.handed = @ \o r.queue] \in Fate
    BY <1>1, <1>5, <2>1 DEF Fate
  <2>3. [r EXCEPT !.queue = <<>>, !.failures = 0] \in State
    BY <1>2, <2>1 DEF State
  <2>4. /\ sub' \in [Sub -> State] /\ fate' \in [Sub -> Fate] /\ Others(s)
        /\ sub'[s] = [r EXCEPT !.queue = <<>>, !.failures = 0]
        /\ fate'[s] = [f EXCEPT !.handed = @ \o r.queue]
    BY <1>1, <1>5, <2>2, <2>3 DEF Others
  <2>5. [r EXCEPT !.queue = <<>>, !.failures = 0]
          = [sub[s] EXCEPT !.retrying = FALSE, !.queue = <<>>, !.failures = 0]
    BY <1>1 DEF State, r
  <2>6. Delivered(s)
    BY <1>2, <1>5, <2>4, <2>5 DEF Delivered, Stalled
  <2> QED BY <1>3, <1>5, <2>4, <2>6 DEF Served
<1>6. CASE /\ ~Stalled(r) /\ calls' = top /\ UNCHANGED <<unhealthy, fate>>
           /\ sub' = [sub EXCEPT ![s] = [r EXCEPT !.failures = @ + 1, !.retrying = TRUE]]
  <2>1. [r EXCEPT !.failures = @ + 1, !.retrying = TRUE] \in State
    BY <1>2, <1>8 DEF State
  <2>2. [r EXCEPT !.failures = @ + 1, !.retrying = TRUE]
          = [sub[s] EXCEPT !.failures = @ + 1, !.retrying = TRUE]
    BY <1>1, <1>2 DEF State, r
  <2>3. Served(s)
    BY <1>1, <1>6, <1>2, <2>1, <2>2 DEF Served, Postponed, Others, Stalled
  <2> QED BY <1>3, <1>6, <2>3
<1>7. CASE /\ ~Stalled(r) /\ unhealthy' = unhealthy + 1 /\ calls' = ms \o top
           /\ sub' = [sub EXCEPT ![s] = [r EXCEPT !.failures = @ + 1,
                                           !.healthy = FALSE, !.queue = <<>>]]
           /\ fate' = [fate EXCEPT ![s] = DeadLetter(@, ToSet(r.queue))]
  <2>1. Ids(r.queue) \subseteq Nat
    <3>1. \A x \in Ids(r.queue) : \E i \in 1..Len(r.queue) : r.queue[i].id = x
      BY <1>1, <1>2, IdsMembers
    <3>2. \A i \in 1..Len(r.queue) : r.queue[i] \in Event
      BY <1>1, <1>2, ElementOfSeq
    <3>3. \A i \in 1..Len(r.queue) : r.queue[i].id \in Nat
      BY <3>2 DEF Event
    <3> QED BY <3>1, <3>3
  <2>2. DeadLetter(f, ToSet(r.queue)) = [f EXCEPT !.dead = @ \cup Ids(r.queue)]
    BY DEF DeadLetter, Ids
  <2>3. [f EXCEPT !.dead = @ \cup Ids(r.queue)] \in Fate
    BY <1>1, <2>1 DEF Fate
  <2>4. [r EXCEPT !.failures = @ + 1, !.healthy = FALSE, !.queue = <<>>] \in State
    BY <1>2, <1>8, EmptySeq DEF State
  <2>5. /\ sub' \in [Sub -> State] /\ fate' \in [Sub -> Fate] /\ Others(s)
        /\ sub'[s] = [r EXCEPT !.failures = @ + 1, !.healthy = FALSE, !.queue = <<>>]
        /\ fate'[s] = DeadLetter(f, ToSet(r.queue))
    BY <1>1, <1>7, <2>2, <2>3, <2>4 DEF Others
  <2>6. [r EXCEPT !.failures = @ + 1, !.healthy = FALSE, !.queue = <<>>]
          = [sub[s] EXCEPT !.retrying = FALSE, !.failures = @ + 1,
                           !.healthy = FALSE, !.queue = <<>>]
    BY <1>1 DEF State, r
  <2>7. Abandoned(s)
    BY <1>2, <1>7, <2>2, <2>5, <2>6 DEF Abandoned, Stalled
  <2> QED BY <1>3, <1>7, <2>5, <2>7 DEF Served
<1>9. \/ /\ Stalled(r) /\ sub' = [sub EXCEPT ![s] = r] /\ calls' = top
         /\ UNCHANGED <<unhealthy, fate>>
      \/ /\ ~Stalled(r) /\ calls' = top /\ UNCHANGED unhealthy
         /\ sub' = [sub EXCEPT ![s] = [r EXCEPT !.queue = <<>>, !.failures = 0]]
         /\ fate' = [fate EXCEPT ![s].handed = @ \o r.queue]
      \/ /\ ~Stalled(r) /\ calls' = top /\ UNCHANGED <<unhealthy, fate>>
         /\ sub' = [sub EXCEPT ![s] = [r EXCEPT !.failures = @ + 1, !.retrying = TRUE]]
      \/ /\ ~Stalled(r) /\ unhealthy' = unhealthy + 1 /\ calls' = ms \o top
         /\ sub' = [sub EXCEPT ![s] = [r EXCEPT !.failures = @ + 1,
                                         !.healthy = FALSE, !.queue = <<>>]]
         /\ fate' = [fate EXCEPT ![s] = DeadLetter(@, ToSet(r.queue))]
  BY DEF Process, ms, r
<1> QED BY <1>4, <1>5, <1>6, <1>7, <1>9

-----------------------------------------------------------------------------
(* The steps of the bus, as the proofs look at them.                       *)

\* The calls on the stack are replaced by m, which is about s.
Replaced(s) == \E m : Made(m, calls, s) /\ calls' = m \o Tail(calls)

Settled == UNCHANGED <<live, before, tracker, link, seq>>

\* An event reaches s.
Reaches(s) ==
    /\ ~Idle /\ calls[1].do = "route" /\ s \in calls[1].to
    /\ Taken(s, calls[1].event) /\ Kicks(s) /\ Replaced(s) /\ Settled

\* The call on top has nothing to do.
Returns ==
    /\ ~Idle /\ calls' = Tail(calls)
    /\ calls[1].do = "kick" => sub[calls[1].s].retrying
    /\ UNCHANGED <<live, before, sub, unhealthy, tracker, link, seq, fate>>

\* The queue of s is looked at.
LooksAt(s) ==
    /\ ~Idle /\ calls[1].do = "kick" /\ s = calls[1].s
    /\ Served(s) /\ Replaced(s) /\ Settled

\* A notice is published.
Announces ==
    /\ ~Idle /\ calls[1].do = "emit"
    /\ seq' = seq + 1
    /\ tracker' \in [Plugin \X Notice -> {"none", "fresh", "old"}]
    /\ calls' = <<Routing([id |-> seq + 1, topic |-> calls[1].notice], Runtime)>>
                  \o Tail(calls)
    /\ UNCHANGED <<live, before, sub, unhealthy, link, fate>>

\* The retry timer of s.
Retries(s) ==
    /\ Idle /\ sub[s].retrying /\ Served(s) /\ Settled
    /\ \E m \in Seq(Call) :
          /\ calls' = m
          /\ \A i \in 1..Len(m) : m[i].do # "route" /\ m[i].s = s

Outside == UNCHANGED <<live, before, sub, unhealthy, calls, seq, fate>>

LEMMA CallSteps ==
    ASSUME TypeOK, RunCall
    PROVE  \/ \E s \in Sub : Reaches(s) \/ LooksAt(s)
           \/ Returns \/ Announces
<1>1. /\ calls \in Seq(Call) /\ calls # <<>> /\ ~Idle
      /\ Head(calls) = calls[1] /\ calls[1] \in Call /\ Tail(calls) \in Seq(Call)
  <2>1. ~Idle
    BY DEF RunCall, RouteStep, KickStep, EmitStep
  <2> QED BY <2>1, OnTop, HeadTailProperties
<1>2. <<>> \o Tail(calls) = Tail(calls)
  BY <1>1, ConcatEmptySeq
<1>3. CASE RouteStep
  <2>1. calls[1].do = "route" /\ calls[1].to \subseteq Sub
    BY <1>1, <1>3, CallFields DEF RouteStep
  <2>2. CASE Becomes(<<>>) /\ UNCHANGED <<sub, unhealthy, fate>>
    <3>1. Returns
      BY <1>1, <1>2, <1>3, <2>1, <2>2 DEF Returns, Becomes, RouteStep
    <3> QED BY <3>1
  <2>3. ASSUME NEW s \in calls[1].to,
               Enqueue(s, calls[1].event, Route(calls[1].event, calls[1].to \ {s}))
        PROVE  Reaches(s)
    <3>0. /\ s \in Sub /\ calls[1].event \in Event
          /\ Route(calls[1].event, calls[1].to \ {s}) \in Call
      BY <1>1, <2>1, <2>3, CallFields, CallsAreCalls
    <3>1. Taken(s, calls[1].event) /\ Kicks(s) /\ Replaced(s)
      BY <1>1, <2>1, <2>3, <3>0, EnqueueFacts, EnqueueKicks DEF Replaced
    <3> QED BY <1>1, <1>3, <2>1, <3>1 DEF Reaches, RouteStep, Settled
  <2>4. \/ Becomes(<<>>) /\ UNCHANGED <<sub, unhealthy, fate>>
        \/ \E s \in calls[1].to :
              Enqueue(s, calls[1].event, Route(calls[1].event, calls[1].to \ {s}))
    BY <1>1, <1>3 DEF RouteStep
  <2> QED BY <2>1, <2>2, <2>3, <2>4
<1>4. CASE KickStep
  <2> DEFINE s == calls[1].s
  <2>1. calls[1].do = "kick" /\ s \in Sub
    BY <1>1, <1>4, CallFields DEF KickStep
  <2>2. CASE sub[s].retrying
    <3>1. Returns
      BY <1>1, <1>2, <1>4, <2>2 DEF Returns, Becomes, KickStep
    <3> QED BY <3>1
  <2>3. CASE ~sub[s].retrying
    <3>1. Process(s, Tail(calls))
      BY <1>1, <1>4, <2>3 DEF KickStep
    <3>2. Served(s) /\ \E m : /\ \A c : Made(m, c, s)
                              /\ calls' = IF m = <<>> THEN Tail(calls)
                                          ELSE m \o Tail(calls)
      BY <2>1, <3>1, ProcessFacts
    <3>3. Replaced(s)
      BY <1>2, <3>2 DEF Replaced
    <3>4. LooksAt(s)
      BY <1>1, <1>4, <2>1, <3>2, <3>3 DEF LooksAt, KickStep, Settled
    <3> QED BY <2>1, <3>4
  <2> QED BY <2>2, <2>3
<1>5. CASE EmitStep
  <2> DEFINE key == <<calls[1].s[2], calls[1].notice>>
  <2>1. calls[1].do = "emit" /\ calls[1].s \in Sub /\ calls[1].notice \in Notice
    BY <1>1, <1>5, CallFields DEF EmitStep
  <2>2. CASE tracker[key] = "fresh"
    <3>1. Returns
      BY <1>1, <1>2, <1>5, <2>1, <2>2 DEF Returns, Becomes, EmitStep
    <3> QED BY <3>1
  <2>3. CASE tracker[key] # "fresh"
    <3>1. tracker' = [tracker EXCEPT ![key] = "fresh"]
      BY <1>1, <1>5, <2>3 DEF EmitStep
    <3>2. tracker' \in [Plugin \X Notice -> {"none", "fresh", "old"}]
      BY <3>1 DEF TypeOK
    <3>3. Announces
      BY <1>1, <1>5, <2>1, <2>3, <3>2 DEF Announces, Becomes, EmitStep
    <3> QED BY <3>3
  <2> QED BY <2>2, <2>3
<1> QED BY <1>3, <1>4, <1>5 DEF RunCall

LEMMA Steps ==
    ASSUME TypeOK, [Next]_vars
    PROVE  \/ \E s \in Sub : Reaches(s) \/ LooksAt(s) \/ Retries(s)
           \/ Returns \/ Announces
           \/ \E p \in Plugin, t \in Topic : Publish(p, t)
           \/ \E s \in Sub : \E policy \in Asks[s] : Subscribe(s, policy)
           \/ \E gone \in SUBSET live :
                 /\ Idle /\ Forget(gone) /\ UNCHANGED <<tracker, calls, seq>>
                 /\ link' \in [Plugin -> BOOLEAN]
           \/ /\ Outside /\ link' \in [Plugin -> BOOLEAN]
              /\ tracker' \in [Plugin \X Notice -> {"none", "fresh", "old"}]
<1>1. CASE RunCall
  BY <1>1, CallSteps
<1>2. ASSUME NEW s \in Sub, RetryFires(s) PROVE Retries(s)
  <2>1. Process(s, <<>>)
    BY <1>2 DEF RetryFires
  <2>2. PICK m : /\ \A c : Made(m, c, s)
                 /\ calls' = IF m = <<>> THEN <<>> ELSE m \o <<>>
    BY <2>1, ProcessFacts
  <2>3. m \in Seq(Call)
    BY <2>2 DEF Made
  <2>4. calls' = m
    BY <2>2, <2>3, ConcatEmptySeq
  <2>5. \A i \in 1..Len(m) : m[i].do # "route" /\ m[i].s = s
    <3>1. Made(m, <<Kick(s)>>, s) /\ <<Kick(s)>>[1].do # "route"
      BY <2>2 DEF Kick
    <3> QED BY <3>1 DEF Made
  <2> QED BY <1>2, <2>1, <2>3, <2>4, <2>5, ProcessFacts DEF Retries, RetryFires, Settled
<1>3. ASSUME NEW p \in Plugin, RemovePlugin(p)
      PROVE  \E gone \in SUBSET live :
                 /\ Idle /\ Forget(gone) /\ UNCHANGED <<tracker, calls, seq>>
                 /\ link' \in [Plugin -> BOOLEAN]
  <2>1. link' \in [Plugin -> BOOLEAN]
    BY <1>3 DEF RemovePlugin, TypeOK
  <2>2. {s \in live : s[2] = p} \in SUBSET live
    OBVIOUS
  <2> QED BY <1>3, <2>1, <2>2 DEF RemovePlugin
<1>4. ASSUME NEW s \in Sub, Unsubscribe(s)
      PROVE  \E gone \in SUBSET live :
                 /\ Idle /\ Forget(gone) /\ UNCHANGED <<tracker, calls, seq>>
                 /\ link' \in [Plugin -> BOOLEAN]
  <2>1. {s} \in SUBSET live /\ link' \in [Plugin -> BOOLEAN]
    BY <1>4 DEF Unsubscribe, TypeOK
  <2> QED BY <1>4, <2>1 DEF Unsubscribe
<1>5. ASSUME NEW p \in Plugin, LinkChanges(p)
      PROVE  /\ Outside /\ link' \in [Plugin -> BOOLEAN]
             /\ tracker' \in [Plugin \X Notice -> {"none", "fresh", "old"}]
  BY <1>5 DEF LinkChanges, TypeOK, Outside
<1>6. ASSUME NEW p \in Plugin, NEW n \in Notice, WindowEnds(p, n)
      PROVE  /\ Outside /\ link' \in [Plugin -> BOOLEAN]
             /\ tracker' \in [Plugin \X Notice -> {"none", "fresh", "old"}]
  BY <1>6 DEF WindowEnds, TypeOK, Outside
<1>7. CASE UNCHANGED vars
  BY <1>7 DEF vars, TypeOK, Outside
<1>8. CASE Next
  BY <1>1, <1>2, <1>3, <1>4, <1>5, <1>6, <1>8 DEF Next, RunCall
<1> QED BY <1>7, <1>8

-----------------------------------------------------------------------------
(* Types, and the counter of unhealthy subscriptions.                      *)

Unhealthy == {s \in Sub : ~sub[s].healthy}

CountInv == IsFiniteSet(Unhealthy) /\ unhealthy = Cardinality(Unhealthy)

\* The outcomes of processQueue(), field by field.
LEMMA ServedFields ==
    ASSUME TypeOK, NEW s \in Sub, Served(s)
    PROVE  /\ fate'[s].routed = fate[s].routed /\ fate'[s].dropped = fate[s].dropped
           /\ \/ /\ Passed(s) /\ sub'[s].queue = sub[s].queue
                 /\ sub'[s].healthy = sub[s].healthy
                 /\ fate'[s].handed = fate[s].handed /\ fate'[s].dead = fate[s].dead
              \/ /\ Delivered(s) /\ sub'[s].queue = <<>> /\ sub'[s].healthy
                 /\ fate'[s].handed = fate[s].handed \o sub[s].queue
                 /\ fate'[s].dead = fate[s].dead
              \/ /\ Postponed(s) /\ sub'[s].queue = sub[s].queue
                 /\ sub'[s].healthy /\ sub'[s].retrying
                 /\ fate'[s].handed = fate[s].handed /\ fate'[s].dead = fate[s].dead
              \/ /\ Abandoned(s) /\ sub'[s].queue = <<>> /\ ~sub'[s].healthy
                 /\ fate'[s].handed = fate[s].handed
                 /\ fate'[s].dead = fate[s].dead \cup Ids(sub[s].queue)
<1>1. sub[s] \in State /\ fate[s] \in Fate
  BY SubFields
<1>2. CASE Passed(s)
  BY <1>1, <1>2 DEF Passed, State
<1>3. CASE Delivered(s)
  <2>1. sub'[s].queue = <<>> /\ sub'[s].healthy
    BY <1>1, <1>3 DEF Delivered, State
  <2>2. /\ fate'[s].routed = fate[s].routed /\ fate'[s].dropped = fate[s].dropped
        /\ fate'[s].dead = fate[s].dead
        /\ fate'[s].handed = fate[s].handed \o sub[s].queue
    BY <1>1, <1>3 DEF Delivered, Fate
  <2> QED BY <1>3, <2>1, <2>2
<1>4. CASE Postponed(s)
  BY <1>1, <1>4 DEF Postponed, State
<1>5. CASE Abandoned(s)
  <2>1. sub'[s].queue = <<>> /\ ~sub'[s].healthy
    BY <1>1, <1>5 DEF Abandoned, State
  <2>2. /\ fate'[s].routed = fate[s].routed /\ fate'[s].dropped = fate[s].dropped
        /\ fate'[s].dead = fate[s].dead \cup Ids(sub[s].queue)
        /\ fate'[s].handed = fate[s].handed
    BY <1>1, <1>5 DEF Abandoned, Fate
  <2> QED BY <1>5, <2>1, <2>2
<1> QED BY <1>2, <1>3, <1>4, <1>5 DEF Served

LEMMA QueueFits ==
    ASSUME TypeOK, NEW s \in Sub,
           (\E e \in Event : Taken(s, e)) \/ Served(s)
    PROVE  \A t \in Sub : Len(sub'[t].queue) <= Capacity
<1> DEFINE q == sub[s].queue
<1>1. /\ q \in Seq(Event) /\ Len(q) \in Nat /\ Len(q) <= Capacity
      /\ sub[s] \in State /\ Capacity \in Nat \ {0} /\ Len(<<>>) = 0
  BY SubFields, BusAssumption, EmptySeq
<1>2. Others(s)
  BY DEF Taken, Served
<1>3. Len(sub'[s].queue) <= Capacity
  <2>1. CASE Served(s)
    <3>1. sub'[s].queue = q \/ sub'[s].queue = <<>>
      BY <2>1, ServedFields
    <3> QED BY <1>1, <3>1
  <2>2. ASSUME NEW e \in Event, Taken(s, e)
        PROVE  Len(sub'[s].queue) <= Capacity
    <3>1. CASE OldestLost(s, e)
      <4>1. q # <<>> /\ sub'[s].queue = Append(Tail(q), e)
        BY <1>1, <3>1 DEF OldestLost, Displaced, State
      <4>2. Tail(q) \in Seq(Event) /\ Len(Tail(q)) = Len(q) - 1
        BY <1>1, <4>1, HeadTailProperties
      <4>3. Len(Append(Tail(q), e)) = Len(q) - 1 + 1
        BY <4>2, AppendProperties
      <4> QED BY <1>1, <4>1, <4>3
    <3>2. CASE Queued(s, e)
      <4>1. sub'[s].queue = Append(q, e) /\ Len(q) < Capacity
        BY <1>1, <3>2 DEF Queued, State
      <4>2. Len(Append(q, e)) = Len(q) + 1
        BY <1>1, AppendProperties
      <4> QED BY <1>1, <4>1, <4>2
    <3>3. CASE Refused(s, e) \/ NewestLost(s, e) \/ Overwhelmed(s, e)
      BY <1>1, <3>3 DEF Refused, NewestLost, Overwhelmed, State
    <3> QED BY <2>2, <3>1, <3>2, <3>3 DEF Taken
  <2> QED BY <2>1, <2>2
<1>4. ASSUME NEW t \in Sub, t # s PROVE Len(sub'[t].queue) <= Capacity
  <2>1. sub'[t] = sub[t]
    BY <1>2, <1>4 DEF Others
  <2> QED BY <2>1 DEF TypeOK
<1> QED BY <1>3, <1>4

\* One subscription more is unhealthy, or none is.
LEMMA CountAfter ==
    ASSUME TypeOK, CountInv, NEW s \in Sub, Others(s), sub' \in [Sub -> State],
           \/ sub'[s].healthy = sub[s].healthy /\ unhealthy' = unhealthy
           \/ /\ sub[s].healthy /\ ~sub'[s].healthy
              /\ unhealthy' = unhealthy + 1
    PROVE  CountInv' /\ unhealthy' \in Int
<1>1. \A t \in Sub \ {s} : sub'[t] = sub[t]
  BY DEF Others
<1>2. CASE sub'[s].healthy = sub[s].healthy /\ unhealthy' = unhealthy
  <2>1. Unhealthy' = Unhealthy
    BY <1>1, <1>2 DEF Unhealthy
  <2> QED BY <1>2, <2>1 DEF CountInv, TypeOK
<1>3. CASE sub[s].healthy /\ ~sub'[s].healthy /\ unhealthy' = unhealthy + 1
  <2>1. Unhealthy' = Unhealthy \cup {s} /\ s \notin Unhealthy
    BY <1>1, <1>3 DEF Unhealthy
  <2>2. /\ IsFiniteSet(Unhealthy \cup {s})
        /\ Cardinality(Unhealthy \cup {s}) = Cardinality(Unhealthy) + 1
    BY <2>1, FS_AddElement DEF CountInv
  <2> QED BY <1>3, <2>1, <2>2 DEF CountInv, TypeOK
<1> QED BY <1>2, <1>3

LEMMA CountStep ==
    ASSUME TypeOK, CountInv, NEW s \in Sub,
           (\E e \in Event : Taken(s, e)) \/ Served(s)
    PROVE  CountInv' /\ unhealthy' \in Int
<1>1. sub[s] \in State
  BY SubFields
<1>2. Others(s) /\ sub' \in [Sub -> State]
  BY DEF Taken, Served
<1>3. \/ sub'[s].healthy = sub[s].healthy /\ unhealthy' = unhealthy
      \/ /\ sub[s].healthy /\ ~sub'[s].healthy
         /\ unhealthy' = unhealthy + 1
  <2>1. CASE Served(s)
    <3>1. CASE ~Abandoned(s)
      <4>1. \/ Passed(s) /\ sub'[s].healthy = sub[s].healthy
            \/ Delivered(s) /\ sub'[s].healthy
            \/ Postponed(s) /\ sub'[s].healthy
        BY <2>1, <3>1, ServedFields
      <4>2. Delivered(s) \/ Postponed(s) => sub[s].healthy
        BY DEF Delivered, Postponed
      <4>3. unhealthy' = unhealthy
        BY <4>1 DEF Passed, Delivered, Postponed
      <4>4. sub[s].healthy \in BOOLEAN /\ sub'[s].healthy \in BOOLEAN
        BY <1>1, <1>2 DEF State
      <4> QED BY <4>1, <4>2, <4>3, <4>4
    <3>2. CASE Abandoned(s)
      <4>1. sub[s].healthy /\ unhealthy' = unhealthy + 1
        BY <3>2 DEF Abandoned
      <4>2. ~sub'[s].healthy
        BY <1>1, <3>2 DEF Abandoned, State
      <4> QED BY <4>1, <4>2
    <3> QED BY <3>1, <3>2
  <2>2. ASSUME NEW e \in Event, Taken(s, e)
        PROVE  \/ sub'[s].healthy = sub[s].healthy /\ unhealthy' = unhealthy
               \/ /\ sub[s].healthy /\ ~sub'[s].healthy
                  /\ unhealthy' = unhealthy + 1
    BY <1>1, <2>2 DEF Taken, Refused, Overwhelmed, OldestLost, NewestLost,
                      Queued, State
  <2> QED BY <2>1, <2>2
<1> QED BY <1>2, <1>3, CountAfter

\* The unhealthy ones among those gone are no longer counted.
LEMMA CountForget ==
    ASSUME TypeOK, CountInv, NEW gone \in SUBSET live, Forget(gone)
    PROVE  CountInv' /\ unhealthy' \in Int /\ sub' \in [Sub -> State]
<1> DEFINE G == {s \in gone : ~sub[s].healthy}
<1>1. G \subseteq Unhealthy /\ gone \subseteq Sub
  BY DEF Unhealthy, TypeOK
<1>2. /\ NewState("mark_unhealthy") \in State
      /\ NewState("mark_unhealthy").healthy = TRUE
  BY EmptySeq DEF NewState, State, Policy
<1>3. /\ sub' \in [Sub -> State]
      /\ \A s \in Sub : sub'[s] = IF s \in gone THEN NewState("mark_unhealthy") ELSE sub[s]
  BY <1>2 DEF Forget, TypeOK
<1>4. Unhealthy' = Unhealthy \ G
  BY <1>1, <1>2, <1>3 DEF Unhealthy
<1>5. unhealthy' = unhealthy - Cardinality(G)
  BY DEF Forget
<1> HIDE DEF G
<1>6. /\ IsFiniteSet(G) /\ Cardinality(G) \in Nat
      /\ Unhealthy \cap G = G
  BY <1>1, FS_Subset, FS_CardinalityType DEF CountInv
<1>7. /\ IsFiniteSet(Unhealthy \ G)
      /\ Cardinality(Unhealthy \ G) = Cardinality(Unhealthy) - Cardinality(G)
  BY <1>6, FS_Difference DEF CountInv
<1>8. Cardinality(Unhealthy) \in Nat
  BY FS_CardinalityType DEF CountInv
<1> QED BY <1>3, <1>4, <1>5, <1>6, <1>7, <1>8 DEF CountInv

LEMMA RoutingIsCall ==
    ASSUME TypeOK, NEW t \in Topic \cup Notice, NEW source
    PROVE  LET r == Routing([id |-> seq + 1, topic |-> t], source)
           IN  /\ r \in Call /\ r.do = "route" /\ r.to \subseteq live
               /\ r.event.id = seq + 1 /\ r.event.topic = t
<1> DEFINE e == [id |-> seq + 1, topic |-> t]
           to == {s \in live : e.topic \in Covers[s[1]] /\ s[2] # source}
<1>1. seq + 1 \in Nat
  BY DEF TypeOK
<1>2. e \in Event /\ e.id = seq + 1 /\ e.topic = t
  BY <1>1 DEF Event
<1>3. to \subseteq live /\ to \in SUBSET Sub
  BY DEF TypeOK
<1> HIDE DEF e, to
<1>4. Route(e, to) \in Call
  BY <1>2, <1>3, CallsAreCalls
<1>5. Routing(e, source) = Route(e, to)
  BY DEF Routing, to
<1> QED BY <1>2, <1>3, <1>4, <1>5 DEF Route, e

\* The stack after a notice was published.
LEMMA AnnouncedCalls ==
    ASSUME TypeOK, Announces
    PROVE  /\ calls' \in Seq(Call)
           /\ \E r \in Call :
                 /\ r.do = "route" /\ r.to \subseteq live
                 /\ r.event.id = seq + 1 /\ r.event.topic \in Notice
                 /\ \A i \in DOMAIN calls' :
                       \/ i = 1 /\ calls'[i] = r
                       \/ i \in DOMAIN calls /\ calls'[i] = calls[i] /\ i # 1
<1> DEFINE r == Routing([id |-> seq + 1, topic |-> calls[1].notice], Runtime)
<1>1. calls[1].notice \in Notice
  BY OnTop, CallFields DEF Announces
<1>2. /\ r \in Call /\ r.do = "route" /\ r.to \subseteq live
      /\ r.event.id = seq + 1 /\ r.event.topic \in Notice
  BY <1>1, RoutingIsCall
<1> HIDE DEF r
<1>3. calls' = <<r>> \o Tail(calls)
  BY DEF Announces, r
<1>4. <<r>> \in Seq(Call) /\ Len(<<r>>) = 1 /\ <<r>>[1] = r
  BY <1>2
<1>5. /\ calls' \in Seq(Call)
      /\ DOMAIN calls' = 1..(1 + Len(calls) - 1) /\ Len(calls) \in Nat
      /\ \A i \in 1..(1 + Len(calls) - 1) :
            calls'[i] = IF i <= 1 THEN <<r>>[i] ELSE calls[i - 1 + 1]
  BY <1>3, <1>4, OnTop, StackAfter DEF Announces
<1>6. ASSUME NEW i \in DOMAIN calls'
      PROVE  \/ i = 1 /\ calls'[i] = r
             \/ i \in DOMAIN calls /\ calls'[i] = calls[i] /\ i # 1
  <2>1. i \in 1..Len(calls) /\ i \in 1..(1 + Len(calls) - 1) /\ i - 1 + 1 = i
    BY <1>5
  <2>2. DOMAIN calls = 1..Len(calls)
    BY OnTop, LenProperties DEF Announces
  <2>3. CASE i <= 1
    <3>1. i = 1
      BY <1>5, <2>1, <2>3
    <3> QED BY <1>4, <1>5, <2>1, <2>3, <3>1
  <2>4. CASE ~(i <= 1)
    BY <1>5, <2>1, <2>2, <2>4
  <2> QED BY <2>3, <2>4
<1> QED BY <1>2, <1>5, <1>6

\* The stack after a plugin has published.
LEMMA PublishedCalls ==
    ASSUME TypeOK, NEW p \in Plugin, NEW t \in Topic, Publish(p, t)
    PROVE  /\ calls' \in Seq(Call)
           /\ \E r \in Call :
                 /\ r.do = "route" /\ r.to \subseteq live
                 /\ r.event.id = seq + 1 /\ r.event.topic = t
                 /\ \A i \in DOMAIN calls' : i = 1 /\ calls'[i] = r
<1> DEFINE r == Routing([id |-> seq + 1, topic |-> t], p)
<1>1. /\ r \in Call /\ r.do = "route" /\ r.to \subseteq live
      /\ r.event.id = seq + 1 /\ r.event.topic = t
  BY RoutingIsCall
<1> HIDE DEF r
<1>2. calls' = <<r>>
  BY DEF Publish, r
<1>3. calls' \in Seq(Call) /\ \A i \in DOMAIN calls' : i = 1 /\ calls'[i] = r
  BY <1>1, <1>2
<1> QED BY <1>1, <1>3

LEMMA InitTypes == Init => TypeOK /\ CountInv
<1> SUFFICES ASSUME Init PROVE TypeOK /\ CountInv
  OBVIOUS
<1>1. /\ <<>> \in Seq(Event) /\ Len(<<>>) = 0 /\ <<>> \in Seq(Call)
      /\ Capacity \in Nat
  BY EmptySeq, BusAssumption
<1>2. /\ NewState("mark_unhealthy") \in State /\ NewState("mark_unhealthy").healthy = TRUE
      /\ NewState("mark_unhealthy").queue = <<>>
  BY <1>1 DEF NewState, State, Policy
<1>3. NoFate \in Fate
  BY <1>1 DEF NoFate, Fate
<1>4. TypeOK
  BY <1>1, <1>2, <1>3 DEF Init, TypeOK
<1>5. Unhealthy = {}
  BY <1>2 DEF Init, Unhealthy
<1> QED BY <1>4, <1>5, FS_EmptySet DEF CountInv, Init

LEMMA StepTypes ==
    ASSUME TypeOK, CountInv, OffIsEmpty, [Next]_vars
    PROVE  TypeOK' /\ CountInv'
<1> USE DEF Settled
<1>1. ASSUME NEW s \in Sub, Reaches(s) \/ LooksAt(s)
      PROVE  TypeOK' /\ CountInv'
  <2>1. (\E e \in Event : Taken(s, e)) \/ Served(s)
    BY <1>1, OnTop, CallFields DEF Reaches, LooksAt
  <2>2. CountInv' /\ unhealthy' \in Int /\ \A t \in Sub : Len(sub'[t].queue) <= Capacity
    BY <2>1, CountStep, QueueFits
  <2>3. calls' \in Seq(Call)
    <3>1. PICK m : Made(m, calls, s) /\ calls' = m \o Tail(calls)
      BY <1>1 DEF Reaches, LooksAt, Replaced
    <3> QED BY <1>1, <3>1, OnTop, StackAfter DEF Made, Reaches, LooksAt
  <2>4. sub' \in [Sub -> State] /\ fate' \in [Sub -> Fate]
    BY <2>1 DEF Taken, Served
  <2>5. UNCHANGED <<live, before, tracker, link, seq>>
    BY <1>1 DEF Reaches, LooksAt
  <2> QED BY <2>2, <2>3, <2>4, <2>5 DEF TypeOK
<1>2. ASSUME NEW s \in Sub, Retries(s)
      PROVE  TypeOK' /\ CountInv'
  <2>1. CountInv' /\ unhealthy' \in Int /\ \A t \in Sub : Len(sub'[t].queue) <= Capacity
    BY <1>2, CountStep, QueueFits DEF Retries
  <2> QED BY <1>2, <2>1 DEF Retries, TypeOK, Served
<1>3. CASE Returns
  <2>1. calls' \in Seq(Call)
    BY <1>3, OnTop, HeadTailProperties DEF Returns
  <2> QED BY <1>3, <2>1 DEF Returns, TypeOK, CountInv, Unhealthy
<1>4. CASE Announces
  <2>1. calls' \in Seq(Call) /\ seq' \in Nat
    BY <1>4, AnnouncedCalls DEF Announces, TypeOK
  <2> QED BY <1>4, <2>1 DEF Announces, TypeOK, CountInv, Unhealthy
<1>5. ASSUME NEW p \in Plugin, NEW t \in Topic, Publish(p, t)
      PROVE  TypeOK' /\ CountInv'
  <2>1. calls' \in Seq(Call) /\ seq' \in Nat
    BY <1>5, PublishedCalls DEF Publish, TypeOK
  <2> QED BY <1>5, <2>1 DEF Publish, TypeOK, CountInv, Unhealthy
<1>6. ASSUME NEW s \in Sub, NEW policy \in Asks[s], Subscribe(s, policy)
      PROVE  TypeOK' /\ CountInv'
  <2>1. NewState(policy) \in State /\ NewState(policy).queue = <<>>
    <3>1. policy \in Policy
      BY BusAssumption DEF Sub
    <3> QED BY <3>1, EmptySeq DEF NewState, State
  <2>2. NoFate \in Fate
    BY EmptySeq DEF NoFate, Fate
  <2>3. sub' \in [Sub -> State] /\ fate' \in [Sub -> Fate]
    BY <1>6, <2>1, <2>2 DEF Subscribe, TypeOK
  <2>4. \A t \in Sub : Len(sub'[t].queue) <= Capacity
    BY <1>6, <2>1, EmptySeq, BusAssumption DEF Subscribe, TypeOK
  <2>5. live' \subseteq Sub /\ before' \subseteq live' \X live'
    <3>1. Earlier(s) \subseteq live
      BY DEF Earlier
    <3> QED BY <1>6, <3>1 DEF Subscribe, TypeOK
  <2>6. CountInv'
    <3>1. sub[s].healthy = TRUE /\ sub'[s].healthy = TRUE
      BY <1>6 DEF OffIsEmpty, Subscribe, NewState, TypeOK
    <3>2. \A t \in Sub \ {s} : sub'[t] = sub[t]
      BY <1>6 DEF Subscribe, TypeOK
    <3>3. Unhealthy' = Unhealthy
      BY <3>1, <3>2 DEF Unhealthy
    <3> QED BY <1>6, <3>3 DEF Subscribe, CountInv
  <2> QED BY <1>6, <2>3, <2>4, <2>5, <2>6 DEF Subscribe, TypeOK
<1>7. ASSUME NEW gone \in SUBSET live, Forget(gone),
             UNCHANGED <<tracker, calls, seq>>, link' \in [Plugin -> BOOLEAN]
      PROVE  TypeOK' /\ CountInv'
  <2>1. CountInv' /\ unhealthy' \in Int /\ sub' \in [Sub -> State]
    BY <1>7, CountForget
  <2>2. NoFate \in Fate /\ NewState("mark_unhealthy").queue = <<>>
    BY EmptySeq DEF NoFate, Fate, NewState
  <2>3. fate' \in [Sub -> Fate]
    BY <1>7, <2>2 DEF Forget, TypeOK
  <2>4. \A t \in Sub : Len(sub'[t].queue) <= Capacity
    BY <1>7, <2>2, EmptySeq, BusAssumption DEF Forget, TypeOK
  <2>5. live' \subseteq Sub /\ before' \subseteq live' \X live'
    BY <1>7 DEF Forget, TypeOK
  <2> QED BY <1>7, <2>1, <2>3, <2>4, <2>5 DEF TypeOK
<1>8. CASE /\ Outside /\ link' \in [Plugin -> BOOLEAN]
           /\ tracker' \in [Plugin \X Notice -> {"none", "fresh", "old"}]
  BY <1>8 DEF Outside, TypeOK, CountInv, Unhealthy
<1> QED BY <1>1, <1>2, <1>3, <1>4, <1>5, <1>6, <1>7, <1>8, Steps

-----------------------------------------------------------------------------
(* Only live subscriptions take part.                                      *)

LEMMA InitLive == Init => OffIsEmpty /\ CallsAreLive
<1> SUFFICES ASSUME Init PROVE OffIsEmpty /\ CallsAreLive
  OBVIOUS
<1>1. OffIsEmpty
  BY DEF Init, OffIsEmpty
<1>2. DOMAIN calls = {}
  BY DEF Init
<1> QED BY <1>1, <1>2 DEF CallsAreLive

LEMMA CallsAfter ==
    ASSUME TypeOK, ~Idle, CallsAreLive, live' = live, NEW s \in live, Replaced(s)
    PROVE  CallsAreLive'
<1>1. PICK m : Made(m, calls, s) /\ calls' = m \o Tail(calls)
  BY DEF Replaced
<1>2. calls \in Seq(Call) /\ calls # <<>> /\ m \in Seq(Call)
  BY <1>1, OnTop DEF Made
<1>3. /\ Len(calls) \in Nat \ {0} /\ Len(m) \in Nat
      /\ DOMAIN calls' = 1..(Len(m) + Len(calls) - 1) /\ DOMAIN calls = 1..Len(calls)
      /\ \A i \in 1..(Len(m) + Len(calls) - 1) :
            calls'[i] = IF i <= Len(m) THEN m[i] ELSE calls[i - Len(m) + 1]
  BY <1>1, <1>2, StackAfter, LenProperties
<1> SUFFICES ASSUME NEW i \in DOMAIN calls'
             PROVE  /\ calls'[i].do = "route" => calls'[i].to \subseteq live
                    /\ calls'[i].do = "kick" => calls'[i].s \in live
  BY DEF CallsAreLive
<1>4. CASE i <= Len(m)
  <2>1. i \in 1..Len(m) /\ calls'[i] = m[i]
    BY <1>3, <1>4
  <2>2. CASE m[i].do = "route"
    <3>1. m[i].to = calls[1].to \ {s} /\ calls[1].do = "route"
      BY <1>1, <2>1, <2>2 DEF Made, Route
    <3>2. calls[1].to \subseteq live
      BY <1>3, <3>1 DEF CallsAreLive
    <3> QED BY <2>1, <2>2, <3>1, <3>2
  <2>3. CASE m[i].do # "route"
    BY <1>1, <2>1, <2>3 DEF Made
  <2> QED BY <2>2, <2>3
<1>5. CASE ~(i <= Len(m))
  <2>1. i - Len(m) + 1 \in DOMAIN calls /\ calls'[i] = calls[i - Len(m) + 1]
    BY <1>3, <1>5
  <2> QED BY <2>1 DEF CallsAreLive
<1> QED BY <1>4, <1>5

LEMMA TailCalls ==
    ASSUME TypeOK, ~Idle
    PROVE  /\ Tail(calls) \in Seq(Call)
           /\ DOMAIN calls = 1..Len(calls) /\ Len(calls) \in Nat
           /\ DOMAIN Tail(calls) = 1..(Len(calls) - 1)
           /\ \A i \in 1..(Len(calls) - 1) :
                 Tail(calls)[i] = calls[i + 1] /\ i + 1 \in DOMAIN calls
<1>1. /\ Tail(calls) \in Seq(Call) /\ Len(Tail(calls)) = Len(calls) - 1
      /\ \A i \in 1..(Len(calls) - 1) : Tail(calls)[i] = calls[i + 1]
      /\ Len(calls) \in Nat /\ DOMAIN calls = 1..Len(calls)
  BY OnTop, HeadTailProperties, LenProperties
<1>2. DOMAIN Tail(calls) = 1..(Len(calls) - 1)
  BY <1>1, LenProperties
<1>3. \A i \in 1..(Len(calls) - 1) : i + 1 \in 1..Len(calls)
  BY <1>1
<1> QED BY <1>1, <1>2, <1>3

LEMMA StepLive ==
    ASSUME TypeOK, OffIsEmpty, CallsAreLive, [Next]_vars
    PROVE  OffIsEmpty' /\ CallsAreLive'
<1>1. ASSUME NEW s \in Sub, Reaches(s) \/ LooksAt(s)
      PROVE  OffIsEmpty' /\ CallsAreLive'
  <2>1. ~Idle /\ Others(s) /\ live' = live /\ Replaced(s)
    BY <1>1 DEF Reaches, LooksAt, Taken, Served, Settled
  <2>2. s \in live
    <3>1. 1 \in DOMAIN calls
      BY <2>1, OnTop
    <3> QED BY <1>1, <3>1 DEF Reaches, LooksAt, CallsAreLive
  <2>3. CallsAreLive'
    BY <2>1, <2>2, CallsAfter
  <2>4. OffIsEmpty'
    BY <2>1, <2>2 DEF OffIsEmpty, Others
  <2> QED BY <2>3, <2>4
<1>2. ASSUME NEW s \in Sub, Retries(s)
      PROVE  OffIsEmpty' /\ CallsAreLive'
  <2>1. s \in live
    BY <1>2 DEF Retries, OffIsEmpty, NewState
  <2>2. Others(s) /\ live' = live
    BY <1>2 DEF Retries, Served, Settled
  <2>3. OffIsEmpty'
    BY <2>1, <2>2 DEF OffIsEmpty, Others
  <2>4. \A i \in DOMAIN calls' : calls'[i].do # "route" /\ calls'[i].s = s
    BY <1>2, LenProperties DEF Retries
  <2> QED BY <2>1, <2>2, <2>3, <2>4 DEF CallsAreLive
<1>3. CASE Returns
  <2>1. ~Idle /\ calls' = Tail(calls)
    BY <1>3 DEF Returns
  <2>2. CallsAreLive'
    BY <1>3, <2>1, TailCalls DEF Returns, CallsAreLive
  <2> QED BY <1>3, <2>2 DEF Returns, OffIsEmpty
<1>4. CASE Announces
  <2>1. PICK r \in Call :
           /\ r.do = "route" /\ r.to \subseteq live
           /\ \A i \in DOMAIN calls' :
                 \/ i = 1 /\ calls'[i] = r
                 \/ i \in DOMAIN calls /\ calls'[i] = calls[i] /\ i # 1
    <3>1. TypeOK
      OBVIOUS
    <3> QED BY <1>4, <3>1, AnnouncedCalls
  <2>2. CallsAreLive'
    BY <1>4, <2>1 DEF Announces, CallsAreLive
  <2> QED BY <1>4, <2>2 DEF Announces, OffIsEmpty
<1>5. ASSUME NEW p \in Plugin, NEW t \in Topic, Publish(p, t)
      PROVE  OffIsEmpty' /\ CallsAreLive'
  <2>1. PICK r \in Call : /\ r.do = "route" /\ r.to \subseteq live
                         /\ \A i \in DOMAIN calls' : calls'[i] = r
    BY <1>5, PublishedCalls
  <2>2. CallsAreLive'
    BY <1>5, <2>1 DEF Publish, CallsAreLive
  <2> QED BY <1>5, <2>2 DEF Publish, OffIsEmpty
<1>6. ASSUME NEW s \in Sub, NEW policy \in Asks[s], Subscribe(s, policy)
      PROVE  OffIsEmpty' /\ CallsAreLive'
  <2>1. \A t \in Sub \ live' : t \in Sub \ live /\ sub'[t] = sub[t] /\ fate'[t] = fate[t]
    BY <1>6 DEF Subscribe, TypeOK
  <2>2. DOMAIN calls' = {}
    BY <1>6 DEF Subscribe, Idle
  <2> QED BY <2>1, <2>2 DEF OffIsEmpty, CallsAreLive
<1>7. ASSUME NEW gone \in SUBSET live, Idle, Forget(gone),
             UNCHANGED <<tracker, calls, seq>>, link' \in [Plugin -> BOOLEAN]
      PROVE  OffIsEmpty' /\ CallsAreLive'
  <2>1. DOMAIN calls' = {}
    BY <1>7 DEF Idle
  <2>2. OffIsEmpty'
    BY <1>7 DEF Forget, OffIsEmpty, TypeOK
  <2> QED BY <2>1, <2>2 DEF CallsAreLive
<1>8. CASE Outside
  BY <1>8 DEF Outside, OffIsEmpty, CallsAreLive
<1> QED BY <1>1, <1>2, <1>3, <1>4, <1>5, <1>6, <1>7, <1>8, Steps

-----------------------------------------------------------------------------
(* The books.                                                              *)

LEMMA InitBooks == Init => BooksInv
<1> SUFFICES ASSUME Init PROVE BooksInv
  OBVIOUS
<1>1. Routes(calls) = {}
  BY DEF Init, Routes
<1>2. \A s \in Sub : fate[s].routed = {} /\ Books(sub[s].queue, fate[s])
  BY BooksAtFirst DEF Init, NewState, NoFate
<1> QED BY <1>1, <1>2 DEF BooksInv, FramesOK

\* The books of s after enqueueEvent().
LEMMA BooksTaken ==
    ASSUME TypeOK, NEW s \in Sub, NEW e \in Event, Taken(s, e),
           Books(sub[s].queue, fate[s]), e.id \notin fate[s].routed
    PROVE  Books(sub'[s].queue, fate'[s])
<1> DEFINE q == sub[s].queue
           f == fate[s]
           g == fate'[s]
<1>1. /\ q \in Seq(Event) /\ sub[s] \in State /\ f \in Fate /\ e.id \in Nat
      /\ Capacity \in Nat \ {0}
  BY SubFields, BusAssumption DEF Event
<1>2. /\ g \in Fate /\ g.routed = f.routed \cup {e.id} /\ g.handed = f.handed
  BY DEF Taken
<1>3. CASE Refused(s, e) \/ Overwhelmed(s, e) \/ NewestLost(s, e)
  <2>1. /\ sub'[s].queue = q
        /\ \/ g.dead = f.dead \cup {e.id} /\ g.dropped = f.dropped
           \/ g.dead = f.dead /\ g.dropped = f.dropped \cup {e.id}
    BY <1>1, <1>3 DEF Refused, Overwhelmed, NewestLost, State
  <2> QED BY <1>1, <1>2, <2>1, BooksGivenUp
<1>4. CASE OldestLost(s, e)
  <2>1. /\ sub'[s].queue = Displaced(q, e) /\ Len(q) = Capacity
        /\ g.dead = f.dead /\ g.dropped = f.dropped \cup {Head(q).id}
    BY <1>1, <1>4 DEF OldestLost, State
  <2>2. q # <<>>
    BY <1>1, <2>1, EmptySeq
  <2> QED BY <1>1, <1>2, <2>1, <2>2, BooksDisplaced
<1>5. CASE Queued(s, e)
  <2>1. sub'[s].queue = Append(q, e) /\ g.dead = f.dead /\ g.dropped = f.dropped
    BY <1>1, <1>5 DEF Queued, State
  <2> QED BY <1>1, <1>2, <2>1, BooksQueued
<1> QED BY <1>3, <1>4, <1>5 DEF Taken

\* The books of s after processQueue().
LEMMA BooksServed ==
    ASSUME TypeOK, NEW s \in Sub, Served(s), Books(sub[s].queue, fate[s])
    PROVE  Books(sub'[s].queue, fate'[s]) /\ fate'[s].routed = fate[s].routed
<1> DEFINE q == sub[s].queue
           f == fate[s]
           g == fate'[s]
<1>1. q \in Seq(Event) /\ f \in Fate /\ g \in Fate
  BY SubFields DEF Served
<1>2. g.routed = f.routed /\ g.dropped = f.dropped
  BY ServedFields
<1>3. \/ sub'[s].queue = q /\ g.handed = f.handed /\ g.dead = f.dead
      \/ sub'[s].queue = <<>> /\ g.handed = f.handed \o q /\ g.dead = f.dead
      \/ sub'[s].queue = <<>> /\ g.handed = f.handed /\ g.dead = f.dead \cup Ids(q)
  BY ServedFields
<1>4. CASE sub'[s].queue = q /\ g.handed = f.handed /\ g.dead = f.dead
  BY <1>2, <1>4 DEF Books
<1>5. CASE sub'[s].queue = <<>> /\ g.handed = f.handed \o q /\ g.dead = f.dead
  BY <1>1, <1>2, <1>5, BooksHandedOver
<1>6. CASE sub'[s].queue = <<>> /\ g.handed = f.handed /\ g.dead = f.dead \cup Ids(q)
  BY <1>1, <1>2, <1>6, BooksDrained
<1> QED BY <1>2, <1>3, <1>4, <1>5, <1>6

\* A new event on top of the stack.
LEMMA FramesNew ==
    ASSUME NEW c \in Seq(Call), NEW d \in Seq(Call), NEW r, NEW f, NEW n \in Nat,
           FramesOK(c, f, n), r.event.id = n + 1,
           \A s \in r.to : f[s].routed \subseteq 1..n,
           \A i \in DOMAIN d : \/ i = 1 /\ d[i] = r
                               \/ i \in DOMAIN c /\ d[i] = c[i] /\ i # 1
    PROVE  FramesOK(d, f, n + 1)
<1>1. ASSUME NEW i \in Routes(d)
      PROVE  \/ i = 1 /\ d[i] = r
             \/ i \in Routes(c) /\ d[i] = c[i] /\ i # 1 /\ d[i].event.id # n + 1
  <2>1. CASE i \in DOMAIN c /\ d[i] = c[i] /\ i # 1
    <3>1. i \in Routes(c)
      BY <2>1 DEF Routes
    <3>2. c[i].event.id \in 1..n
      BY <3>1 DEF FramesOK
    <3> QED BY <2>1, <3>1, <3>2
  <2> QED BY <2>1 DEF Routes
<1>2. ASSUME NEW i \in Routes(d)
      PROVE  /\ d[i].event.id \in 1..(n + 1)
             /\ \A s \in d[i].to : d[i].event.id \notin f[s].routed
  <2>1. CASE i = 1 /\ d[i] = r
    BY <2>1
  <2>2. CASE i \in Routes(c) /\ d[i] = c[i]
    BY <2>2 DEF FramesOK
  <2> QED BY <1>1, <2>1, <2>2
<1>3. \A i, j \in Routes(d) : d[i].event.id = d[j].event.id => i = j
  BY <1>1 DEF FramesOK
<1> QED BY <1>2, <1>3 DEF FramesOK

LEMMA RoutesAreLive ==
    ASSUME TypeOK, CallsAreLive
    PROVE  /\ \A i \in Routes(calls) : calls[i].to \subseteq live /\ calls[i].to \subseteq Sub
           /\ seq \in Nat
BY DEF CallsAreLive, Routes, TypeOK

LEMMA StepBooks ==
    ASSUME TypeOK, OffIsEmpty, CallsAreLive, BooksInv, [Next]_vars
    PROVE  BooksInv'
<1>1. ASSUME NEW s \in Sub, Reaches(s)
      PROVE  BooksInv'
  <2> DEFINE e == calls[1].event
  <2>1. /\ ~Idle /\ calls[1].do = "route" /\ s \in calls[1].to /\ Taken(s, e)
        /\ seq' = seq
    BY <1>1 DEF Reaches, Settled
  <2>2. 1 \in Routes(calls) /\ calls[1] \in Call /\ e \in Event
    BY <2>1, OnTop, CallFields DEF Routes
  <2>3. e.id \in 1..seq /\ e.id \notin fate[s].routed
    BY <2>1, <2>2 DEF BooksInv, FramesOK
  <2>4. \A t \in Sub \ {s} : sub'[t] = sub[t] /\ fate'[t] = fate[t]
    BY <2>1 DEF Taken, Others
  <2>5. fate'[s].routed = fate[s].routed \cup {e.id}
    BY <2>1 DEF Taken
  <2>6. Books(sub'[s].queue, fate'[s])
    BY <2>1, <2>2, <2>3, BooksTaken DEF BooksInv
  <2>7. \A t \in Sub : fate'[t].routed \subseteq 1..seq /\ Books(sub'[t].queue, fate'[t])
    BY <2>3, <2>4, <2>5, <2>6 DEF BooksInv
  <2>8. FramesOK(calls', fate', seq)
    <3>1. PICK m : Made(m, calls, s) /\ calls' = m \o Tail(calls)
      BY <1>1 DEF Reaches, Replaced
    <3>2. FramesOK(m \o Tail(calls), fate', seq)
      BY <2>1, <2>4, <2>5, <3>1, OnTop, RoutesAreLive, FramesAfter DEF BooksInv
    <3> QED BY <3>1, <3>2
  <2> QED BY <2>1, <2>7, <2>8 DEF BooksInv
<1>2. ASSUME NEW s \in Sub, Served(s)
      PROVE  /\ \A t \in Sub : fate'[t].routed = fate[t].routed
             /\ \A t \in Sub : Books(sub'[t].queue, fate'[t])
  <2>1. Books(sub'[s].queue, fate'[s]) /\ fate'[s].routed = fate[s].routed
    BY <1>2, BooksServed DEF BooksInv
  <2>2. \A t \in Sub \ {s} : sub'[t] = sub[t] /\ fate'[t] = fate[t]
    BY <1>2 DEF Served, Others
  <2> QED BY <2>1, <2>2 DEF BooksInv
<1>3. ASSUME NEW s \in Sub, LooksAt(s)
      PROVE  BooksInv'
  <2>1. Served(s) /\ ~Idle /\ seq' = seq
    BY <1>3 DEF LooksAt, Settled
  <2>2. PICK m : Made(m, calls, s) /\ calls' = m \o Tail(calls)
    BY <1>3 DEF LooksAt, Replaced
  <2>3. FramesOK(m \o Tail(calls), fate', seq)
    BY <1>2, <2>1, <2>2, OnTop, RoutesAreLive, FramesAfter DEF BooksInv
  <2> QED BY <1>2, <2>1, <2>2, <2>3 DEF BooksInv
<1>4. ASSUME NEW s \in Sub, Retries(s)
      PROVE  BooksInv'
  <2>1. Served(s) /\ seq' = seq /\ Routes(calls') = {}
    BY <1>4, LenProperties DEF Retries, Settled, Routes
  <2> QED BY <1>2, <2>1 DEF BooksInv, FramesOK
<1>5. CASE Returns
  <2>1. ~Idle /\ calls' = Tail(calls) /\ seq' = seq /\ sub' = sub /\ fate' = fate
    BY <1>5 DEF Returns
  <2>2. \A i \in Routes(Tail(calls)) :
           i + 1 \in Routes(calls) /\ Tail(calls)[i] = calls[i + 1] /\ i \in Nat
    BY <2>1, TailCalls DEF Routes
  <2>3. ASSUME NEW i \in Routes(Tail(calls)), NEW j \in Routes(Tail(calls)),
               Tail(calls)[i].event.id = Tail(calls)[j].event.id
        PROVE  i = j
    <3>0. /\ i + 1 \in Routes(calls) /\ j + 1 \in Routes(calls)
          /\ calls[i + 1].event.id = calls[j + 1].event.id
      BY <2>2, <2>3
    <3>1. i + 1 = j + 1
      BY <3>0 DEF BooksInv, FramesOK
    <3> QED BY <2>2, <3>1
  <2>4. FramesOK(Tail(calls), fate, seq)
    BY <2>2, <2>3 DEF BooksInv, FramesOK
  <2> QED BY <2>1, <2>4 DEF BooksInv
<1>6. ASSUME NEW r \in Call, r.to \subseteq live, r.event.id = seq + 1,
             seq' = seq + 1, sub' = sub, fate' = fate, calls' \in Seq(Call),
             \A i \in DOMAIN calls' :
                \/ i = 1 /\ calls'[i] = r
                \/ i \in DOMAIN calls /\ calls'[i] = calls[i] /\ i # 1
      PROVE  BooksInv'
  <2>1. calls \in Seq(Call) /\ seq \in Nat /\ live \subseteq Sub
    BY DEF TypeOK
  <2>2. \A s \in r.to : fate[s].routed \subseteq 1..seq
    BY <1>6, <2>1 DEF BooksInv
  <2>3. FramesOK(calls', fate, seq + 1)
    BY <1>6, <2>1, <2>2, FramesNew DEF BooksInv
  <2>4. 1..seq \subseteq 1..(seq + 1)
    BY <2>1
  <2> QED BY <1>6, <2>3, <2>4 DEF BooksInv
<1>7. CASE Announces
  BY <1>6, <1>7, AnnouncedCalls DEF Announces
<1>8. ASSUME NEW p \in Plugin, NEW t \in Topic, Publish(p, t)
      PROVE  BooksInv'
  BY <1>6, <1>8, PublishedCalls DEF Publish
<1>9. ASSUME NEW s \in Sub, NEW policy \in Asks[s], Subscribe(s, policy)
      PROVE  BooksInv'
  <2>1. /\ Routes(calls') = {} /\ seq' = seq
        /\ sub'[s] = NewState(policy) /\ fate'[s] = NoFate
        /\ \A t \in Sub \ {s} : sub'[t] = sub[t] /\ fate'[t] = fate[t]
    BY <1>9 DEF Subscribe, Idle, Routes, TypeOK
  <2>2. Books(sub'[s].queue, fate'[s]) /\ fate'[s].routed = {}
    BY <2>1, BooksAtFirst DEF NewState, NoFate
  <2> QED BY <2>1, <2>2 DEF BooksInv, FramesOK
<1>10. ASSUME NEW gone \in SUBSET live, Idle, Forget(gone),
              UNCHANGED <<tracker, calls, seq>>
       PROVE  BooksInv'
  <2>1. /\ Routes(calls') = {} /\ seq' = seq
        /\ \A t \in Sub : IF t \in gone
                          THEN sub'[t] = NewState("mark_unhealthy") /\ fate'[t] = NoFate
                          ELSE sub'[t] = sub[t] /\ fate'[t] = fate[t]
    BY <1>10 DEF Forget, Idle, Routes
  <2>2. /\ Books(NewState("mark_unhealthy").queue, NoFate) /\ NoFate.routed = {}
    BY BooksAtFirst DEF NewState, NoFate
  <2> QED BY <2>1, <2>2 DEF BooksInv, FramesOK
<1>11. CASE Outside
  BY <1>11 DEF Outside, BooksInv
<1> QED BY <1>1, <1>3, <1>4, <1>5, <1>7, <1>8, <1>9, <1>10, <1>11, Steps

\* What the bus keeps.
IInv == TypeOK /\ CountInv /\ OffIsEmpty /\ CallsAreLive /\ BooksInv

LEMMA InitIInv == Init => IInv
  BY InitTypes, InitLive, InitBooks DEF IInv

LEMMA StepIInv == IInv /\ [Next]_vars => IInv'
  BY StepTypes, StepLive, StepBooks DEF IInv

LEMMA Invariance == Spec => []IInv
  BY InitIInv, StepIInv, PTL DEF Spec

\* Types: no step leaves them; a queue holds at most Capacity events.
THEOREM TypesHold == Spec => []TypeOK
<1>1. IInv => TypeOK
  BY DEF IInv
<1> QED BY <1>1, Invariance, PTL

\* The counter in the statistics, kept by hand at five places of bus.ts, is
\* the number of unhealthy subscriptions.
THEOREM UnhealthyAreCounted == Spec => []UnhealthyCount
<1>1. IInv => UnhealthyCount
  BY DEF IInv, CountInv, Unhealthy, UnhealthyCount
<1> QED BY <1>1, Invariance, PTL

\* Every event routed to a subscription is in exactly one place: handed over,
\* queued, dead-lettered or dropped.
THEOREM NothingEverVanishes == Spec => []NothingVanishes
<1>1. ASSUME IInv PROVE NothingVanishes
  <2> SUFFICES ASSUME NEW s \in Sub
               PROVE  LET f == fate[s] IN
                      /\ f.routed = Ids(f.handed) \cup Ids(sub[s].queue)
                                      \cup f.dead \cup f.dropped
                      /\ Cardinality(f.routed) =
                           Len(f.handed) + Len(sub[s].queue) + Cardinality(f.dead)
                             + Cardinality(f.dropped)
    BY DEF NothingVanishes
  <2>1. Books(sub[s].queue, fate[s]) /\ fate[s].routed \subseteq 1..seq
    BY <1>1 DEF IInv, BooksInv
  <2>2. sub[s].queue \in Seq(Event) /\ fate[s] \in Fate /\ seq \in Nat
    BY <1>1, SubFields DEF IInv, TypeOK
  <2> QED BY <2>1, <2>2, BooksAddUp DEF Books
<1> QED BY <1>1, Invariance, PTL

-----------------------------------------------------------------------------
(* The order of what plugins publish. An overflow may be announced between *)
(* two subscriptions of one routing, so notices overtake; but a plugin     *)
(* publishes only when the stack is empty, so at most one routing on it is *)
(* of a plugin's event, and that event is the newest wherever it arrives.  *)

Plain(e) == e.topic \in Topic

Ascends(h) ==
    \A i, j \in 1..Len(h) : i < j /\ Plain(h[i]) /\ Plain(h[j]) => h[i].id < h[j].id

Precedes(h, q) ==
    \A i \in 1..Len(h), j \in 1..Len(q) :
        Plain(h[i]) /\ Plain(q[j]) => h[i].id < q[j].id

InTurn(h, q) == Ascends(h) /\ Ascends(q) /\ Precedes(h, q)

Below(q, n) == \A i \in 1..Len(q) : Plain(q[i]) => q[i].id < n

\* What one has been given, by its fate f, and has waiting, in its state r, is
\* older than the event n.
Older(f, r, n) == Below(f.handed, n) /\ Below(r.queue, n)

OrderInv ==
    /\ \A s \in Sub : InTurn(fate[s].handed, sub[s].queue)
    /\ \A i \in Routes(calls) : Plain(calls[i].event) =>
          \A s \in calls[i].to : Older(fate[s], sub[s], calls[i].event.id)
    /\ \A i, j \in Routes(calls) :
          Plain(calls[i].event) /\ Plain(calls[j].event) => i = j

LEMMA EmptyInTurn == InTurn(<<>>, <<>>) /\ \A n : Below(<<>>, n)
  BY EmptySeq DEF InTurn, Ascends, Precedes, Below

LEMMA InTurnAppend ==
    ASSUME NEW h \in Seq(Event), NEW q \in Seq(Event), NEW e \in Event, InTurn(h, q),
           Plain(e) => Below(h, e.id) /\ Below(q, e.id)
    PROVE  /\ InTurn(h, Append(q, e))
           /\ \A n : Below(q, n) /\ (Plain(e) => e.id < n) => Below(Append(q, e), n)
<1> DEFINE a == Append(q, e)
<1>1. /\ Len(a) = Len(q) + 1 /\ Len(q) \in Nat /\ Len(h) \in Nat
      /\ \A i \in 1..Len(q) : a[i] = q[i]
      /\ a[Len(q) + 1] = e
  BY AppendProperties, LenProperties
<1> HIDE DEF a
<1>2. \A i \in 1..Len(a) : \/ i \in 1..Len(q) /\ a[i] = q[i]
                           \/ i = Len(q) + 1 /\ a[i] = e
  BY <1>1
<1>3. Ascends(a)
  <2> SUFFICES ASSUME NEW i \in 1..Len(a), NEW j \in 1..Len(a), i < j,
                      Plain(a[i]), Plain(a[j])
               PROVE  a[i].id < a[j].id
    BY DEF Ascends
  <2>1. i \in 1..Len(q) /\ a[i] = q[i]
    BY <1>1, <1>2
  <2>2. CASE j \in 1..Len(q)
    BY <1>1, <2>1, <2>2 DEF InTurn, Ascends
  <2>3. CASE j = Len(q) + 1
    BY <1>1, <2>1, <2>3 DEF Below
  <2> QED BY <1>2, <2>2, <2>3
<1>4. Precedes(h, a)
  BY <1>2 DEF Precedes, InTurn, Below
<1>5. \A n : Below(q, n) /\ (Plain(e) => e.id < n) => Below(a, n)
  BY <1>2 DEF Below
<1> QED BY <1>3, <1>4, <1>5 DEF InTurn, a

LEMMA InTurnTail ==
    ASSUME NEW h \in Seq(Event), NEW q \in Seq(Event), q # <<>>, InTurn(h, q)
    PROVE  /\ Tail(q) \in Seq(Event) /\ InTurn(h, Tail(q))
           /\ \A n : Below(q, n) => Below(Tail(q), n)
<1> DEFINE a == Tail(q)
<1>1. /\ a \in Seq(Event) /\ Len(a) = Len(q) - 1 /\ Len(q) \in Nat
      /\ \A i \in 1..Len(a) : a[i] = q[i + 1]
  BY HeadTailProperties, LenProperties
<1> HIDE DEF a
<1>2. \A i \in 1..Len(a) : i \in Nat /\ i + 1 \in 1..Len(q) /\ a[i] = q[i + 1]
  BY <1>1
<1>3. Ascends(a)
  <2> SUFFICES ASSUME NEW i \in 1..Len(a), NEW j \in 1..Len(a), i < j,
                      Plain(a[i]), Plain(a[j])
               PROVE  a[i].id < a[j].id
    BY DEF Ascends
  <2>1. /\ i + 1 \in 1..Len(q) /\ j + 1 \in 1..Len(q) /\ i + 1 < j + 1
        /\ a[i] = q[i + 1] /\ a[j] = q[j + 1]
    BY <1>2
  <2> QED BY <2>1 DEF InTurn, Ascends
<1>4. Precedes(h, a)
  BY <1>2 DEF Precedes, InTurn
<1>5. \A n : Below(q, n) => Below(a, n)
  BY <1>2 DEF Below
<1> QED BY <1>1, <1>3, <1>4, <1>5 DEF InTurn, a

\* Two parts in turn are one whole in turn.
LEMMA InTurnConcat ==
    ASSUME NEW h \in Seq(Event), NEW q \in Seq(Event), InTurn(h, q)
    PROVE  /\ InTurn(h \o q, <<>>)
           /\ \A n : Below(h, n) /\ Below(q, n) => Below(h \o q, n)
<1> DEFINE a == h \o q
<1>1. /\ Len(a) = Len(h) + Len(q) /\ Len(q) \in Nat /\ Len(h) \in Nat
      /\ \A i \in 1..(Len(h) + Len(q)) :
            a[i] = IF i <= Len(h) THEN h[i] ELSE q[i - Len(h)]
  BY ConcatProperties, LenProperties
<1> HIDE DEF a
<1>2. \A i \in 1..Len(a) : \/ i \in 1..Len(h) /\ a[i] = h[i]
                           \/ /\ i > Len(h) /\ i - Len(h) \in 1..Len(q)
                              /\ a[i] = q[i - Len(h)]
  BY <1>1
<1>3. Ascends(a)
  <2> SUFFICES ASSUME NEW i \in 1..Len(a), NEW j \in 1..Len(a), i < j,
                      Plain(a[i]), Plain(a[j])
               PROVE  a[i].id < a[j].id
    BY DEF Ascends
  <2>1. CASE j \in 1..Len(h) /\ a[j] = h[j]
    <3>1. i \in 1..Len(h) /\ a[i] = h[i]
      BY <1>1, <1>2, <2>1
    <3> QED BY <2>1, <3>1 DEF InTurn, Ascends
  <2>2. CASE j > Len(h) /\ j - Len(h) \in 1..Len(q) /\ a[j] = q[j - Len(h)]
    <3>1. CASE i \in 1..Len(h) /\ a[i] = h[i]
      BY <2>2, <3>1 DEF InTurn, Precedes
    <3>2. CASE i > Len(h) /\ i - Len(h) \in 1..Len(q) /\ a[i] = q[i - Len(h)]
      <4>1. i - Len(h) < j - Len(h)
        BY <1>1
      <4> QED BY <2>2, <3>2, <4>1 DEF InTurn, Ascends
    <3> QED BY <1>2, <3>1, <3>2
  <2> QED BY <1>2, <2>1, <2>2
<1>4. \A n : Below(h, n) /\ Below(q, n) => Below(a, n)
  BY <1>2 DEF Below
<1>5. Ascends(<<>>) /\ Precedes(a, <<>>)
  BY EmptySeq DEF Ascends, Precedes
<1> QED BY <1>3, <1>4, <1>5 DEF InTurn, a

\* enqueueEvent() for s keeps the turn, and what is older than n if the event is.
LEMMA InTurnTaken ==
    ASSUME TypeOK, NEW s \in Sub, NEW e \in Event, Taken(s, e),
           InTurn(fate[s].handed, sub[s].queue), Plain(e) => Older(fate[s], sub[s], e.id)
    PROVE  /\ InTurn(fate'[s].handed, sub'[s].queue)
           /\ \A n : Older(fate[s], sub[s], n) /\ (Plain(e) => e.id < n)
                        => Older(fate'[s], sub'[s], n)
<1> DEFINE h == fate[s].handed
           q == sub[s].queue
<1>1. h \in Seq(Event) /\ q \in Seq(Event) /\ Len(q) \in 0..Capacity /\ sub[s] \in State
  BY SubFields
<1>2. fate'[s].handed = h
  BY DEF Taken
<1>3. InTurn(h, q) /\ (Plain(e) => Below(h, e.id) /\ Below(q, e.id))
  BY DEF Older
<1>4. \/ sub'[s].queue = q
      \/ sub'[s].queue = Append(q, e)
      \/ sub'[s].queue = Append(Tail(q), e) /\ q # <<>>
  <2>1. Capacity \in Nat \ {0}
    BY BusAssumption
  <2>2. CASE Refused(s, e) \/ Overwhelmed(s, e) \/ NewestLost(s, e) \/ Queued(s, e)
    BY <1>1, <2>2 DEF Refused, Overwhelmed, NewestLost, Queued, State
  <2>3. CASE OldestLost(s, e)
    <3>1. sub'[s].queue = Append(Tail(q), e)
      BY <1>1, <2>3 DEF OldestLost, Displaced, State
    <3>2. q # <<>>
      BY <2>1, <2>3, EmptySeq DEF OldestLost
    <3> QED BY <3>1, <3>2
  <2> QED BY <2>2, <2>3 DEF Taken
<1> DEFINE p == sub'[s].queue
<1>5. /\ InTurn(h, p)
      /\ \A n : Below(h, n) /\ Below(q, n) /\ (Plain(e) => e.id < n) => Below(p, n)
  <2>1. CASE p = q
    BY <1>3, <2>1
  <2>2. CASE p = Append(q, e)
    <3> HIDE DEF h, q, p
    <3> QED BY <1>1, <1>3, <2>2, InTurnAppend
  <2>3. CASE p = Append(Tail(q), e) /\ q # <<>>
    <3> HIDE DEF h, q, p
    <3>1. /\ Tail(q) \in Seq(Event) /\ InTurn(h, Tail(q))
          /\ \A n : Below(q, n) => Below(Tail(q), n)
      BY <1>1, <1>3, <2>3, InTurnTail
    <3>2. Plain(e) => Below(h, e.id) /\ Below(Tail(q), e.id)
      BY <1>3, <3>1
    <3>3. /\ InTurn(h, Append(Tail(q), e))
          /\ \A n : Below(Tail(q), n) /\ (Plain(e) => e.id < n) => Below(Append(Tail(q), e), n)
      BY <1>1, <3>1, <3>2, InTurnAppend
    <3> QED BY <2>3, <3>1, <3>3
  <2> QED BY <1>4, <2>1, <2>2, <2>3
<1> QED BY <1>2, <1>5 DEF Older

\* processQueue() for s keeps the turn, and makes nothing newer.
LEMMA InTurnServed ==
    ASSUME TypeOK, NEW s \in Sub, Served(s), InTurn(fate[s].handed, sub[s].queue)
    PROVE  /\ InTurn(fate'[s].handed, sub'[s].queue)
           /\ \A n : Older(fate[s], sub[s], n) => Older(fate'[s], sub'[s], n)
<1> DEFINE h == fate[s].handed
           q == sub[s].queue
<1>1. h \in Seq(Event) /\ q \in Seq(Event)
  BY SubFields
<1>2. \/ sub'[s].queue = q /\ fate'[s].handed = h
      \/ sub'[s].queue = <<>> /\ fate'[s].handed = h \o q
      \/ sub'[s].queue = <<>> /\ fate'[s].handed = h
  BY ServedFields
<1>3. /\ InTurn(h \o q, <<>>)
      /\ \A n : Below(h, n) /\ Below(q, n) => Below(h \o q, n)
  BY <1>1, InTurnConcat
<1>4. InTurn(h, <<>>) /\ \A n : Below(<<>>, n)
  BY EmptyInTurn, EmptySeq DEF InTurn, Precedes
<1> QED BY <1>2, <1>3, <1>4 DEF Older

LEMMA InitOrder == Init => OrderInv
  BY EmptyInTurn, EmptySeq DEF Init, OrderInv, Routes, NoFate, NewState

\* What has been routed is older than what is published next.
LEMMA NextIsNewest ==
    ASSUME TypeOK, BooksInv, NEW s \in Sub
    PROVE  Older(fate[s], sub[s], seq + 1)
<1>1. /\ fate[s].routed \subseteq 1..seq /\ seq \in Nat
      /\ Ids(fate[s].handed) \subseteq fate[s].routed
      /\ Ids(sub[s].queue) \subseteq fate[s].routed
  BY DEF BooksInv, Books, TypeOK
<1>2. fate[s].handed \in Seq(Event) /\ sub[s].queue \in Seq(Event)
  BY SubFields
<1>3. ASSUME NEW q \in Seq(Event), Ids(q) \subseteq 1..seq
      PROVE  Below(q, seq + 1)
  <2>1. \A i \in 1..Len(q) : q[i].id \in 1..seq
    BY <1>3, IdsMembers
  <2> QED BY <1>1, <2>1 DEF Below
<1> QED BY <1>1, <1>2, <1>3 DEF Older

\* A step about s, on top of the stack.
LEMMA OrderReplaced ==
    ASSUME TypeOK, CallsAreLive, OrderInv, ~Idle, NEW s \in Sub, Replaced(s), Others(s),
           InTurn(fate'[s].handed, sub'[s].queue),
           \/ \A n : Older(fate[s], sub[s], n) => Older(fate'[s], sub'[s], n)
           \/ /\ calls[1].do = "route"
              /\ \A n : /\ Older(fate[s], sub[s], n)
                        /\ Plain(calls[1].event) => calls[1].event.id < n
                        => Older(fate'[s], sub'[s], n)
    PROVE  OrderInv'
<1>1. PICK m : Made(m, calls, s) /\ calls' = m \o Tail(calls)
  BY DEF Replaced
<1>2. /\ calls \in Seq(Call) /\ calls # <<>> /\ 1 \in DOMAIN calls
      /\ \A i \in Routes(calls) : calls[i].to \subseteq Sub
  BY OnTop, RoutesAreLive
<1>3. ASSUME NEW i \in Routes(calls')
      PROVE  LET k == i - Len(m) + 1 IN
             /\ i \in Nat /\ Len(m) \in Nat
             /\ k \in Routes(calls) /\ calls'[i].event = calls[k].event
             /\ calls'[i].to \subseteq calls[k].to
             /\ k = 1 => s \notin calls'[i].to
  BY <1>1, <1>2, <1>3, RoutesAfter
<1>4. \A t \in Sub : InTurn(fate'[t].handed, sub'[t].queue)
  BY DEF Others, OrderInv
<1>5. ASSUME NEW i \in Routes(calls'), Plain(calls'[i].event), NEW t \in calls'[i].to
      PROVE  Older(fate'[t], sub'[t], calls'[i].event.id)
  <2> DEFINE k == i - Len(m) + 1
             n == calls[k].event.id
  <2>1. /\ k \in Routes(calls) /\ calls'[i].event = calls[k].event
        /\ t \in calls[k].to /\ t \in Sub /\ (k = 1 => t # s)
    BY <1>2, <1>3, <1>5
  <2>2. Older(fate[t], sub[t], n)
    BY <1>5, <2>1 DEF OrderInv
  <2>3. CASE t # s
    BY <2>1, <2>2, <2>3 DEF Others, Older
  <2>4. CASE t = s
    <3>1. k # 1
      BY <2>1, <2>4
    <3>2. calls[1].do = "route" => ~Plain(calls[1].event)
      BY <1>2, <1>5, <2>1, <3>1 DEF OrderInv, Routes
    <3>3. Older(fate'[s], sub'[s], n)
      <4> HIDE DEF k, n
      <4> QED BY <2>2, <2>4, <3>2
    <3> QED BY <2>1, <2>4, <3>3
  <2> QED BY <2>3, <2>4
<1>6. ASSUME NEW i \in Routes(calls'), NEW j \in Routes(calls'),
             Plain(calls'[i].event), Plain(calls'[j].event)
      PROVE  i = j
  <2>1. i - Len(m) + 1 = j - Len(m) + 1
    BY <1>3, <1>6 DEF OrderInv
  <2> QED BY <1>3, <1>6, <2>1
<1> QED BY <1>4, <1>5, <1>6 DEF OrderInv

LEMMA StepOrder ==
    ASSUME TypeOK, CallsAreLive, BooksInv, OrderInv, [Next]_vars
    PROVE  OrderInv'
<1>1. ASSUME NEW s \in Sub, Reaches(s)
      PROVE  OrderInv'
  <2> DEFINE e == calls[1].event
  <2>1. /\ ~Idle /\ calls[1].do = "route" /\ s \in calls[1].to /\ Taken(s, e)
        /\ Replaced(s)
    BY <1>1 DEF Reaches
  <2>2. 1 \in Routes(calls) /\ e \in Event
    BY <2>1, OnTop, CallFields DEF Routes
  <2>3. InTurn(fate[s].handed, sub[s].queue) /\ (Plain(e) => Older(fate[s], sub[s], e.id))
    BY <2>1, <2>2 DEF OrderInv
  <2>4. /\ InTurn(fate'[s].handed, sub'[s].queue)
        /\ \A n : Older(fate[s], sub[s], n) /\ (Plain(e) => e.id < n)
                     => Older(fate'[s], sub'[s], n)
    <3> HIDE DEF e
    <3> QED BY <2>1, <2>2, <2>3, InTurnTaken
  <2>5. Others(s)
    BY <2>1 DEF Taken
  <2> QED BY <2>1, <2>4, <2>5, OrderReplaced
<1>2. ASSUME NEW s \in Sub, Served(s)
      PROVE  /\ InTurn(fate'[s].handed, sub'[s].queue)
             /\ \A n : Older(fate[s], sub[s], n) => Older(fate'[s], sub'[s], n)
             /\ Others(s)
  <2>1. InTurn(fate[s].handed, sub[s].queue)
    BY DEF OrderInv
  <2> QED BY <1>2, <2>1, InTurnServed DEF Served
<1>3. ASSUME NEW s \in Sub, LooksAt(s)
      PROVE  OrderInv'
  <2>1. ~Idle /\ Served(s) /\ Replaced(s)
    BY <1>3 DEF LooksAt
  <2> QED BY <1>2, <2>1, OrderReplaced
<1>4. ASSUME NEW s \in Sub, Retries(s)
      PROVE  OrderInv'
  <2>1. Served(s) /\ Routes(calls') = {}
    BY <1>4, LenProperties DEF Retries, Routes
  <2> QED BY <1>2, <2>1 DEF OrderInv, Others
<1>5. CASE Returns
  <2>1. ~Idle /\ calls' = Tail(calls) /\ sub' = sub /\ fate' = fate
    BY <1>5 DEF Returns
  <2>2. \A i \in Routes(calls') :
           i + 1 \in Routes(calls) /\ calls'[i] = calls[i + 1] /\ i \in Nat
    BY <2>1, TailCalls DEF Routes
  <2>3. ASSUME NEW i \in Routes(calls'), NEW j \in Routes(calls'),
               Plain(calls'[i].event), Plain(calls'[j].event)
        PROVE  i = j
    <3>1. i + 1 = j + 1
      BY <2>2, <2>3 DEF OrderInv
    <3> QED BY <2>2, <3>1
  <2>4. ASSUME NEW i \in Routes(calls'), Plain(calls'[i].event), NEW t \in calls'[i].to
        PROVE  Older(fate'[t], sub'[t], calls'[i].event.id)
    <3>1. Older(fate[t], sub[t], calls[i + 1].event.id)
      BY <2>2, <2>4 DEF OrderInv
    <3> QED BY <2>1, <2>2, <3>1 DEF Older
  <2> QED BY <2>1, <2>3, <2>4 DEF OrderInv
<1>6. CASE Announces
  <2>1. PICK r \in Call :
               /\ r.event.topic \in Notice
               /\ \A i \in DOMAIN calls' :
                     \/ i = 1 /\ calls'[i] = r
                     \/ i \in DOMAIN calls /\ calls'[i] = calls[i] /\ i # 1
    BY <1>6, AnnouncedCalls
  <2>2. ~Plain(r.event)
    BY <2>1, BusAssumption DEF Plain
  <2>3. \A i \in Routes(calls') : Plain(calls'[i].event) =>
           i \in Routes(calls) /\ calls'[i] = calls[i]
    BY <2>1, <2>2 DEF Routes
  <2>4. sub' = sub /\ fate' = fate
    BY <1>6 DEF Announces
  <2> QED BY <2>3, <2>4 DEF OrderInv, Older
<1>7. ASSUME NEW p \in Plugin, NEW t \in Topic, Publish(p, t)
      PROVE  OrderInv'
  <2>1. PICK r \in Call :
               /\ r.to \subseteq live /\ r.event.id = seq + 1
               /\ \A i \in DOMAIN calls' : i = 1 /\ calls'[i] = r
    BY <1>7, PublishedCalls
  <2>2. sub' = sub /\ fate' = fate /\ live \subseteq Sub
    BY <1>7 DEF Publish, TypeOK
  <2>3. \A i \in Routes(calls') : i = 1 /\ calls'[i] = r
    BY <2>1 DEF Routes
  <2>4. \A s \in r.to : Older(fate[s], sub[s], r.event.id)
    BY <2>1, <2>2, NextIsNewest
  <2> QED BY <2>2, <2>3, <2>4 DEF OrderInv, Older
<1>8. ASSUME NEW s \in Sub, NEW policy \in Asks[s], Subscribe(s, policy)
      PROVE  OrderInv'
  <2>1. /\ Routes(calls') = {}
        /\ sub'[s] = NewState(policy) /\ fate'[s] = NoFate
        /\ \A t \in Sub \ {s} : sub'[t] = sub[t] /\ fate'[t] = fate[t]
    BY <1>8 DEF Subscribe, Idle, Routes, TypeOK
  <2>2. InTurn(fate'[s].handed, sub'[s].queue)
    BY <2>1, EmptyInTurn DEF NewState, NoFate
  <2> QED BY <2>1, <2>2 DEF OrderInv
<1>9. ASSUME NEW gone \in SUBSET live, Idle, Forget(gone),
             UNCHANGED <<tracker, calls, seq>>
      PROVE  OrderInv'
  <2>1. /\ Routes(calls') = {}
        /\ \A t \in Sub : IF t \in gone
                          THEN sub'[t] = NewState("mark_unhealthy") /\ fate'[t] = NoFate
                          ELSE sub'[t] = sub[t] /\ fate'[t] = fate[t]
    BY <1>9 DEF Forget, Idle, Routes
  <2>2. InTurn(NoFate.handed, NewState("mark_unhealthy").queue)
    BY EmptyInTurn DEF NewState, NoFate
  <2> QED BY <2>1, <2>2 DEF OrderInv
<1>10. CASE Outside
  BY <1>10 DEF Outside, OrderInv, Older
<1> QED BY <1>1, <1>3, <1>4, <1>5, <1>6, <1>7, <1>8, <1>9, <1>10, Steps

\* A plugin's events reach each subscription, in its history and its queue, in
\* the order of their publication and never twice, whatever retries, overflows
\* and the notices that are published in between.
THEOREM InOrderHolds == Spec => []InOrder
<1>1. Init => OrderInv
  BY InitOrder
<1>2. IInv /\ OrderInv /\ [Next]_vars => OrderInv'
  BY StepOrder DEF IInv
<1>3. ASSUME IInv, OrderInv PROVE InOrder
  <2> SUFFICES ASSUME NEW s \in Sub
               PROVE  LET h == fate[s].handed \o sub[s].queue IN
                      \A i, j \in DOMAIN h :
                          i < j /\ h[i].topic = h[j].topic /\ h[i].topic \in Topic
                            => h[i].id < h[j].id
    BY DEF InOrder
  <2> DEFINE h == fate[s].handed \o sub[s].queue
  <2>1. fate[s].handed \in Seq(Event) /\ sub[s].queue \in Seq(Event)
    BY <1>3, SubFields DEF IInv
  <2>2. InTurn(fate[s].handed, sub[s].queue)
    BY <1>3 DEF OrderInv
  <2>3. InTurn(h, <<>>) /\ h \in Seq(Event)
    BY <2>1, <2>2, InTurnConcat, ConcatProperties
  <2> HIDE DEF h
  <2>4. Ascends(h) /\ DOMAIN h = 1..Len(h)
    BY <2>3, LenProperties DEF InTurn
  <2>5. \A i, j \in DOMAIN h :
            i < j /\ h[i].topic = h[j].topic /\ h[i].topic \in Topic => h[i].id < h[j].id
    BY <2>4 DEF Ascends, Plain
  <2> QED BY <2>5 DEF h
<1> QED BY <1>1, <1>2, <1>3, Invariance, PTL DEF Spec

-----------------------------------------------------------------------------
(* No backlog is forgotten: what waits at a healthy subscription is going  *)
(* to be looked at, by a call on the stack or by the timer.                *)

RetryInv ==
    \A s \in Sub : sub[s].healthy /\ sub[s].queue # <<>> =>
        sub[s].retrying \/ \E i \in DOMAIN calls : calls[i] = Kick(s)

\* What is below the top of the stack stays on it.
LEMMA StaysOnStack ==
    ASSUME TypeOK, ~Idle, NEW m \in Seq(Call), calls' = m \o Tail(calls),
           NEW x, x # calls[1], \E i \in DOMAIN calls : calls[i] = x
    PROVE  \E i \in DOMAIN calls' : calls'[i] = x
<1>1. calls \in Seq(Call) /\ calls # <<>>
  BY OnTop
<1>2. PICK i \in DOMAIN calls : calls[i] = x
  OBVIOUS
<1>3. i \in 2..Len(calls) /\ Len(calls) \in Nat
  BY <1>1, <1>2, LenProperties
<1> DEFINE j == Len(m) + i - 1
<1>4. /\ DOMAIN calls' = 1..(Len(m) + Len(calls) - 1) /\ Len(m) \in Nat
      /\ \A k \in 1..(Len(m) + Len(calls) - 1) :
            calls'[k] = IF k <= Len(m) THEN m[k] ELSE calls[k - Len(m) + 1]
  BY <1>1, StackAfter
<1>5. j \in 1..(Len(m) + Len(calls) - 1) /\ ~(j <= Len(m)) /\ j - Len(m) + 1 = i
  BY <1>3, <1>4
<1> HIDE DEF j
<1>6. j \in DOMAIN calls' /\ calls'[j] = calls[i]
  BY <1>4, <1>5
<1> QED BY <1>2, <1>6

LEMMA InitRetry == Init => RetryInv
  BY DEF Init, RetryInv, NewState

LEMMA StepRetry ==
    ASSUME TypeOK, RetryInv, [Next]_vars
    PROVE  RetryInv'
<1> DEFINE Due(t) == sub[t].retrying \/ \E i \in DOMAIN calls : calls[i] = Kick(t)
           DueNext(t) == sub'[t].retrying \/ \E i \in DOMAIN calls' : calls'[i] = Kick(t)
           Waits(t) == sub[t].healthy /\ sub[t].queue # <<>>
           WaitsNext(t) == sub'[t].healthy /\ sub'[t].queue # <<>>
<1>0. \A t \in Sub : Kick(t) \in Call /\ Kick(t).do = "kick" /\ Kick(t).s = t
  BY CallsAreCalls DEF Kick
<1>1. ASSUME NEW s \in Sub, Reaches(s), NEW t \in Sub, WaitsNext(t)
      PROVE  DueNext(t)
  <2>1. /\ ~Idle /\ calls[1].do = "route" /\ Taken(s, calls[1].event)
        /\ Kicks(s) /\ Replaced(s)
    BY <1>1 DEF Reaches
  <2>2. PICK m \in Seq(Call) : calls' = m \o Tail(calls)
    BY <2>1 DEF Replaced, Made
  <2>3. Kick(t) # calls[1]
    BY <1>0, <2>1
  <2>4. CASE t = s /\ \E i \in DOMAIN calls' : calls'[i] = Kick(s)
    BY <2>4
  <2>5. CASE sub'[t].queue = sub[t].queue
    <3>1. sub'[t].retrying = sub[t].retrying /\ (sub'[t].healthy => sub[t].healthy)
      <4>1. CASE t # s
        BY <2>1, <4>1 DEF Taken, Others
      <4>2. CASE t = s
        BY <2>1, <4>2, SubFields DEF Taken, Refused, Overwhelmed, OldestLost, NewestLost,
           Queued, State
      <4> QED BY <4>1, <4>2
    <3>2. Due(t)
      BY <1>1, <2>5, <3>1 DEF RetryInv
    <3>3. CASE sub[t].retrying
      BY <3>1, <3>3
    <3>4. CASE \E i \in DOMAIN calls : calls[i] = Kick(t)
      BY <2>1, <2>2, <2>3, <3>4, StaysOnStack
    <3> QED BY <3>2, <3>3, <3>4
  <2>6. t # s => sub'[t].queue = sub[t].queue
    BY <2>1 DEF Taken, Others
  <2> QED BY <2>1, <2>4, <2>5, <2>6 DEF Kicks
<1>2. ASSUME NEW s \in Sub, Served(s)
      PROVE  /\ sub'[s].healthy /\ sub'[s].queue # <<>> => sub'[s].retrying
             /\ \A t \in Sub \ {s} : sub'[t] = sub[t]
  BY <1>2, ServedFields DEF Served, Others, Passed
<1>3. ASSUME NEW s \in Sub, LooksAt(s), NEW t \in Sub, WaitsNext(t)
      PROVE  DueNext(t)
  <2>1. ~Idle /\ calls[1].do = "kick" /\ s = calls[1].s /\ Served(s) /\ Replaced(s)
    BY <1>3 DEF LooksAt
  <2>2. PICK m \in Seq(Call) : calls' = m \o Tail(calls)
    BY <2>1 DEF Replaced, Made
  <2>3. CASE t = s
    BY <1>2, <1>3, <2>1, <2>3
  <2>4. CASE t # s
    <3>1. sub'[t] = sub[t] /\ Kick(t) # calls[1]
      BY <1>0, <1>2, <2>1, <2>4
    <3>2. Due(t)
      BY <1>3, <3>1 DEF RetryInv
    <3>3. (\E i \in DOMAIN calls : calls[i] = Kick(t)) => DueNext(t)
      BY <2>1, <2>2, <3>1, StaysOnStack
    <3> QED BY <3>1, <3>2, <3>3
  <2> QED BY <2>3, <2>4
<1>4. ASSUME NEW s \in Sub, Retries(s), NEW t \in Sub, WaitsNext(t)
      PROVE  DueNext(t)
  <2>1. Idle /\ Served(s)
    BY <1>4 DEF Retries
  <2>2. CASE t = s
    BY <1>2, <1>4, <2>1, <2>2
  <2>3. CASE t # s
    BY <1>2, <1>4, <2>1, <2>3 DEF RetryInv, Idle
  <2> QED BY <2>2, <2>3
<1>5. CASE Returns
  <2>1. /\ ~Idle /\ calls' = Tail(calls) /\ sub' = sub
        /\ calls[1].do = "kick" => sub[calls[1].s].retrying
    BY <1>5 DEF Returns
  <2>2. <<>> \in Seq(Call) /\ calls' = <<>> \o Tail(calls)
    BY <2>1, OnTop, HeadTailProperties, ConcatEmptySeq, EmptySeq
  <2>3. ASSUME NEW t \in Sub, WaitsNext(t)
        PROVE  DueNext(t)
    <3>1. Due(t)
      BY <2>1, <2>3 DEF RetryInv
    <3>2. CASE Kick(t) = calls[1]
      BY <1>0, <2>1, <3>2
    <3>3. CASE Kick(t) # calls[1] /\ \E i \in DOMAIN calls : calls[i] = Kick(t)
      BY <2>1, <2>2, <3>3, StaysOnStack
    <3> QED BY <2>1, <3>1, <3>2, <3>3
  <2> QED BY <2>3 DEF RetryInv
<1>6. CASE Announces
  <2> DEFINE r == Routing([id |-> seq + 1, topic |-> calls[1].notice], Runtime)
             m == <<r>>
  <2>1. /\ ~Idle /\ calls[1].do = "emit" /\ sub' = sub /\ calls' = m \o Tail(calls)
    BY <1>6 DEF Announces
  <2>2. calls[1].notice \in Notice
    BY <2>1, OnTop, CallFields
  <2>3. r \in Call
    BY <2>2, RoutingIsCall
  <2> HIDE DEF r
  <2>4. m \in Seq(Call)
    BY <2>3
  <2> HIDE DEF m
  <2>5. ASSUME NEW t \in Sub, WaitsNext(t)
        PROVE  DueNext(t)
    <3>1. Due(t) /\ Kick(t) # calls[1]
      BY <1>0, <2>1, <2>5 DEF RetryInv
    <3>2. (\E i \in DOMAIN calls : calls[i] = Kick(t)) => DueNext(t)
      BY <2>1, <2>4, <3>1, StaysOnStack
    <3> QED BY <2>1, <3>1, <3>2
  <2> QED BY <2>5 DEF RetryInv
<1>7. ASSUME Idle, \A t \in Sub : sub'[t] = sub[t] \/ sub'[t].queue = <<>>
      PROVE  RetryInv'
  <2>1. ASSUME NEW t \in Sub, WaitsNext(t)
        PROVE  sub'[t].retrying
    BY <1>7, <2>1 DEF RetryInv, Idle
  <2> QED BY <2>1 DEF RetryInv
<1>8. ASSUME NEW p \in Plugin, NEW t \in Topic, Publish(p, t)
      PROVE  RetryInv'
  BY <1>7, <1>8 DEF Publish
<1>9. ASSUME NEW s \in Sub, NEW policy \in Asks[s], Subscribe(s, policy)
      PROVE  RetryInv'
  BY <1>7, <1>9 DEF Subscribe, TypeOK, NewState
<1>10. ASSUME NEW gone \in SUBSET live, Idle, Forget(gone)
       PROVE  RetryInv'
  BY <1>7, <1>10 DEF Forget, NewState
<1>11. CASE Outside
  BY <1>11 DEF Outside, RetryInv
<1> QED BY <1>1, <1>3, <1>4, <1>5, <1>6, <1>8, <1>9, <1>10, <1>11, Steps DEF RetryInv

\* Between two callbacks a healthy subscription with a backlog has its retry
\* timer running: no backlog waits for the next publication.
THEOREM BacklogIsRetriedHolds == Spec => []BacklogIsRetried
<1>1. Init => RetryInv
  BY InitRetry
<1>2. IInv /\ RetryInv /\ [Next]_vars => RetryInv'
  BY StepRetry DEF IInv
<1>3. RetryInv => BacklogIsRetried
  BY DEF RetryInv, BacklogIsRetried, Idle
<1> QED BY <1>1, <1>2, <1>3, Invariance, PTL DEF Spec

-----------------------------------------------------------------------------
(* Each subscription is a channel: the refinement, one channel at a time.  *)

ChannelMoves(s) ==
    \/ Channel!Open(s) \/ Channel!Close(s) \/ Channel!Accept(s)
    \/ Channel!Displace(s) \/ Channel!HandOver(s) \/ Channel!Fail(s)
    \/ Channel!Stays(s)

\* What a channel shows, before and after the step.
LEMMA ChannelStates ==
    ASSUME NEW s \in Sub
    PROVE  LET status == Status(s)
               pending == sub[s].queue
               received == fate[s].handed
           IN  /\ Channel!Open(s) <=>
                     /\ status = "off" /\ status' = "live"
                     /\ pending' = <<>> /\ received' = <<>>
               /\ Channel!Close(s) <=>
                     /\ status # "off" /\ status' = "off"
                     /\ pending' = <<>> /\ received' = <<>>
               /\ Channel!Accept(s) <=>
                     /\ status = "live" /\ Len(pending) < Capacity
                     /\ pending' # <<>> /\ Front(pending') = pending
                     /\ status' = status /\ received' = received
               /\ Channel!Displace(s) <=>
                     /\ status = "live" /\ Len(pending) = Capacity
                     /\ pending' # <<>> /\ Front(pending') = Tail(pending)
                     /\ status' = status /\ received' = received
               /\ Channel!HandOver(s) <=>
                     /\ status = "live" /\ pending # <<>>
                     /\ \E n \in 1..Len(pending) :
                           /\ received' = received \o SubSeq(pending, 1, n)
                           /\ pending' = SubSeq(pending, n + 1, Len(pending))
                     /\ status' = status
               /\ Channel!Fail(s) <=>
                     /\ status = "live" /\ status' = "failed"
                     /\ pending' \in {pending, <<>>} /\ received' = received
               /\ Channel!Stays(s) <=>
                     status' = status /\ pending' = pending /\ received' = received
<1> DEFINE S == [t \in Sub |-> Status(t)]
           P == [t \in Sub |-> sub[t].queue]
           R == [t \in Sub |-> fate[t].handed]
<1>1. /\ S[s] = Status(s) /\ S'[s] = Status(s)'
      /\ P[s] = sub[s].queue /\ P'[s] = sub'[s].queue
      /\ R[s] = fate[s].handed /\ R'[s] = fate'[s].handed
  OBVIOUS
<1>2. Channel!Open(s) <=> /\ S[s] = "off" /\ S'[s] = "live"
                          /\ P'[s] = <<>> /\ R'[s] = <<>>
  BY DEF Channel!Open
<1>3. Channel!Close(s) <=> /\ S[s] # "off" /\ S'[s] = "off"
                           /\ P'[s] = <<>> /\ R'[s] = <<>>
  BY DEF Channel!Close
<1>4. Channel!Accept(s) <=> /\ S[s] = "live" /\ Len(P[s]) < Capacity
                            /\ P'[s] # <<>> /\ Front(P'[s]) = P[s]
                            /\ S'[s] = S[s] /\ R'[s] = R[s]
  BY <1>1 DEF Channel!Accept, Channel!Front, Front
<1>5. Channel!Displace(s) <=> /\ S[s] = "live" /\ Len(P[s]) = Capacity
                              /\ P'[s] # <<>> /\ Front(P'[s]) = Tail(P[s])
                              /\ S'[s] = S[s] /\ R'[s] = R[s]
  BY <1>1 DEF Channel!Displace, Channel!Front, Front
<1>6. Channel!HandOver(s) <=>
        /\ S[s] = "live" /\ P[s] # <<>>
        /\ \E n \in 1..Len(P[s]) :
              /\ R'[s] = R[s] \o SubSeq(P[s], 1, n)
              /\ P'[s] = SubSeq(P[s], n + 1, Len(P[s]))
        /\ S'[s] = S[s]
  BY <1>1 DEF Channel!HandOver
<1>7. Channel!Fail(s) <=> /\ S[s] = "live" /\ S'[s] = "failed"
                          /\ P'[s] \in {P[s], <<>>} /\ R'[s] = R[s]
  BY <1>1 DEF Channel!Fail
<1>8. Channel!Stays(s) <=> S'[s] = S[s] /\ P'[s] = P[s] /\ R'[s] = R[s]
  BY <1>1 DEF Channel!Stays
<1> HIDE DEF S, P, R
<1> QED BY <1>1, <1>2, <1>3, <1>4, <1>5, <1>6, <1>7, <1>8

LEMMA ChannelStays ==
    ASSUME NEW s \in Sub, sub'[s] = sub[s], fate'[s] = fate[s],
           s \in live' <=> s \in live
    PROVE  ChannelMoves(s)
<1>1. Channel!Stays(s)
  BY ChannelStates DEF Status
<1> QED BY <1>1 DEF ChannelMoves

LEMMA FrontOfAppend ==
    ASSUME NEW S, NEW q \in Seq(S), NEW e \in S
    PROVE  Append(q, e) # <<>> /\ Front(Append(q, e)) = q
<1> DEFINE a == Append(q, e)
<1>1. /\ a \in Seq(S) /\ a # <<>> /\ Len(a) = Len(q) + 1 /\ Len(q) \in Nat
      /\ \A i \in 1..Len(q) : a[i] = q[i]
  BY AppendProperties, LenProperties
<1> HIDE DEF a
<1>2. /\ SubSeq(a, 1, Len(q)) \in Seq(S) /\ Len(SubSeq(a, 1, Len(q))) = Len(q)
      /\ \A i \in 1..Len(q) : SubSeq(a, 1, Len(q))[i] = a[i]
  BY <1>1
<1>3. SubSeq(a, 1, Len(q)) = q
  BY <1>1, <1>2, SeqEqual
<1>4. Len(a) - 1 = Len(q)
  BY <1>1
<1>5. a # <<>> /\ Front(a) = q
  BY <1>1, <1>3, <1>4 DEF Front
<1> QED BY <1>5 DEF a

\* All that waits is handed over, nothing is left.
LEMMA WholeQueue ==
    ASSUME NEW S, NEW q \in Seq(S), q # <<>>
    PROVE  /\ Len(q) \in 1..Len(q)
           /\ SubSeq(q, 1, Len(q)) = q
           /\ SubSeq(q, Len(q) + 1, Len(q)) = <<>>
<1>1. Len(q) \in Nat /\ Len(q) # 0
  BY LenProperties, EmptySeq
<1>2. /\ SubSeq(q, 1, Len(q)) \in Seq(S) /\ Len(SubSeq(q, 1, Len(q))) = Len(q)
      /\ \A i \in 1..Len(q) : SubSeq(q, 1, Len(q))[i] = q[i]
  BY <1>1
<1>3. SubSeq(q, 1, Len(q)) = q
  BY <1>2, SeqEqual
<1>4. SubSeq(q, Len(q) + 1, Len(q)) = <<>>
  BY <1>1
<1> QED BY <1>1, <1>3, <1>4

LEMMA ChannelTaken ==
    ASSUME TypeOK, NEW s \in live, live' = live, NEW e \in Event, Taken(s, e)
    PROVE  ChannelMoves(s)
<1>1. /\ sub[s] \in State /\ sub[s].queue \in Seq(Event) /\ s \in Sub
      /\ sub[s].healthy \in BOOLEAN /\ fate'[s].handed = fate[s].handed
      /\ Len(sub[s].queue) \in Nat /\ Capacity \in Nat \ {0}
  BY SubFields, LenProperties, BusAssumption DEF TypeOK, Taken
<1>2. CASE sub'[s] = sub[s]
  <2>1. Channel!Stays(s)
    BY <1>1, <1>2, ChannelStates DEF Status
  <2> QED BY <2>1 DEF ChannelMoves
<1>3. CASE Overwhelmed(s, e)
  <2>1. sub'[s].queue = sub[s].queue /\ ~sub'[s].healthy /\ sub[s].healthy
    BY <1>1, <1>3 DEF Overwhelmed, State
  <2>2. Channel!Fail(s)
    BY <1>1, <2>1, ChannelStates DEF Status
  <2> QED BY <2>2 DEF ChannelMoves
<1>4. CASE OldestLost(s, e)
  <2>1. /\ sub'[s].queue = Append(Tail(sub[s].queue), e)
        /\ sub[s].healthy /\ sub'[s].healthy
        /\ Len(sub[s].queue) = Capacity
    BY <1>1, <1>4 DEF OldestLost, Displaced, State
  <2>2. Tail(sub[s].queue) \in Seq(Event)
    BY <1>1, <2>1, EmptySeq, HeadTailProperties
  <2>3. sub'[s].queue # <<>> /\ Front(sub'[s].queue) = Tail(sub[s].queue)
    BY <2>1, <2>2, FrontOfAppend
  <2>4. Channel!Displace(s)
    BY <1>1, <2>1, <2>3, ChannelStates DEF Status
  <2> QED BY <2>4 DEF ChannelMoves
<1>5. CASE Queued(s, e)
  <2>1. /\ sub'[s].queue = Append(sub[s].queue, e)
        /\ sub[s].healthy /\ sub'[s].healthy
        /\ Len(sub[s].queue) < Capacity
    BY <1>1, <1>5 DEF Queued, State
  <2>2. sub'[s].queue # <<>> /\ Front(sub'[s].queue) = sub[s].queue
    BY <1>1, <2>1, FrontOfAppend
  <2>3. Channel!Accept(s)
    BY <1>1, <2>1, <2>2, ChannelStates DEF Status
  <2> QED BY <2>3 DEF ChannelMoves
<1> QED BY <1>2, <1>3, <1>4, <1>5 DEF Taken, Refused, NewestLost

LEMMA ChannelServed ==
    ASSUME TypeOK, NEW s \in live, live' = live, Served(s)
    PROVE  ChannelMoves(s)
<1>1. /\ s \in Sub /\ sub[s].queue \in Seq(Event)
      /\ sub[s].healthy \in BOOLEAN
  BY SubFields DEF TypeOK
<1>2. CASE /\ sub'[s].queue = sub[s].queue /\ sub'[s].healthy = sub[s].healthy
           /\ fate'[s].handed = fate[s].handed
  <2>1. Channel!Stays(s)
    BY <1>1, <1>2, ChannelStates DEF Status
  <2> QED BY <2>1 DEF ChannelMoves
<1>3. CASE /\ Delivered(s) /\ sub'[s].queue = <<>> /\ sub'[s].healthy
           /\ fate'[s].handed = fate[s].handed \o sub[s].queue
  <2>1. sub[s].healthy /\ sub[s].queue # <<>>
    BY <1>3 DEF Delivered
  <2>2. \E n \in 1..Len(sub[s].queue) :
           /\ fate'[s].handed = fate[s].handed \o SubSeq(sub[s].queue, 1, n)
           /\ sub'[s].queue = SubSeq(sub[s].queue, n + 1, Len(sub[s].queue))
    BY <1>1, <1>3, <2>1, WholeQueue
  <2>3. Status(s) = "live" /\ Status(s)' = "live"
    BY <1>3, <2>1 DEF Status
  <2>4. Channel!HandOver(s)
    BY <1>1, <2>1, <2>2, <2>3, ChannelStates
  <2> QED BY <2>4 DEF ChannelMoves
<1>4. CASE /\ Abandoned(s) /\ sub'[s].queue = <<>> /\ ~sub'[s].healthy
           /\ fate'[s].handed = fate[s].handed
  <2>1. sub[s].healthy
    BY <1>4 DEF Abandoned
  <2>2. Channel!Fail(s)
    BY <1>1, <1>4, <2>1, ChannelStates DEF Status
  <2> QED BY <2>2 DEF ChannelMoves
<1>5. ASSUME Postponed(s) PROVE sub[s].healthy
  BY <1>5 DEF Postponed
<1>6. \/ /\ Passed(s) /\ sub'[s].queue = sub[s].queue
         /\ sub'[s].healthy = sub[s].healthy
         /\ fate'[s].handed = fate[s].handed
      \/ /\ Delivered(s) /\ sub'[s].queue = <<>> /\ sub'[s].healthy
         /\ fate'[s].handed = fate[s].handed \o sub[s].queue
      \/ /\ Postponed(s) /\ sub'[s].queue = sub[s].queue
         /\ sub'[s].healthy
         /\ fate'[s].handed = fate[s].handed
      \/ /\ Abandoned(s) /\ sub'[s].queue = <<>> /\ ~sub'[s].healthy
         /\ fate'[s].handed = fate[s].handed
  BY <1>1, ServedFields
<1>7. CASE /\ Postponed(s) /\ sub'[s].queue = sub[s].queue
           /\ sub'[s].healthy
           /\ fate'[s].handed = fate[s].handed
  <2>1. Channel!Stays(s)
    BY <1>1, <1>5, <1>7, ChannelStates DEF Status
  <2> QED BY <2>1 DEF ChannelMoves
<1> QED BY <1>2, <1>3, <1>4, <1>6, <1>7

\* Every step of the bus moves each channel by one of its steps, or leaves it.
LEMMA StepMovesChannels ==
    ASSUME TypeOK, OffIsEmpty, CallsAreLive, [Next]_vars, NEW t \in Sub
    PROVE  ChannelMoves(t)
<1>1. ASSUME NEW s \in Sub, Reaches(s)
      PROVE  ChannelMoves(t)
  <2>1. /\ ~Idle /\ calls[1].do = "route" /\ s \in calls[1].to
        /\ Taken(s, calls[1].event) /\ live' = live
    BY <1>1 DEF Reaches, Settled
  <2>2. s \in live /\ calls[1].event \in Event
    BY <2>1, OnTop, CallFields DEF CallsAreLive
  <2>3. CASE t = s
    BY <2>1, <2>2, <2>3, ChannelTaken
  <2>4. CASE t # s
    BY <2>1, <2>4, ChannelStays DEF Taken, Others
  <2> QED BY <2>3, <2>4
<1>2. ASSUME NEW s \in Sub, LooksAt(s) \/ Retries(s)
      PROVE  ChannelMoves(t)
  <2>1. Served(s) /\ live' = live
    BY <1>2 DEF LooksAt, Retries, Settled
  <2>2. s \in live
    <3>1. CASE LooksAt(s)
      BY <3>1, OnTop DEF LooksAt, CallsAreLive
    <3>2. CASE Retries(s)
      BY <3>2 DEF Retries, OffIsEmpty, NewState
    <3> QED BY <1>2, <3>1, <3>2
  <2>3. CASE t = s
    BY <2>1, <2>2, <2>3, ChannelServed
  <2>4. CASE t # s
    BY <2>1, <2>4, ChannelStays DEF Served, Others
  <2> QED BY <2>3, <2>4
<1>3. ASSUME sub' = sub, fate' = fate, live' = live
      PROVE  ChannelMoves(t)
  BY <1>3, ChannelStays
<1>4. ASSUME NEW s \in Sub, NEW policy \in Asks[s], Subscribe(s, policy)
      PROVE  ChannelMoves(t)
  <2>1. CASE t # s
    BY <1>4, <2>1, ChannelStays DEF Subscribe, TypeOK
  <2>2. CASE t = s
    <3>1. /\ Status(t) = "off" /\ Status(t)' = "live"
          /\ sub'[t].queue = <<>> /\ fate'[t].handed = <<>>
      BY <1>4, <2>2 DEF Subscribe, TypeOK, Status, NewState, NoFate
    <3>2. Channel!Open(t)
      BY <3>1, ChannelStates
    <3> QED BY <3>2 DEF ChannelMoves
  <2> QED BY <2>1, <2>2
<1>5. ASSUME NEW gone \in SUBSET live, Forget(gone)
      PROVE  ChannelMoves(t)
  <2>1. CASE t \notin gone
    BY <1>5, <2>1, ChannelStays DEF Forget
  <2>2. CASE t \in gone
    <3>1. /\ Status(t) # "off" /\ Status(t)' = "off"
          /\ sub'[t].queue = <<>> /\ fate'[t].handed = <<>>
      BY <1>5, <2>2 DEF Forget, Status, NewState, NoFate
    <3>2. Channel!Close(t)
      BY <3>1, ChannelStates
    <3> QED BY <3>2 DEF ChannelMoves
  <2> QED BY <2>1, <2>2
<1> QED BY <1>1, <1>2, <1>3, <1>4, <1>5, Steps
           DEF Returns, Announces, Publish, Outside

\* Each subscription behaves as the abstract channel does: events are handed
\* over once each and in the order of their acceptance; a full queue loses the
\* oldest or nothing; a failed subscription hands nothing over.
THEOREM ImplementsChannelHolds == Spec => ImplementsChannel
<1>1. Init => Channel!Init
  BY DEF Init, Channel!Init, Status, NewState, NoFate
<1>2. IInv /\ [Next]_vars => [Channel!Next]_(Channel!chan)
  <2> SUFFICES ASSUME IInv, [Next]_vars PROVE Channel!Next
    OBVIOUS
  <2>1. \A s \in Sub : ChannelMoves(s)
    BY StepMovesChannels DEF IInv
  <2> QED BY <2>1 DEF Channel!Next, ChannelMoves
<1> QED BY <1>1, <1>2, Invariance, PTL DEF Spec, Channel!Spec, ImplementsChannel
=============================================================================
