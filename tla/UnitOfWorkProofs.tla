-------------------------- MODULE UnitOfWorkProofs --------------------------
(***************************************************************************)
(* Proofs about UnitOfWork, for any number of requests, pool size, nesting *)
(* and bound on faults: the pool is never overdrawn, a unit of work that   *)
(* returned nil is durable, and, where fn derives no deadline of its own,  *)
(* a call that returned an error left nothing durable, or, when it was the *)
(* Commit of the root that failed, all of its work or nothing.             *)
(***************************************************************************)
EXTENDS UnitOfWork, FiniteSetTheorems, SequenceTheorems, TLAPS

(* The inductive invariant. *)

\* A request's program counter, stack and connection agree: it holds one
\* connection exactly while a root transaction is open.
ShapeOK(c) ==
    /\ pc[c] = "idle" => stack[c] = <<>>
    /\ pc[c] = "running" => stack[c] # <<>>
    /\ pc[c] = "entering" => Depth(c) < MaxDepth
    /\ Depth(c) <= MaxDepth
    /\ live[c] <= Depth(c)
    /\ conns[c] = IF stack[c] = <<>> THEN 0 ELSE 1
    /\ stack[c] = <<>> => ~alive[c]
    /\ ~alive[c] => layers[c] = <<>>

\* The savepoints of the calls st, outermost first, are in order.
Ordered(st) ==
    /\ \A k \in 1..Len(st) : st[k].at \in Nat \ {0}
    /\ \A j, k \in 1..Len(st) : j < k => st[j].at < st[k].at

\* Layer i was opened by call k of st, or by a call k made that is over.
Belongs(st, i, k) ==
    /\ st[k].at <= i
    /\ \A j \in 1..Len(st) : k < j => i < st[j].at

\* The savepoints of the calls st are among the layers la, no write is in two
\* layers, and every write of a call is in a layer of that call.
Stacked(st, la) ==
    /\ Ordered(st)
    /\ \A k \in 1..Len(st) : st[k].at <= Len(la)
    /\ \A i, j \in 1..Len(la) : i # j => la[i] \cap la[j] = {}
    /\ \A k \in 1..Len(st) : \A w \in st[k].writes :
          \E i \in 1..Len(la) : Belongs(st, i, k) /\ w \in la[i]

\* On a usable connection the server's layers are those of the open calls.
Matches(c) ==
    /\ Ordered(stack[c])
    /\ alive[c] => Stacked(stack[c], layers[c])

\* What the calls st believe they wrote, and what the layers la hold.
WritesOf(st) == UNION {st[k].writes : k \in 1..Len(st)}
WritesIn(la) == UNION {la[i] : i \in 1..Len(la)}

\* What an open transaction wrote is not durable.
NotYetDurable(c) == (WritesIn(layers[c]) \cup WritesOf(stack[c])) \cap durable = {}

\* Connection d holds no write of request c.
Apart(c, d) == (WritesIn(layers[c]) \cup WritesOf(stack[c])) \cap WritesIn(layers[d]) = {}

ConnectionInv ==
    /\ \A c \in Request : ShapeOK(c) /\ Matches(c) /\ NotYetDurable(c)
    /\ \A c, d \in Request : c # d => Apart(c, d)

PoolInv == IsFiniteSet(Taken)

UnitOfWorkInv == TypeOK /\ PoolInv /\ ConnectionInv /\ PromisedIsDurable

\* The contexts of a request end together, and the server can hold a write of a
\* failed call only inside a transaction in the failed state, above the
\* savepoint of the innermost open call: the one its rollback returns to.
Doomed(c) ==
    /\ live[c] \in {0, Depth(c)}
    /\ live[c] = Depth(c) => \A i \in 1..Len(layers[c]) :
          layers[c][i] \cap dropped # {} => aborted[c] /\ Top(c).at < i

DoubtfulIsDropped == \A W \in doubtful : W \subseteq dropped

FailInv == (\A c \in Request : Doomed(c)) /\ DoubtfulIsDropped /\ ErrorIsAllOrNothing

-----------------------------------------------------------------------------
(* Sequences of frames and of layers. *)

\* A prefix keeps the elements it has.
LEMMA PrefixKeeps ==
    ASSUME NEW S, NEW s \in Seq(S), NEW n \in 0..Len(s)
    PROVE  /\ SubSeq(s, 1, n) \in Seq(S)
           /\ Len(SubSeq(s, 1, n)) = n
           /\ \A i \in 1..n : SubSeq(s, 1, n)[i] = s[i]
<1>1. Len(s) \in Nat /\ \A i \in 1..Len(s) : s[i] \in S
  BY ElementOfSeq
<1> QED
  BY <1>1

\* Front drops the last element and keeps the others.
LEMMA FrontKeeps ==
    ASSUME NEW S, NEW s \in Seq(S), s # <<>>
    PROVE  /\ Front(s) \in Seq(S)
           /\ Len(Front(s)) = Len(s) - 1
           /\ \A i \in 1..(Len(s) - 1) : Front(s)[i] = s[i]
           /\ Len(s) \in Nat \ {0}
<1>1. Len(s) \in Nat \ {0} /\ \A i \in 1..Len(s) : s[i] \in S
  BY EmptySeq, ElementOfSeq
<1>2. /\ SubSeq(s, 1, Len(s) - 1) \in Seq(S)
      /\ Len(SubSeq(s, 1, Len(s) - 1)) = Len(s) - 1
      /\ \A i \in 1..(Len(s) - 1) : SubSeq(s, 1, Len(s) - 1)[i] = s[i]
  <2>1. Len(s) - 1 \in 0..Len(s)
    BY <1>1
  <2> QED
    BY <2>1, PrefixKeeps
<1> QED
  BY <1>1, <1>2 DEF Front

\* The types of one request's stack and layers.
LEMMA RequestTypes ==
    ASSUME TypeOK, NEW c \in Request
    PROVE  /\ stack[c] \in Seq(Frame) /\ Depth(c) \in Nat
           /\ stack[c] = <<>> <=> Depth(c) = 0
           /\ \A k \in 1..Depth(c) : stack[c][k] \in Frame
           /\ layers[c] \in Seq(SUBSET Write) /\ Len(layers[c]) \in Nat
           /\ \A i \in 1..Len(layers[c]) : layers[c][i] \in SUBSET Write
           /\ live[c] \in Nat /\ conns[c] \in Nat
           /\ Depth(c) > 0 => Top(c) = stack[c][Depth(c)] /\ Top(c) \in Frame
<1>1. stack[c] \in Seq(Frame) /\ layers[c] \in Seq(SUBSET Write)
  BY DEF TypeOK
<1>2. /\ \A k \in 1..Len(stack[c]) : stack[c][k] \in Frame
      /\ \A i \in 1..Len(layers[c]) : layers[c][i] \in SUBSET Write
  BY <1>1, ElementOfSeq
<1>3. Len(stack[c]) \in Nat /\ Len(layers[c]) \in Nat /\ (stack[c] = <<>> <=> Len(stack[c]) = 0)
  BY <1>1, EmptySeq
<1>4. live[c] \in Nat /\ conns[c] \in Nat
  BY UnitOfWorkAssumption DEF TypeOK
<1>5. Len(stack[c]) > 0 => Last(stack[c]) = stack[c][Len(stack[c])]
  BY DEF Last
<1> QED
  BY <1>1, <1>2, <1>3, <1>4, <1>5 DEF Depth, Top

\* What the server holds for c, layer by layer.
LEMMA HeldLayers ==
    ASSUME TypeOK, NEW c \in Request
    PROVE  Held(c) = WritesIn(layers[c])
<1>1. DOMAIN layers[c] = 1..Len(layers[c])
  BY LenProperties DEF TypeOK
<1> QED
  BY <1>1 DEF Held, Range, WritesIn

-----------------------------------------------------------------------------
(* The calls and the layers under each operation of a transaction. *)

\* BEGIN: one call, one empty layer.
LEMMA StackedRoot ==
    ASSUME NEW f \in Frame, f = [writes |-> {}, at |-> 1]
    PROVE  /\ <<f>> \in Seq(Frame) /\ <<{}>> \in Seq(SUBSET Write)
           /\ Stacked(<<f>>, <<{}>>)
           /\ WritesOf(<<f>>) = {} /\ WritesIn(<<{}>>) = {}
<1>1. /\ <<f>> \in Seq(Frame) /\ Len(<<f>>) = 1 /\ <<f>>[1] = f
      /\ <<{}>> \in Seq(SUBSET Write) /\ Len(<<{}>>) = 1 /\ <<{}>>[1] = {}
      /\ f.at = 1 /\ f.writes = {}
  OBVIOUS
<1> QED
  BY <1>1 DEF Stacked, Ordered, WritesOf, WritesIn

\* SAVEPOINT: one more call and one more layer, both empty.
LEMMA StackedNested ==
    ASSUME NEW st \in Seq(Frame), NEW la \in Seq(SUBSET Write), Stacked(st, la),
           NEW f \in Frame, f = [writes |-> {}, at |-> Len(la) + 1]
    PROVE  /\ Append(st, f) \in Seq(Frame) /\ Append(la, {}) \in Seq(SUBSET Write)
           /\ Len(Append(st, f)) = Len(st) + 1
           /\ Stacked(Append(st, f), Append(la, {}))
           /\ WritesOf(Append(st, f)) = WritesOf(st)
           /\ WritesIn(Append(la, {})) = WritesIn(la)
<1> DEFINE st2 == Append(st, f)
           la2 == Append(la, {})
           n == Len(st)
           l == Len(la)
<1>1. /\ st2 \in Seq(Frame) /\ Len(st2) = n + 1 /\ n \in Nat
      /\ \A k \in 1..n : st2[k] = st[k]
      /\ st2[n + 1] = f /\ f.writes = {} /\ f.at = l + 1
  BY AppendProperties, LenProperties
<1>2. /\ la2 \in Seq(SUBSET Write) /\ Len(la2) = l + 1 /\ l \in Nat
      /\ \A i \in 1..l : la2[i] = la[i]
      /\ la2[l + 1] = {}
  <2>1. {} \in SUBSET Write
    OBVIOUS
  <2> QED
    BY <2>1, AppendProperties, LenProperties
<1> HIDE DEF st2, la2
<1>3. /\ \A k \in 1..n : st[k].at \in Nat \ {0} /\ st[k].at <= l
      /\ \A j, k \in 1..n : j < k => st[j].at < st[k].at
  BY DEF Stacked, Ordered
<1>4. Ordered(st2) /\ \A k \in 1..(n + 1) : st2[k].at <= l + 1
  <2>1. ASSUME NEW k \in 1..(n + 1)
        PROVE  st2[k].at \in Nat \ {0} /\ st2[k].at <= l + 1
    <3>1. CASE k = n + 1
      BY <1>1, <1>2, <3>1
    <3>2. CASE k \in 1..n
      <4>1. st2[k] = st[k]
        BY <1>1, <3>2
      <4>2. st[k].at \in Nat \ {0} /\ st[k].at <= l
        BY <1>3, <3>2
      <4> HIDE DEF n, l
      <4> QED
        BY <1>2, <4>1, <4>2
    <3> QED
      BY <1>1, <3>1, <3>2
  <2>2. ASSUME NEW j \in 1..(n + 1), NEW k \in 1..(n + 1), j < k
        PROVE  st2[j].at < st2[k].at
    <3>1. j \in 1..n /\ st2[j] = st[j]
      BY <1>1, <2>2
    <3>2. CASE k = n + 1
      BY <1>1, <1>2, <1>3, <3>1, <3>2
    <3>3. CASE k \in 1..n
      BY <1>1, <1>3, <2>2, <3>1, <3>3
    <3> QED
      BY <1>1, <3>2, <3>3
  <2> QED
    BY <1>1, <2>1, <2>2 DEF Ordered
<1>5. \A i, j \in 1..(l + 1) : i # j => la2[i] \cap la2[j] = {}
  BY <1>2 DEF Stacked
<1>6. ASSUME NEW k \in 1..(n + 1), NEW w \in st2[k].writes
      PROVE  \E i \in 1..(l + 1) : Belongs(st2, i, k) /\ w \in la2[i]
  <2>1. k \in 1..n /\ w \in st[k].writes
    BY <1>1, <1>6
  <2>2. PICK i \in 1..l : Belongs(st, i, k) /\ w \in la[i]
    BY <2>1 DEF Stacked
  <2>3. Belongs(st2, i, k)
    <3>1. st2[k].at <= i
      BY <1>1, <2>1, <2>2 DEF Belongs
    <3>2. ASSUME NEW j \in 1..(n + 1), k < j
          PROVE  i < st2[j].at
      <4>1. CASE j = n + 1
        BY <1>1, <1>2, <2>2, <4>1
      <4>2. CASE j \in 1..n
        BY <1>1, <2>2, <3>2, <4>2 DEF Belongs
      <4> QED
        BY <1>1, <4>1, <4>2
    <3> QED
      BY <1>1, <3>1, <3>2 DEF Belongs
  <2> QED
    BY <1>2, <2>2, <2>3
<1>7. WritesOf(st2) = WritesOf(st)
  <2>1. ASSUME NEW k \in 1..(n + 1), NEW w \in st2[k].writes
        PROVE  w \in WritesOf(st)
    <3>1. k \in 1..n /\ w \in st[k].writes
      BY <1>1, <2>1
    <3> QED
      BY <3>1 DEF WritesOf
  <2>2. ASSUME NEW k \in 1..n, NEW w \in st[k].writes
        PROVE  w \in WritesOf(st2)
    <3>1. k \in 1..(n + 1) /\ w \in st2[k].writes
      BY <1>1, <2>2
    <3> QED
      BY <1>1, <3>1 DEF WritesOf
  <2> QED
    BY <1>1, <2>1, <2>2 DEF WritesOf
<1>8. WritesIn(la2) = WritesIn(la)
  BY <1>2 DEF WritesIn
<1>9. Stacked(st2, la2)
  BY <1>1, <1>2, <1>4, <1>5, <1>6 DEF Stacked
<1> QED
  BY <1>1, <1>2, <1>7, <1>8, <1>9 DEF st2, la2

\* A write: it goes to the innermost call and to the last layer.
AddToCall(st, w) == [st EXCEPT ![Len(st)].writes = @ \cup {w}]
AddToLayer(la, w) == [la EXCEPT ![Len(la)] = @ \cup {w}]

\* The write belongs to the innermost call, in one layer only.
LEMMA StackedWrite ==
    ASSUME NEW st \in Seq(Frame), NEW la \in Seq(SUBSET Write), Stacked(st, la),
           st # <<>>, NEW w \in Write, w \notin WritesIn(la), NEW st2, NEW la2,
           st2 = AddToCall(st, w), la2 = AddToLayer(la, w)
    PROVE  /\ st2 \in Seq(Frame) /\ la2 \in Seq(SUBSET Write)
           /\ Len(st2) = Len(st) /\ Len(la2) = Len(la)
           /\ Stacked(st2, la2)
           /\ WritesOf(st2) \subseteq WritesOf(st) \cup {w}
           /\ WritesIn(la2) \subseteq WritesIn(la) \cup {w}
           /\ \A k \in 1..Len(st) : st2[k].at = st[k].at
           /\ \A i \in 1..Len(la) : la2[i] \subseteq la[i] \cup {w}
<1> DEFINE n == Len(st)
           l == Len(la)
<1>1. n \in Nat \ {0} /\ n \in 1..n /\ \A k \in 1..n : st[k] \in Frame
  BY EmptySeq, ElementOfSeq
<1>2. /\ \A k \in 1..n : st[k].at \in Nat \ {0} /\ st[k].at <= l
      /\ \A j, k \in 1..n : j < k => st[j].at < st[k].at
      /\ l \in Nat
  BY LenProperties DEF Stacked, Ordered
<1>3. l \in Nat \ {0} /\ l \in 1..l /\ \A i \in 1..l : la[i] \in SUBSET Write
  BY <1>1, <1>2, ElementOfSeq
<1>4. [st[n] EXCEPT !.writes = @ \cup {w}] \in Frame
      /\ [st[n] EXCEPT !.writes = @ \cup {w}].at = st[n].at
      /\ [st[n] EXCEPT !.writes = @ \cup {w}].writes = st[n].writes \cup {w}
  BY <1>1 DEF Frame
<1>5. /\ st2 \in Seq(Frame) /\ Len(st2) = n
      /\ \A k \in 1..n : st2[k] = IF k = n THEN [st[n] EXCEPT !.writes = @ \cup {w}] ELSE st[k]
  <2>1. st2 = [st EXCEPT ![n] = [st[n] EXCEPT !.writes = @ \cup {w}]]
    BY DEF AddToCall
  <2> QED
    BY <1>1, <1>4, <2>1, ExceptSeq
<1>6. /\ la2 \in Seq(SUBSET Write) /\ Len(la2) = l
      /\ \A i \in 1..l : la2[i] = IF i = l THEN la[l] \cup {w} ELSE la[i]
  <2>1. la[l] \cup {w} \in SUBSET Write
    BY <1>3
  <2> QED
    BY <1>3, <2>1, ExceptSeq DEF AddToLayer
<1>7. /\ \A k \in 1..n : st2[k].at = st[k].at
      /\ \A k \in 1..n : st2[k].writes = IF k = n THEN st[k].writes \cup {w} ELSE st[k].writes
  <2>1. ASSUME NEW k \in 1..n
        PROVE  /\ st2[k].at = st[k].at
               /\ st2[k].writes = IF k = n THEN st[k].writes \cup {w} ELSE st[k].writes
    <3>1. CASE k = n
      <4>1. st2[k] = [st[n] EXCEPT !.writes = @ \cup {w}]
        BY <1>5, <3>1
      <4> QED
        BY <1>4, <3>1, <4>1
    <3>2. CASE k # n
      <4>1. st2[k] = st[k]
        BY <1>5, <3>2
      <4> QED
        BY <3>2, <4>1
    <3> QED
      BY <3>1, <3>2
  <2> QED
    BY <2>1
<1>8. \A i \in 1..l : w \notin la[i]
  BY DEF WritesIn
<1>9. Ordered(st2) /\ \A k \in 1..n : st2[k].at <= l
  BY <1>2, <1>5, <1>7 DEF Ordered
<1>10. \A i, j \in 1..l : i # j => la2[i] \cap la2[j] = {}
  BY <1>6, <1>8 DEF Stacked
<1>11. \A i \in 1..l, k \in 1..n : Belongs(st, i, k) => Belongs(st2, i, k)
  BY <1>5, <1>7 DEF Belongs
<1>12. ASSUME NEW k \in 1..n, NEW v \in st2[k].writes
       PROVE  \E i \in 1..l : Belongs(st2, i, k) /\ v \in la2[i]
  <2>1. CASE v \in st[k].writes
    <3>1. PICK i \in 1..l : Belongs(st, i, k) /\ v \in la[i]
      BY <2>1 DEF Stacked
    <3>2. v \in la2[i]
      BY <1>6, <3>1
    <3> QED
      BY <1>11, <3>1, <3>2
  <2>2. CASE v \notin st[k].writes
    <3>1. k = n /\ v = w
      BY <1>7, <1>12, <2>2
    <3>2. Belongs(st2, l, n)
      BY <1>1, <1>2, <1>3, <1>5, <1>7 DEF Belongs
    <3> QED
      BY <1>3, <1>6, <3>1, <3>2
  <2> QED
    BY <2>1, <2>2
<1>13. Stacked(st2, la2)
  BY <1>5, <1>6, <1>9, <1>10, <1>12 DEF Stacked
<1>14. WritesOf(st2) \subseteq WritesOf(st) \cup {w}
  <2> SUFFICES ASSUME NEW k \in 1..n, NEW v \in st2[k].writes
               PROVE  v \in WritesOf(st) \cup {w}
    BY <1>5 DEF WritesOf
  <2>1. v \in st[k].writes \/ v = w
    BY <1>7
  <2> QED
    BY <2>1 DEF WritesOf
<1>15. WritesIn(la2) \subseteq WritesIn(la) \cup {w}
  BY <1>6 DEF WritesIn
<1> QED
  BY <1>5, <1>6, <1>7, <1>13, <1>14, <1>15

\* The innermost call returns and its layers stay.
LEMMA StackedLeft ==
    ASSUME NEW st \in Seq(Frame), st # <<>>
    PROVE  /\ Ordered(st) => Ordered(Front(st))
           /\ WritesOf(Front(st)) \subseteq WritesOf(st)
           /\ \A la \in Seq(SUBSET Write) : Stacked(st, la) => Stacked(Front(st), la)
<1> DEFINE f == Front(st)
           n == Len(st)
<1>1. /\ f \in Seq(Frame) /\ Len(f) = n - 1 /\ n \in Nat \ {0}
      /\ \A k \in 1..(n - 1) : f[k] = st[k] /\ k \in 1..n
  BY FrontKeeps
<1> HIDE DEF f
<1>2. Ordered(st) => Ordered(f)
  BY <1>1 DEF Ordered
<1>3. WritesOf(f) \subseteq WritesOf(st)
  BY <1>1 DEF WritesOf
<1>4. ASSUME NEW la \in Seq(SUBSET Write), Stacked(st, la)
      PROVE  Stacked(f, la)
  <2>1. \A i \in 1..Len(la), k \in 1..(n - 1) : Belongs(st, i, k) => Belongs(f, i, k)
    BY <1>1 DEF Belongs
  <2>2. ASSUME NEW k \in 1..(n - 1), NEW w \in f[k].writes
        PROVE  \E i \in 1..Len(la) : Belongs(f, i, k) /\ w \in la[i]
    <3>1. k \in 1..n /\ w \in st[k].writes
      BY <1>1, <2>2
    <3>2. PICK i \in 1..Len(la) : Belongs(st, i, k) /\ w \in la[i]
      BY <1>4, <3>1 DEF Stacked
    <3> QED
      BY <2>1, <3>2
  <2>3. \A k \in 1..(n - 1) : f[k].at <= Len(la)
    BY <1>1, <1>4 DEF Stacked
  <2> QED
    BY <1>1, <1>2, <1>4, <2>2, <2>3 DEF Stacked
<1> QED
  BY <1>2, <1>3, <1>4 DEF f

\* ROLLBACK TO SAVEPOINT: the layers from the innermost call's savepoint on
\* are gone, and with them all that call wrote.
Undone(la, st) == SubSeq(la, 1, st[Len(st)].at - 1)

\* What is left matches the calls around it.
LEMMA StackedUndone ==
    ASSUME NEW st \in Seq(Frame), NEW la \in Seq(SUBSET Write), Stacked(st, la),
           st # <<>>, NEW la2, la2 = Undone(la, st)
    PROVE  /\ la2 \in Seq(SUBSET Write) /\ Len(la2) = st[Len(st)].at - 1
           /\ \A i \in 1..Len(la2) : i \in 1..Len(la) /\ la2[i] = la[i]
           /\ Stacked(Front(st), la2)
           /\ WritesIn(la2) \subseteq WritesIn(la)
           /\ st[Len(st)].writes \cap WritesIn(la2) = {}
<1> DEFINE f == Front(st)
           n == Len(st)
           m == st[n].at - 1
<1>1. /\ f \in Seq(Frame) /\ Len(f) = n - 1 /\ n \in Nat \ {0} /\ n \in 1..n
      /\ \A k \in 1..(n - 1) : f[k] = st[k] /\ k \in 1..n /\ k < n
  BY FrontKeeps
<1>2. /\ \A k \in 1..n : st[k].at \in Nat \ {0} /\ st[k].at <= Len(la)
      /\ \A j, k \in 1..n : j < k => st[j].at < st[k].at
      /\ Len(la) \in Nat
  BY LenProperties DEF Stacked, Ordered
<1>3. m \in 0..Len(la) /\ m \in Nat /\ m = st[n].at - 1 /\ st[n].at = m + 1
  BY <1>1, <1>2
<1>4. la2 \in Seq(SUBSET Write) /\ Len(la2) = m /\ \A i \in 1..m : la2[i] = la[i]
  BY <1>3, PrefixKeeps DEF Undone
<1>5. \A i \in 1..m : i \in 1..Len(la) /\ i < st[n].at
  BY <1>2, <1>3
<1> HIDE DEF f, m
<1>6. Ordered(f)
  BY StackedLeft DEF Stacked, f
<1>7. \A k \in 1..(n - 1) : f[k].at <= m
  <2> TAKE k \in 1..(n - 1)
  <2>1. f[k].at < st[n].at /\ f[k].at \in Nat
    BY <1>1, <1>2
  <2> QED
    BY <1>3, <2>1
<1>8. \A i, j \in 1..m : i # j => la2[i] \cap la2[j] = {}
  BY <1>4, <1>5 DEF Stacked
<1>9. ASSUME NEW k \in 1..(n - 1), NEW w \in f[k].writes
      PROVE  \E i \in 1..m : Belongs(f, i, k) /\ w \in la2[i]
  <2>1. k \in 1..n /\ k < n /\ w \in st[k].writes /\ f[k] = st[k]
    BY <1>1, <1>9
  <2>2. PICK i \in 1..Len(la) : Belongs(st, i, k) /\ w \in la[i]
    BY <2>1 DEF Stacked
  <2>3. i < st[n].at
    BY <1>1, <2>1, <2>2 DEF Belongs
  <2>4. i \in 1..m
    BY <1>2, <1>3, <2>2, <2>3
  <2>5. Belongs(f, i, k)
    BY <1>1, <2>1, <2>2 DEF Belongs
  <2> QED
    BY <1>4, <2>2, <2>4, <2>5
<1>10. Stacked(f, la2)
  BY <1>1, <1>4, <1>6, <1>7, <1>8, <1>9 DEF Stacked
<1>11. WritesIn(la2) \subseteq WritesIn(la)
  BY <1>4, <1>5 DEF WritesIn
<1>12. st[n].writes \cap WritesIn(la2) = {}
  <2> SUFFICES ASSUME NEW w \in st[n].writes, NEW i \in 1..m, w \in la2[i]
               PROVE  FALSE
    BY <1>4 DEF WritesIn
  <2>1. PICK j \in 1..Len(la) : Belongs(st, j, n) /\ w \in la[j]
    BY <1>1 DEF Stacked
  <2>2. st[n].at <= j /\ i < st[n].at /\ i \in 1..Len(la) /\ w \in la[i]
    BY <1>4, <1>5, <2>1 DEF Belongs
  <2>3. i # j
    BY <1>1, <1>2, <2>2
  <2> QED
    BY <2>1, <2>2, <2>3 DEF Stacked
<1> QED
  BY <1>3, <1>4, <1>5, <1>10, <1>11, <1>12 DEF f, m

\* RELEASE SAVEPOINT: the innermost call's writes go to the call around it, and
\* its layers are merged into the last of that call.  First element by element.
MergesInto(st, la, st2, la2, n, m, u) ==
    /\ st \in Seq(Frame) /\ la \in Seq(SUBSET Write) /\ Stacked(st, la)
    /\ n \in Nat \ {0, 1} /\ n = Len(st) /\ m \in Nat \ {0} /\ st[n].at = m + 1
    /\ \A w : w \in u <=> \E i \in (m + 1)..Len(la) : w \in la[i]
    /\ st2 \in Seq(Frame) /\ la2 \in Seq(SUBSET Write)
    /\ Len(st2) = n - 1 /\ Len(la2) = m
    /\ \A k \in 1..(n - 1) :
          /\ st2[k].at = st[k].at
          /\ k # n - 1 => st2[k].writes = st[k].writes
          /\ k = n - 1 => st2[k].writes = st[k].writes \cup st[n].writes
    /\ \A i \in 1..m : i # m => la2[i] = la[i]
    /\ la2[m] = la[m] \cup u

\* Layers merged like this match the calls that are left.
LEMMA MergedLayers ==
    ASSUME NEW st, NEW la, NEW st2, NEW la2, NEW n, NEW m, NEW u,
           MergesInto(st, la, st2, la2, n, m, u)
    PROVE  /\ Stacked(st2, la2)
           /\ WritesOf(st2) \subseteq WritesOf(st)
           /\ WritesIn(la2) \subseteq WritesIn(la)
<1>0. /\ st \in Seq(Frame) /\ la \in Seq(SUBSET Write) /\ Stacked(st, la)
      /\ n \in Nat \ {0, 1} /\ n = Len(st) /\ m \in Nat \ {0} /\ st[n].at = m + 1
      /\ \A w : w \in u <=> \E i \in (m + 1)..Len(la) : w \in la[i]
      /\ st2 \in Seq(Frame) /\ la2 \in Seq(SUBSET Write)
      /\ Len(st2) = n - 1 /\ Len(la2) = m
      /\ \A k \in 1..(n - 1) :
            /\ st2[k].at = st[k].at
            /\ k # n - 1 => st2[k].writes = st[k].writes
            /\ k = n - 1 => st2[k].writes = st[k].writes \cup st[n].writes
      /\ \A i \in 1..m : i # m => la2[i] = la[i]
      /\ la2[m] = la[m] \cup u
  BY DEF MergesInto
<1> USE <1>0
<1>1. /\ \A k \in 1..(n - 1) : k \in 1..n /\ k < n
      /\ n \in 1..n /\ n - 1 \in 1..(n - 1) /\ n - 1 \in 1..n
  OBVIOUS
<1>2. /\ \A k \in 1..n : st[k].at \in Nat \ {0} /\ st[k].at <= Len(la)
      /\ \A j, k \in 1..n : j < k => st[j].at < st[k].at
      /\ Len(la) \in Nat
  BY LenProperties DEF Stacked, Ordered
<1>3. /\ m + 1 <= Len(la) /\ m \in 1..m /\ \A i \in 1..m : i \in 1..Len(la)
      /\ st[n - 1].at <= m
  BY <1>1, <1>2
<1>4. Ordered(st2)
  <2>1. \A k \in 1..(n - 1) : st2[k].at = st[k].at
    OBVIOUS
  <2> QED
    BY <1>1, <1>2, <2>1 DEF Ordered
<1>5. \A k \in 1..(n - 1) : st2[k].at <= m
  <2> TAKE k \in 1..(n - 1)
  <2>1. st2[k].at = st[k].at /\ st[k].at < m + 1 /\ st[k].at \in Nat
    BY <1>1, <1>2
  <2> QED
    BY <2>1
<1>6. \A i, j \in 1..m : i # j => la2[i] \cap la2[j] = {}
  <2>1. \A i, j \in 1..Len(la) : i # j => la[i] \cap la[j] = {}
    BY DEF Stacked
  <2>2. ASSUME NEW i \in 1..m, i # m
        PROVE  la[i] \cap la2[m] = {}
    <3>1. ASSUME NEW j \in (m + 1)..Len(la)
          PROVE  la[i] \cap la[j] = {}
      <4>1. i \in 1..Len(la) /\ j \in 1..Len(la) /\ i # j
        BY <1>2, <1>3
      <4> QED
        BY <2>1, <4>1
    <3>2. la[i] \cap la[m] = {}
      BY <1>3, <2>1, <2>2
    <3> QED
      BY <3>1, <3>2
  <2>3. ASSUME NEW i \in 1..m, NEW j \in 1..m, i # j
        PROVE  la2[i] \cap la2[j] = {}
    <3>1. CASE i = m
      <4>1. la[j] \cap la2[m] = {} /\ la2[j] = la[j]
        BY <2>2, <2>3, <3>1
      <4> QED
        BY <3>1, <4>1
    <3>2. CASE j = m
      <4>1. la[i] \cap la2[m] = {} /\ la2[i] = la[i]
        BY <2>2, <2>3, <3>2
      <4> QED
        BY <3>2, <4>1
    <3>3. CASE i # m /\ j # m
      <4>1. la2[i] = la[i] /\ la2[j] = la[j] /\ i \in 1..Len(la) /\ j \in 1..Len(la)
        BY <1>3, <3>3
      <4> QED
        BY <2>1, <2>3, <4>1
    <3> QED
      BY <3>1, <3>2, <3>3
  <2> QED
    BY <2>3
<1>7. ASSUME NEW k \in 1..(n - 1), NEW w \in st2[k].writes
      PROVE  \E i \in 1..m : Belongs(st2, i, k) /\ w \in la2[i]
  <2>1. k \in 1..n /\ k < n
    BY <1>1
  <2>2. CASE w \in st[k].writes
    <3>1. PICK i \in 1..Len(la) : Belongs(st, i, k) /\ w \in la[i]
      BY <2>1, <2>2 DEF Stacked
    <3>2. i < m + 1
      BY <1>1, <2>1, <3>1 DEF Belongs
    <3>3. i \in 1..m
      BY <3>2
    <3>4. w \in la2[i]
      BY <3>1, <3>3
    <3>5. Belongs(st2, i, k)
      <4>1. st2[k].at <= i
        BY <3>1 DEF Belongs
      <4>2. ASSUME NEW j \in 1..(n - 1), k < j
            PROVE  i < st2[j].at
        BY <1>1, <3>1, <4>2 DEF Belongs
      <4> QED
        BY <4>1, <4>2 DEF Belongs
    <3> QED
      BY <3>3, <3>4, <3>5
  <2>3. CASE w \notin st[k].writes
    <3>1. k = n - 1 /\ w \in st[n].writes
      BY <1>7, <2>3
    <3>2. PICK i \in 1..Len(la) : Belongs(st, i, n) /\ w \in la[i]
      BY <1>1, <3>1 DEF Stacked
    <3>3. i \in (m + 1)..Len(la)
      BY <3>2 DEF Belongs
    <3>4. w \in la2[m]
      BY <3>2, <3>3
    <3>5. Belongs(st2, m, k)
      <4>1. st2[k].at <= m
        BY <1>5
      <4>2. ASSUME NEW j \in 1..(n - 1), k < j
            PROVE  FALSE
        BY <3>1, <4>2
      <4> QED
        BY <4>1, <4>2 DEF Belongs
    <3> QED
      BY <1>3, <3>4, <3>5
  <2> QED
    BY <2>2, <2>3
<1>a. Len(st2) = n - 1 /\ Len(la2) = m /\ n = Len(st)
  BY Zenon
<1>b. \A k \in 1..(n - 1) : \/ st2[k].writes = st[k].writes
                            \/ st2[k].writes = st[k].writes \cup st[n].writes
  BY Zenon
<1>c. \A i \in 1..m : la2[i] = la[i] \/ la2[i] = la[i] \cup u
  BY Zenon
<1>d. \A w \in u : \E j \in (m + 1)..Len(la) : w \in la[j]
  BY Zenon
<1>e. m \in Nat /\ \A j \in (m + 1)..Len(la) : j \in 1..Len(la)
  BY <1>2
<1> HIDE <1>0
<1>8. Stacked(st2, la2)
  BY <1>4, <1>5, <1>6, <1>7, <1>a DEF Stacked
<1>9. WritesOf(st2) \subseteq WritesOf(st)
  <2> SUFFICES ASSUME NEW w \in WritesOf(st2)
               PROVE  w \in WritesOf(st)
    OBVIOUS
  <2>1. PICK k \in 1..Len(st2) : w \in st2[k].writes
    BY DEF WritesOf
  <2>2. k \in 1..(n - 1)
    BY <1>a
  <2>3. w \in st[k].writes \/ w \in st[n].writes
    BY <1>b, <2>1, <2>2, Zenon
  <2>4. k \in 1..Len(st) /\ n \in 1..Len(st)
    BY <1>1, <1>a, <2>2
  <2> QED
    BY <2>3, <2>4, Zenon DEF WritesOf
<1>10. WritesIn(la2) \subseteq WritesIn(la)
  <2> SUFFICES ASSUME NEW i \in 1..m, NEW w \in la2[i]
               PROVE  \E j \in 1..Len(la) : w \in la[j]
    BY <1>a DEF WritesIn
  <2>1. w \in la[i] \/ w \in u
    BY <1>c
  <2>2. CASE w \in la[i]
    BY <1>3, <2>2, Zenon
  <2>3. CASE w \in u
    BY <1>d, <1>e, <2>3, Zenon
  <2> QED
    BY <2>1, <2>2, <2>3
<1> QED
  BY <1>8, <1>9, <1>10

\* The same for the sequences as the action computes them.
ReleasedCalls(st, n) == [Front(st) EXCEPT ![n - 1].writes = @ \cup st[n].writes]

\* The action merges them so.
LEMMA StackedReleased ==
    ASSUME NEW st \in Seq(Frame), NEW la \in Seq(SUBSET Write), Stacked(st, la),
           Len(st) > 1, NEW n, n = Len(st), NEW at, at = st[n].at, NEW st2, NEW la2,
           st2 = ReleasedCalls(st, n), la2 = Released(la, at)
    PROVE  /\ st2 \in Seq(Frame) /\ Len(st2) = n - 1
           /\ la2 \in Seq(SUBSET Write)
           /\ Stacked(st2, la2)
           /\ WritesOf(st2) \subseteq WritesOf(st)
           /\ WritesIn(la2) \subseteq WritesIn(la)
<1> DEFINE f == Front(st)
           p == SubSeq(la, 1, at - 1)
           u == UNION {la[i] : i \in at..Len(la)}
           g == [f[n - 1] EXCEPT !.writes = @ \cup st[n].writes]
<1>1. /\ f \in Seq(Frame) /\ Len(f) = n - 1 /\ n \in Nat \ {0, 1}
      /\ n \in 1..n /\ n - 1 \in 1..n /\ n - 1 \in 1..(n - 1)
      /\ \A k \in 1..(n - 1) : f[k] = st[k] /\ k \in 1..n /\ k < n
      /\ \A k \in 1..n : st[k] \in Frame
  <2>1. st # <<>> /\ \A k \in 1..n : st[k] \in Frame
    BY EmptySeq, ElementOfSeq
  <2> QED
    BY <2>1, FrontKeeps
<1>2. /\ \A k \in 1..n : st[k].at \in Nat \ {0} /\ st[k].at <= Len(la)
      /\ \A j, k \in 1..n : j < k => st[j].at < st[k].at
      /\ Len(la) \in Nat /\ \A i \in 1..Len(la) : la[i] \in SUBSET Write
  BY LenProperties, ElementOfSeq DEF Stacked, Ordered
<1>3. /\ at \in Nat /\ at - 1 \in Nat \ {0} /\ at <= Len(la) /\ at - 1 \in 1..(at - 1)
      /\ st[n - 1].at \in Nat /\ st[n - 1].at <= at - 1
  <2>1. st[n - 1].at < at /\ st[n - 1].at \in Nat \ {0} /\ at \in Nat /\ at <= Len(la)
    BY <1>1, <1>2
  <2> QED
    BY <2>1
<1>4. /\ p \in Seq(SUBSET Write) /\ Len(p) = at - 1
      /\ \A i \in 1..(at - 1) : p[i] = la[i] /\ i \in 1..Len(la)
  <2>1. at - 1 \in 0..Len(la)
    BY <1>2, <1>3
  <2>2. \A i \in 1..(at - 1) : i \in 1..Len(la)
    BY <1>2, <1>3
  <2> QED
    BY <2>1, <2>2, PrefixKeeps
<1>5. u \in SUBSET Write /\ \A w : w \in u <=> \E i \in at..Len(la) : w \in la[i]
  <2>1. \A i \in at..Len(la) : i \in 1..Len(la)
    BY <1>3
  <2> QED
    BY <1>2, <2>1
<1>6. /\ g \in Frame /\ g.at = st[n - 1].at /\ g.writes = st[n - 1].writes \cup st[n].writes
  BY <1>1 DEF Frame
<1>7. /\ st2 \in Seq(Frame) /\ Len(st2) = n - 1
      /\ \A k \in 1..(n - 1) : st2[k] = IF k = n - 1 THEN g ELSE f[k]
  <2>1. st2 = [f EXCEPT ![n - 1] = g]
    BY DEF ReleasedCalls
  <2>2. n - 1 \in 1..Len(f)
    BY <1>1
  <2> HIDE DEF f, g
  <2>3. /\ [f EXCEPT ![n - 1] = g] \in Seq(Frame)
        /\ Len([f EXCEPT ![n - 1] = g]) = Len(f)
        /\ \A k \in 1..Len(f) : [f EXCEPT ![n - 1] = g][k] = IF k = n - 1 THEN g ELSE f[k]
    BY <1>1, <1>6, <2>2, ExceptSeq
  <2> QED
    BY <1>1, <2>1, <2>3
<1>8. /\ la2 \in Seq(SUBSET Write) /\ Len(la2) = at - 1
      /\ \A i \in 1..(at - 1) : la2[i] = IF i = at - 1 THEN la[at - 1] \cup u ELSE la[i]
  <2>1. la2 = [p EXCEPT ![at - 1] = p[at - 1] \cup u]
    BY DEF Released
  <2>2. p[at - 1] \cup u \in SUBSET Write
    BY <1>2, <1>3, <1>4, <1>5
  <2>3. at - 1 \in 1..Len(p)
    BY <1>3, <1>4
  <2> DEFINE e == p[at - 1] \cup u
  <2> HIDE DEF p, u, e
  <2>4. /\ [p EXCEPT ![at - 1] = e] \in Seq(SUBSET Write)
        /\ Len([p EXCEPT ![at - 1] = e]) = Len(p)
        /\ \A i \in 1..Len(p) : [p EXCEPT ![at - 1] = e][i] = IF i = at - 1 THEN e ELSE p[i]
    BY <1>4, <2>2, <2>3, ExceptSeq DEF e
  <2> QED
    BY <1>3, <1>4, <2>1, <2>4 DEF e
<1> HIDE DEF f, p, u, g
<1>9. \A k \in 1..(n - 1) :
        /\ st2[k].at = st[k].at
        /\ k # n - 1 => st2[k].writes = st[k].writes
        /\ k = n - 1 => st2[k].writes = st[k].writes \cup st[n].writes
  <2> TAKE k \in 1..(n - 1)
  <2>1. CASE k = n - 1
    <3>1. st2[k] = g
      BY <1>7, <2>1
    <3> QED
      BY <1>6, <2>1, <3>1
  <2>2. CASE k # n - 1
    <3>1. st2[k] = st[k]
      BY <1>1, <1>7, <2>2
    <3> QED
      BY <2>2, <3>1
  <2> QED
    BY <2>1, <2>2
<1> DEFINE m == at - 1
<1>10. /\ m \in Nat \ {0} /\ st[n].at = m + 1 /\ Len(la2) = m
       /\ \A w : w \in u <=> \E i \in (m + 1)..Len(la) : w \in la[i]
       /\ \A i \in 1..m : i # m => la2[i] = la[i]
       /\ la2[m] = la[m] \cup u
  <2>1. at = m + 1
    BY <1>3
  <2> QED
    BY <1>3, <1>5, <1>8, <2>1
<1> HIDE DEF m
<1>11. MergesInto(st, la, st2, la2, n, m, u)
  BY <1>1, <1>7, <1>8, <1>9, <1>10 DEF MergesInto
<1> QED
  BY <1>7, <1>8, <1>11, MergedLayers

-----------------------------------------------------------------------------
(* One request steps. *)

\* A request whose step is one of the actions below leaves the others alone.
KeepsOthers(c) ==
    \A d \in Request \ {c} :
        /\ pc'[d] = pc[d] /\ stack'[d] = stack[d] /\ live'[d] = live[d]
        /\ conns'[d] = conns[d] /\ alive'[d] = alive[d]
        /\ aborted'[d] = aborted[d] /\ layers'[d] = layers[d]

\* The invariant of every connection, from that of the request that steps: N
\* are the writes it adds, D those that become durable.
LEMMA OneRequestSteps ==
    ASSUME ConnectionInv, NEW c \in Request, KeepsOthers(c), NEW N, NEW D,
           ShapeOK(c)', Matches(c)',
           WritesIn(layers'[c]) \subseteq WritesIn(layers[c]) \cup N,
           WritesOf(stack'[c]) \subseteq WritesOf(stack[c]) \cup N,
           N \cap durable = {}, durable' \subseteq durable \cup D,
           (WritesIn(layers'[c]) \cup WritesOf(stack'[c])) \cap D = {},
           \A d \in Request \ {c} :
               (WritesIn(layers[d]) \cup WritesOf(stack[d])) \cap (N \cup D) = {}
    PROVE  ConnectionInv'
<1>1. ASSUME NEW d \in Request \ {c}
      PROVE  ShapeOK(d)' /\ Matches(d)' /\ stack'[d] = stack[d] /\ layers'[d] = layers[d]
  <2>1. /\ pc'[d] = pc[d] /\ stack'[d] = stack[d] /\ live'[d] = live[d]
        /\ conns'[d] = conns[d] /\ alive'[d] = alive[d] /\ layers'[d] = layers[d]
    BY DEF KeepsOthers
  <2>2. ShapeOK(d) /\ Matches(d)
    BY DEF ConnectionInv
  <2>3. ShapeOK(d)'
    BY <2>1, <2>2 DEF ShapeOK, Depth
  <2>4. Matches(d)'
    BY <2>1, <2>2 DEF Matches
  <2> QED
    BY <2>1, <2>3, <2>4
<1>2. \A d \in Request : NotYetDurable(d)'
  BY <1>1 DEF ConnectionInv, NotYetDurable
<1>3. \A d, e \in Request : d # e => Apart(d, e)'
  BY <1>1 DEF ConnectionInv, Apart
<1> QED
  BY <1>1, <1>2, <1>3 DEF ConnectionInv

\* The same for a step that writes nothing and makes nothing durable.
LEMMA OneRequestShrinks ==
    ASSUME ConnectionInv, NEW c \in Request, KeepsOthers(c),
           ShapeOK(c)', Matches(c)',
           WritesIn(layers'[c]) \subseteq WritesIn(layers[c]),
           WritesOf(stack'[c]) \subseteq WritesOf(stack[c]),
           durable' = durable
    PROVE  ConnectionInv'
<1> DEFINE N == {}
           D == {}
<1>1. /\ WritesIn(layers'[c]) \subseteq WritesIn(layers[c]) \cup N
      /\ WritesOf(stack'[c]) \subseteq WritesOf(stack[c]) \cup N
      /\ N \cap durable = {} /\ durable' \subseteq durable \cup D
      /\ (WritesIn(layers'[c]) \cup WritesOf(stack'[c])) \cap D = {}
      /\ \A d \in Request \ {c} :
             (WritesIn(layers[d]) \cup WritesOf(stack[d])) \cap (N \cup D) = {}
  OBVIOUS
<1> HIDE DEF N, D
<1> QED
  BY <1>1, OneRequestSteps

-----------------------------------------------------------------------------
(* The pool. *)

\* A step that takes at most one connection, and only when the pool has one,
\* keeps within the pool.
LEMMA PoolStep ==
    ASSUME TypeOK, PoolInv, NEW c \in Request,
           \/ \A d \in Request : conns'[d] = conns[d] \/ conns'[d] = 0
           \/ /\ PoolHasConnection /\ conns[c] = 0 /\ conns'[c] = 1
              /\ \A d \in Request \ {c} : conns'[d] = conns[d]
    PROVE  PoolInv' /\ InUse' <= PoolSize
<1>1. /\ InUse = Cardinality(Taken) /\ InUse' = Cardinality(Taken')
      /\ InUse <= PoolSize /\ PoolSize \in Nat /\ IsFiniteSet(Taken)
  BY UnitOfWorkAssumption DEF InUse, TypeOK, PoolInv
<1>2. CASE \A d \in Request : conns'[d] = conns[d] \/ conns'[d] = 0
  <2>1. Taken' \subseteq Taken
    BY <1>2 DEF Taken
  <2>2. IsFiniteSet(Taken') /\ Cardinality(Taken') <= Cardinality(Taken)
    BY <1>1, <2>1, FS_Subset
  <2>3. Cardinality(Taken) \in Nat /\ Cardinality(Taken') \in Nat
    BY <1>1, <2>2, FS_CardinalityType
  <2> QED
    BY <1>1, <2>2, <2>3 DEF PoolInv
<1>3. CASE /\ PoolHasConnection /\ conns[c] = 0 /\ conns'[c] = 1
           /\ \A d \in Request \ {c} : conns'[d] = conns[d]
  <2>1. Taken' \subseteq Taken \cup {<<c, 1>>}
    <3> SUFFICES ASSUME NEW d \in Request, NEW i \in 1..conns'[d]
                 PROVE  <<d, i>> \in Taken \cup {<<c, 1>>}
      BY DEF Taken
    <3>1. CASE d = c
      <4>1. i = 1
        BY <1>3, <3>1
      <4> QED
        BY <3>1, <4>1
    <3>2. CASE d # c
      BY <1>3, <3>2 DEF Taken
    <3> QED
      BY <3>1, <3>2
  <2>2. /\ IsFiniteSet(Taken \cup {<<c, 1>>})
        /\ Cardinality(Taken \cup {<<c, 1>>}) <= Cardinality(Taken) + 1
        /\ Cardinality(Taken) \in Nat /\ Cardinality(Taken \cup {<<c, 1>>}) \in Nat
    <3>1. /\ IsFiniteSet(Taken \cup {<<c, 1>>})
          /\ \/ Cardinality(Taken \cup {<<c, 1>>}) = Cardinality(Taken)
             \/ Cardinality(Taken \cup {<<c, 1>>}) = Cardinality(Taken) + 1
      BY <1>1, FS_AddElement
    <3>2. Cardinality(Taken) \in Nat
      BY <1>1, FS_CardinalityType
    <3> QED
      BY <3>1, <3>2
  <2>3. IsFiniteSet(Taken') /\ Cardinality(Taken') <= Cardinality(Taken \cup {<<c, 1>>})
    BY <2>1, <2>2, FS_Subset
  <2>4. Cardinality(Taken') \in Nat
    BY <2>3, FS_CardinalityType
  <2>5. Cardinality(Taken) < PoolSize
    BY <1>1, <1>3 DEF PoolHasConnection
  <2> QED
    BY <1>1, <2>2, <2>3, <2>4, <2>5 DEF PoolInv
<1> QED
  BY <1>2, <1>3

-----------------------------------------------------------------------------
(* Entering a call. *)

\* Steps that change neither what the server holds nor what the calls wrote:
\* a call, one that cannot begin, a refused statement and an expired context.
LEMMA QuietStep ==
    ASSUME UnitOfWorkInv, NEW c \in Request,
           \/ Call(c) \/ BeginRootFails(c) \/ BeginNestedFails(c) \/ ExecFails(c)
           \/ \E k \in 0..(MaxDepth - 1) : Expire(c, k)
    PROVE  UnitOfWorkInv'
<1> USE UnitOfWorkAssumption
<1>1. TypeOK /\ PoolInv /\ ConnectionInv /\ ShapeOK(c) /\ Matches(c)
  BY DEF UnitOfWorkInv, ConnectionInv
<1>2. Depth(c) \in Nat /\ (stack[c] = <<>> <=> Depth(c) = 0) /\ live[c] \in Nat
  BY <1>1, RequestTypes
<1>3. /\ UNCHANGED <<stack, conns, alive, layers, resultVars>>
      /\ pc' \in [Request -> {"idle", "entering", "running"}]
      /\ live' \in [Request -> 0..MaxDepth] /\ live'[c] <= live[c]
      /\ aborted' \in [Request -> BOOLEAN]
      /\ calls' \in [Request -> 0..MaxCalls]
      /\ faults' \in 0..MaxFaults
      /\ KeepsOthers(c)
      /\ pc'[c] = pc[c] \/ (pc'[c] = "entering" /\ Depth(c) < MaxDepth)
                        \/ (pc'[c] = "running" /\ stack[c] # <<>>)
                        \/ (pc'[c] = "idle" /\ stack[c] = <<>>)
  <2>1. CASE Call(c)
    <3>1. Depth(c) < MaxDepth
      BY <1>1, <1>2, <2>1 DEF Call, ShapeOK
    <3>2. calls' \in [Request -> 0..MaxCalls]
      <4>1. calls \in [Request -> 0..MaxCalls]
        BY <1>1 DEF TypeOK
      <4>2. calls' = [calls EXCEPT ![c] = calls'[c]] /\ calls'[c] \in 0..MaxCalls
        <5>1. CASE calls' = [calls EXCEPT ![c] = 0]
          BY <4>1, <5>1
        <5>2. CASE calls[c] < MaxCalls /\ calls' = [calls EXCEPT ![c] = @ + 1]
          <6>1. calls[c] + 1 \in 0..MaxCalls
            BY <4>1, <5>2
          <6> QED
            BY <4>1, <5>2, <6>1
        <5> QED
          BY <2>1, <5>1, <5>2 DEF Call
      <4> QED
        BY <4>1, <4>2
    <3>3. pc' = [pc EXCEPT ![c] = "entering"]
          /\ UNCHANGED <<stack, live, serverVars, resultVars, faults>>
      BY <2>1 DEF Call
    <3> QED
      BY <1>1, <1>2, <3>1, <3>2, <3>3 DEF TypeOK, serverVars, KeepsOthers
  <2>2. CASE BeginNestedFails(c)
    BY <1>1, <1>2, <2>2 DEF BeginNestedFails, TypeOK, serverVars, KeepsOthers
  <2>3. CASE ExecFails(c)
    BY <1>1, <1>2, <2>3 DEF ExecFails, TypeOK, KeepsOthers
  <2>4. ASSUME NEW k \in 0..(MaxDepth - 1), Expire(c, k)
        PROVE  /\ live' \in [Request -> 0..MaxDepth] /\ live'[c] <= live[c]
               /\ faults' \in 0..MaxFaults
               /\ UNCHANGED <<pc, stack, serverVars, calls, resultVars>>
               /\ KeepsOthers(c)
    BY <1>1, <1>2, <2>4 DEF Expire, TypeOK, serverVars, KeepsOthers
  <2>5. CASE BeginRootFails(c)
    BY <1>1, <1>2, <2>5 DEF BeginRootFails, TypeOK, serverVars, KeepsOthers
  <2> QED
    BY <1>1, <2>1, <2>2, <2>3, <2>4, <2>5 DEF TypeOK, serverVars
<1>4. Taken' = Taken /\ InUse' = InUse
  BY <1>3 DEF Taken, InUse
<1>5. TypeOK' /\ PoolInv' /\ PromisedIsDurable'
  BY <1>1, <1>3, <1>4 DEF UnitOfWorkInv, TypeOK, PoolInv, PromisedIsDurable, resultVars
<1>6. stack'[c] = stack[c] /\ layers'[c] = layers[c] /\ durable' = durable
  BY <1>3 DEF resultVars
<1>7. ShapeOK(c)'
  <2>1. live'[c] \in Nat /\ live'[c] <= live[c]
    BY <1>3
  <2> QED
    BY <1>1, <1>2, <1>3, <2>1 DEF ShapeOK, Depth
<1>8. Matches(c)'
  BY <1>1, <1>3 DEF Matches
<1>9. ConnectionInv'
  BY <1>1, <1>3, <1>6, <1>7, <1>8, OneRequestShrinks
<1> QED
  BY <1>5, <1>9 DEF UnitOfWorkInv

\* The root call gets a connection of the pool, with one empty layer.
LEMMA BeginRootStep ==
    ASSUME UnitOfWorkInv, NEW c \in Request, BeginRoot(c)
    PROVE  UnitOfWorkInv'
<1> USE UnitOfWorkAssumption
<1>1. /\ TypeOK /\ PoolInv /\ ConnectionInv /\ ShapeOK(c)
  BY DEF UnitOfWorkInv, ConnectionInv
<1> DEFINE f == [writes |-> {}, at |-> 1]
           st == <<f>>
           la == <<{}>>
<1>2. /\ f \in Frame /\ st \in Seq(Frame) /\ la \in Seq(SUBSET Write)
      /\ Stacked(st, la) /\ WritesOf(st) = {} /\ WritesIn(la) = {}
      /\ Len(st) = 1 /\ st # <<>>
  <2>1. f \in Frame
    BY DEF Frame
  <2> QED
    BY <2>1, StackedRoot
<1>3. /\ stack' = [stack EXCEPT ![c] = st] /\ stack'[c] = st
      /\ layers' = [layers EXCEPT ![c] = la] /\ layers'[c] = la
      /\ live'[c] = 1 /\ conns'[c] = 1 /\ alive'[c] /\ pc'[c] = "running"
      /\ KeepsOthers(c)
  BY <1>1 DEF BeginRoot, TypeOK, KeepsOthers
<1> HIDE DEF st, la
<1>4. conns[c] = 0
  BY <1>1 DEF BeginRoot, ShapeOK
<1>5. PoolInv' /\ InUse' <= PoolSize
  BY <1>1, <1>3, <1>4, PoolStep DEF BeginRoot, KeepsOthers
<1>6. TypeOK'
  <2>1. stack' \in [Request -> Seq(Frame)] /\ layers' \in [Request -> Seq(SUBSET Write)]
    BY <1>1, <1>2, <1>3 DEF TypeOK
  <2>2. /\ pc' \in [Request -> {"idle", "entering", "running"}]
        /\ live' \in [Request -> 0..MaxDepth] /\ conns' \in [Request -> Nat]
        /\ alive' \in [Request -> BOOLEAN] /\ aborted' \in [Request -> BOOLEAN]
        /\ UNCHANGED <<calls, resultVars, faults>>
    BY <1>1 DEF BeginRoot, TypeOK
  <2> QED
    BY <1>1, <1>5, <2>1, <2>2 DEF TypeOK, resultVars
<1>7. PromisedIsDurable' /\ durable' = durable
  BY DEF UnitOfWorkInv, BeginRoot, PromisedIsDurable, resultVars
<1>8. ShapeOK(c)'
  <2>1. Depth(c)' = 1 /\ stack'[c] # <<>>
    BY <1>2, <1>3 DEF Depth
  <2>2. alive'[c] = TRUE /\ live'[c] = 1 /\ conns'[c] = 1 /\ pc'[c] = "running"
    BY <1>3
  <2> QED
    BY <2>1, <2>2 DEF ShapeOK
<1>9. Matches(c)'
  <2>1. Ordered(stack'[c])
    BY <1>2, <1>3 DEF Stacked
  <2>2. Stacked(stack'[c], layers'[c])
    BY <1>2, <1>3
  <2> QED
    BY <2>1, <2>2 DEF Matches
<1>10. ConnectionInv'
  BY <1>1, <1>2, <1>3, <1>7, <1>8, <1>9, OneRequestShrinks
<1> QED
  BY <1>5, <1>6, <1>7, <1>10 DEF UnitOfWorkInv

\* A nested call puts a savepoint on top of the layers, and a frame on it.
LEMMA BeginNestedStep ==
    ASSUME UnitOfWorkInv, NEW c \in Request, BeginNested(c)
    PROVE  UnitOfWorkInv'
<1> USE UnitOfWorkAssumption
<1>1. TypeOK /\ PoolInv /\ ConnectionInv /\ ShapeOK(c) /\ Matches(c)
  BY DEF UnitOfWorkInv, ConnectionInv
<1> DEFINE f == [writes |-> {}, at |-> Len(layers[c]) + 1]
           st == Append(stack[c], f)
           la == Append(layers[c], {})
<1>2. /\ Depth(c) \in Nat \ {0} /\ live[c] = Depth(c) /\ Depth(c) < MaxDepth
      /\ alive[c] /\ stack[c] \in Seq(Frame) /\ layers[c] \in Seq(SUBSET Write)
      /\ f \in Frame /\ conns[c] = 1
  <2>1. Len(layers[c]) + 1 \in Nat
    BY <1>1, RequestTypes
  <2> QED
    BY <1>1, <2>1, RequestTypes DEF BeginNested, Reachable, ShapeOK, Frame
<1>3. /\ st \in Seq(Frame) /\ la \in Seq(SUBSET Write) /\ Len(st) = Depth(c) + 1
      /\ Stacked(st, la) /\ WritesOf(st) = WritesOf(stack[c])
      /\ WritesIn(la) = WritesIn(layers[c])
  <2>1. f = [writes |-> {}, at |-> Len(layers[c]) + 1] /\ Stacked(stack[c], layers[c])
    BY <1>1, <1>2 DEF Matches
  <2> HIDE DEF f
  <2> QED
    BY <1>2, <2>1, StackedNested DEF Depth
<1>4. /\ stack' = [stack EXCEPT ![c] = st] /\ stack'[c] = st
      /\ layers' = [layers EXCEPT ![c] = la] /\ layers'[c] = la
      /\ live' = [live EXCEPT ![c] = Depth(c) + 1] /\ live'[c] = Depth(c) + 1
      /\ pc' = [pc EXCEPT ![c] = "running"] /\ pc'[c] = "running"
      /\ UNCHANGED <<conns, alive, aborted, calls, resultVars, faults>>
      /\ KeepsOthers(c)
  BY <1>1, <1>2 DEF BeginNested, TypeOK, KeepsOthers
<1> HIDE DEF st, la
<1>5. TypeOK'
  <2>1. stack' \in [Request -> Seq(Frame)] /\ layers' \in [Request -> Seq(SUBSET Write)]
    BY <1>1, <1>3, <1>4 DEF TypeOK
  <2>2. live' \in [Request -> 0..MaxDepth] /\ pc' \in [Request -> {"idle", "entering", "running"}]
    BY <1>1, <1>2, <1>4 DEF TypeOK
  <2>3. InUse' = InUse
    BY <1>4 DEF InUse, Taken
  <2> QED
    BY <1>1, <1>4, <2>1, <2>2, <2>3 DEF TypeOK, resultVars
<1>6. PoolInv' /\ PromisedIsDurable' /\ durable' = durable
  BY <1>1, <1>4 DEF UnitOfWorkInv, PoolInv, Taken, PromisedIsDurable, resultVars
<1>7. ShapeOK(c)'
  <2>1. Depth(c)' = Depth(c) + 1 /\ stack'[c] # <<>>
    BY <1>2, <1>3, <1>4 DEF Depth
  <2> QED
    BY <1>1, <1>2, <1>4, <2>1 DEF ShapeOK
<1>8. Matches(c)'
  <2>1. stack'[c] = st /\ layers'[c] = la /\ Stacked(st, la)
    BY <1>3, <1>4
  <2>2. Ordered(st)
    BY <2>1 DEF Stacked
  <2> QED
    BY <2>1, <2>2 DEF Matches
<1>9. ConnectionInv'
  BY <1>1, <1>3, <1>4, <1>6, <1>7, <1>8, OneRequestShrinks
<1> QED
  BY <1>5, <1>6, <1>9 DEF UnitOfWorkInv

-----------------------------------------------------------------------------
(* Writing and losing the connection. *)

\* What is not Used is nowhere.
LEMMA UnusedIsNew ==
    ASSUME TypeOK, NEW w, w \notin Used
    PROVE  /\ w \notin durable /\ w \notin dropped
           /\ \A d \in Request : w \notin WritesIn(layers[d]) /\ w \notin WritesOf(stack[d])
<1>1. w \notin durable /\ w \notin dropped
  BY DEF Used
<1>2. ASSUME NEW d \in Request
      PROVE  w \notin WritesIn(layers[d])
  <2>1. w \notin Held(d)
    BY DEF Used
  <2> QED
    BY <2>1, HeldLayers
<1>3. ASSUME NEW d \in Request
      PROVE  w \notin WritesOf(stack[d])
  <2>1. w \notin Believed(d)
    BY DEF Used
  <2>2. DOMAIN stack[d] = 1..Len(stack[d])
    BY LenProperties DEF TypeOK
  <2> QED
    BY <2>1, <2>2 DEF Believed, WritesOf
<1> QED
  BY <1>1, <1>2, <1>3

\* A write of fn goes to the innermost frame and to the server's last layer.
LEMMA ExecStep ==
    ASSUME UnitOfWorkInv, NEW c \in Request, NEW w \in Write, Exec(c, w)
    PROVE  UnitOfWorkInv'
<1>1. TypeOK /\ PoolInv /\ ConnectionInv /\ ShapeOK(c) /\ Matches(c)
  BY DEF UnitOfWorkInv, ConnectionInv
<1> DEFINE st == AddToCall(stack[c], w)
           la == AddToLayer(layers[c], w)
<1>2. /\ stack[c] \in Seq(Frame) /\ layers[c] \in Seq(SUBSET Write)
      /\ alive[c] /\ stack[c] # <<>> /\ Stacked(stack[c], layers[c])
      /\ Depth(c) = Len(stack[c]) /\ pc[c] = "running"
  BY <1>1, RequestTypes DEF Exec, Reachable, ShapeOK, Matches, Depth
<1>3. /\ w \notin durable
      /\ \A d \in Request : w \notin WritesIn(layers[d]) /\ w \notin WritesOf(stack[d])
  BY <1>1, UnusedIsNew DEF Exec
<1>4. /\ stack' = [stack EXCEPT ![c] = st] /\ stack'[c] = st
      /\ layers' = [layers EXCEPT ![c] = la] /\ layers'[c] = la
      /\ UNCHANGED <<pc, live, conns, alive, aborted, calls, resultVars, faults>>
  BY <1>1, <1>2 DEF Exec, TypeOK, AddToCall, AddToLayer
<1>5. /\ st \in Seq(Frame) /\ la \in Seq(SUBSET Write) /\ Len(st) = Len(stack[c])
      /\ Stacked(st, la)
      /\ WritesOf(st) \subseteq WritesOf(stack[c]) \cup {w}
      /\ WritesIn(la) \subseteq WritesIn(layers[c]) \cup {w}
  BY <1>2, <1>3, StackedWrite
<1> HIDE DEF st, la
<1>6. KeepsOthers(c)
  BY <1>1, <1>4 DEF TypeOK, KeepsOthers
<1>7. TypeOK'
  <2>1. stack' \in [Request -> Seq(Frame)] /\ layers' \in [Request -> Seq(SUBSET Write)]
    BY <1>1, <1>4, <1>5 DEF TypeOK
  <2>2. InUse' = InUse
    BY <1>4 DEF InUse, Taken
  <2> QED
    BY <1>1, <1>4, <2>1, <2>2 DEF TypeOK, resultVars
<1>8. PoolInv' /\ PromisedIsDurable' /\ durable' = durable
  BY <1>1, <1>4 DEF UnitOfWorkInv, PoolInv, Taken, PromisedIsDurable, resultVars
<1>9. ShapeOK(c)'
  <2>1. Depth(c)' = Depth(c) /\ stack'[c] # <<>>
    BY <1>2, <1>4, <1>5 DEF Depth
  <2> QED
    BY <1>1, <1>2, <1>4, <2>1 DEF ShapeOK
<1>10. Matches(c)'
  BY <1>4, <1>5 DEF Matches, Stacked
<1>11. ConnectionInv'
  <2> DEFINE N == {w}
             D == {}
  <2>1. /\ WritesIn(layers'[c]) \subseteq WritesIn(layers[c]) \cup N
        /\ WritesOf(stack'[c]) \subseteq WritesOf(stack[c]) \cup N
        /\ N \cap durable = {} /\ durable' \subseteq durable \cup D
        /\ (WritesIn(layers'[c]) \cup WritesOf(stack'[c])) \cap D = {}
        /\ \A d \in Request \ {c} :
               (WritesIn(layers[d]) \cup WritesOf(stack[d])) \cap (N \cup D) = {}
    BY <1>3, <1>4, <1>5, <1>8
  <2> HIDE DEF N, D
  <2> QED
    BY <1>1, <1>6, <1>9, <1>10, <2>1, OneRequestSteps
<1> QED
  BY <1>7, <1>8, <1>11 DEF UnitOfWorkInv

\* A write outside any transaction is durable and promised at once.
LEMMA ExecOnPoolStep ==
    ASSUME UnitOfWorkInv, NEW c \in Request, NEW w \in Write, ExecOnPool(c, w)
    PROVE  UnitOfWorkInv'
<1>1. TypeOK /\ PoolInv /\ ConnectionInv /\ ShapeOK(c) /\ Matches(c)
  BY DEF UnitOfWorkInv, ConnectionInv
<1>2. \A d \in Request : w \notin WritesIn(layers[d]) /\ w \notin WritesOf(stack[d])
  BY <1>1, UnusedIsNew DEF ExecOnPool
<1>3. /\ UNCHANGED <<pc, stack, live, conns, alive, aborted, layers, calls, dropped, doubtful, faults>>
      /\ durable' = durable \cup {w} /\ promised' = promised \cup {w}
  BY DEF ExecOnPool, serverVars
<1>4. TypeOK' /\ PoolInv' /\ PromisedIsDurable'
  <2>1. Taken' = Taken /\ InUse' = InUse
    BY <1>3 DEF InUse, Taken
  <2> QED
    BY <1>1, <1>3, <2>1 DEF UnitOfWorkInv, TypeOK, PoolInv, PromisedIsDurable
<1>5. ShapeOK(c)' /\ Matches(c)' /\ KeepsOthers(c)
  BY <1>1, <1>3 DEF ShapeOK, Depth, Matches, KeepsOthers
<1>6. ConnectionInv'
  <2> DEFINE N == {}
             D == {w}
  <2>1. /\ WritesIn(layers'[c]) \subseteq WritesIn(layers[c]) \cup N
        /\ WritesOf(stack'[c]) \subseteq WritesOf(stack[c]) \cup N
        /\ N \cap durable = {} /\ durable' \subseteq durable \cup D
        /\ (WritesIn(layers'[c]) \cup WritesOf(stack'[c])) \cap D = {}
        /\ \A d \in Request \ {c} :
               (WritesIn(layers[d]) \cup WritesOf(stack[d])) \cap (N \cup D) = {}
    BY <1>2, <1>3
  <2> HIDE DEF N, D
  <2> QED
    BY <1>1, <1>5, <2>1, OneRequestSteps
<1> QED
  BY <1>4, <1>6 DEF UnitOfWorkInv

\* The server rolls a lost connection back: no layer is left.
LEMMA LoseConnectionStep ==
    ASSUME UnitOfWorkInv, NEW c \in Request, LoseConnection(c)
    PROVE  UnitOfWorkInv'
<1>1. TypeOK /\ PoolInv /\ ConnectionInv /\ ShapeOK(c) /\ Matches(c)
  BY DEF UnitOfWorkInv, ConnectionInv
<1>2. /\ UNCHANGED <<pc, stack, live, conns, aborted, calls, resultVars>>
      /\ alive' = [alive EXCEPT ![c] = FALSE] /\ alive'[c] = FALSE
      /\ layers' = [layers EXCEPT ![c] = <<>>] /\ layers'[c] = <<>>
      /\ faults' \in 0..MaxFaults
      /\ KeepsOthers(c)
  BY <1>1, UnitOfWorkAssumption DEF LoseConnection, TypeOK, KeepsOthers
<1>3. <<>> \in Seq(SUBSET Write) /\ WritesIn(<<>>) = {}
  BY EmptySeq DEF WritesIn
<1>4. TypeOK' /\ PoolInv' /\ PromisedIsDurable' /\ durable' = durable
  <2>1. Taken' = Taken /\ InUse' = InUse
    BY <1>2 DEF InUse, Taken
  <2>2. layers' \in [Request -> Seq(SUBSET Write)] /\ alive' \in [Request -> BOOLEAN]
    BY <1>1, <1>2, <1>3 DEF TypeOK
  <2>3. UNCHANGED <<durable, promised, dropped, doubtful>>
    BY <1>2 DEF resultVars
  <2> QED
    BY <1>1, <1>2, <2>1, <2>2, <2>3 DEF UnitOfWorkInv, TypeOK, PoolInv, PromisedIsDurable
<1>5. ShapeOK(c)' /\ Matches(c)'
  BY <1>1, <1>2 DEF ShapeOK, Depth, Matches
<1>6. ConnectionInv'
  <2>1. /\ WritesIn(layers'[c]) \subseteq WritesIn(layers[c])
        /\ WritesOf(stack'[c]) \subseteq WritesOf(stack[c])
    BY <1>2, <1>3
  <2> QED
    BY <1>1, <1>2, <1>4, <1>5, <2>1, OneRequestShrinks
<1> QED
  BY <1>4, <1>6 DEF UnitOfWorkInv

-----------------------------------------------------------------------------
(* Returning. *)

\* The innermost frame is gone and the others, whatever they hold, are left.
LEMMA PopStep ==
    ASSUME UnitOfWorkInv, NEW c \in Request, NEW st \in Seq(Frame),
           Len(st) = Depth(c) - 1, Depth(c) > 0, Pop(c, st)
    PROVE  /\ pc' \in [Request -> {"idle", "entering", "running"}]
           /\ stack' \in [Request -> Seq(Frame)] /\ live' \in [Request -> 0..MaxDepth]
           /\ stack'[c] = st /\ Depth(c)' = Depth(c) - 1
           /\ live'[c] = IF live[c] < Depth(c) THEN live[c] ELSE Depth(c) - 1
           /\ live'[c] <= Depth(c) - 1
           /\ pc'[c] = IF st = <<>> THEN "idle" ELSE "running"
           /\ \A d \in Request \ {c} :
                 pc'[d] = pc[d] /\ stack'[d] = stack[d] /\ live'[d] = live[d]
<1>1. TypeOK /\ ShapeOK(c) /\ Depth(c) \in Nat /\ live[c] \in Nat
  BY RequestTypes DEF UnitOfWorkInv, ConnectionInv
<1>2. Depth(c) <= MaxDepth /\ live[c] <= Depth(c) /\ MaxDepth \in Nat
  BY <1>1, UnitOfWorkAssumption DEF ShapeOK
<1>3. /\ stack' = [stack EXCEPT ![c] = st]
      /\ live' = [live EXCEPT ![c] = IF live[c] < Depth(c) THEN live[c] ELSE Depth(c) - 1]
      /\ pc' = [pc EXCEPT ![c] = IF st = <<>> THEN "idle" ELSE "running"]
  BY DEF Pop
<1>4. (IF live[c] < Depth(c) THEN live[c] ELSE Depth(c) - 1) \in 0..MaxDepth
  BY <1>1, <1>2
<1>5. pc' \in [Request -> {"idle", "entering", "running"}] /\ stack' \in [Request -> Seq(Frame)]
  BY <1>1, <1>3 DEF TypeOK
<1>6. live' \in [Request -> 0..MaxDepth]
  BY <1>1, <1>3, <1>4 DEF TypeOK
<1>7. /\ stack'[c] = st
      /\ live'[c] = IF live[c] < Depth(c) THEN live[c] ELSE Depth(c) - 1
      /\ pc'[c] = IF st = <<>> THEN "idle" ELSE "running"
      /\ \A d \in Request \ {c} :
            pc'[d] = pc[d] /\ stack'[d] = stack[d] /\ live'[d] = live[d]
  BY <1>1, <1>3 DEF TypeOK
<1>8. Depth(c)' = Depth(c) - 1
  BY <1>7 DEF Depth
<1>9. live'[c] <= Depth(c) - 1
  BY <1>1, <1>2, <1>7
<1> QED
  BY <1>5, <1>6, <1>7, <1>8, <1>9

\* A nested call returns, leaving the calls st and the layers la.
LEMMA NestedReturn ==
    ASSUME UnitOfWorkInv, NEW c \in Request, Depth(c) > 1,
           NEW st \in Seq(Frame), NEW la \in Seq(SUBSET Write),
           Len(st) = Depth(c) - 1, Pop(c, st),
           layers' = [layers EXCEPT ![c] = la],
           Ordered(st), alive[c] => Stacked(st, la), ~alive[c] => la = <<>>,
           WritesOf(st) \subseteq WritesOf(stack[c]),
           WritesIn(la) \subseteq WritesIn(layers[c]),
           aborted' = aborted \/ aborted' = [aborted EXCEPT ![c] = FALSE],
           dropped' \subseteq Write,
           UNCHANGED <<conns, alive, calls, durable, promised, doubtful, faults>>
    PROVE  UnitOfWorkInv'
<1>1. TypeOK /\ PoolInv /\ ConnectionInv /\ ShapeOK(c) /\ Depth(c) \in Nat
  BY RequestTypes DEF UnitOfWorkInv, ConnectionInv
<1>2. /\ pc' \in [Request -> {"idle", "entering", "running"}]
      /\ stack' \in [Request -> Seq(Frame)] /\ live' \in [Request -> 0..MaxDepth]
      /\ stack'[c] = st /\ Depth(c)' = Depth(c) - 1
      /\ live'[c] <= Depth(c) - 1
      /\ pc'[c] = IF st = <<>> THEN "idle" ELSE "running"
      /\ \A d \in Request \ {c} :
            pc'[d] = pc[d] /\ stack'[d] = stack[d] /\ live'[d] = live[d]
  BY <1>1, PopStep
<1>3. /\ layers' \in [Request -> Seq(SUBSET Write)] /\ layers'[c] = la
      /\ aborted' \in [Request -> BOOLEAN]
      /\ \A d \in Request \ {c} : layers'[d] = layers[d] /\ aborted'[d] = aborted[d]
  BY <1>1 DEF TypeOK
<1>4. TypeOK' /\ PoolInv' /\ PromisedIsDurable'
  <2>1. Taken' = Taken /\ InUse' = InUse
    BY DEF InUse, Taken
  <2> QED
    BY <1>1, <1>2, <1>3, <2>1 DEF UnitOfWorkInv, TypeOK, PoolInv, PromisedIsDurable
<1>5. KeepsOthers(c)
  BY <1>2, <1>3 DEF KeepsOthers
<1>6. ShapeOK(c)'
  <2>1. st # <<>> /\ stack[c] # <<>> /\ Depth(c) <= MaxDepth /\ conns[c] = 1
    BY <1>1, RequestTypes, EmptySeq DEF ShapeOK
  <2>2. Depth(c) - 1 < MaxDepth
    BY <1>1, <2>1, UnitOfWorkAssumption
  <2>3. /\ pc'[c] = "running" /\ stack'[c] # <<>> /\ Depth(c)' < MaxDepth
        /\ Depth(c)' <= MaxDepth /\ live'[c] <= Depth(c)'
        /\ conns'[c] = 1 /\ alive'[c] = alive[c] /\ layers'[c] = la
    BY <1>1, <1>2, <1>3, <2>1, <2>2, UnitOfWorkAssumption
  <2> QED
    BY <2>3 DEF ShapeOK
<1>7. Matches(c)'
  <2>1. stack'[c] = st /\ layers'[c] = la /\ alive'[c] = alive[c]
    BY <1>2, <1>3
  <2> QED
    BY <2>1 DEF Matches
<1>8. /\ WritesIn(layers'[c]) \subseteq WritesIn(layers[c])
      /\ WritesOf(stack'[c]) \subseteq WritesOf(stack[c]) /\ durable' = durable
  BY <1>2, <1>3
<1>9. ConnectionInv'
  BY <1>1, <1>5, <1>6, <1>7, <1>8, OneRequestShrinks
<1> QED
  BY <1>4, <1>9 DEF UnitOfWorkInv

\* The root call returns and makes D of what the server held durable.
LEMMA RootReturn ==
    ASSUME UnitOfWorkInv, NEW c \in Request, Depth(c) = 1, Pop(c, <<>>), EndRoot(c),
           NEW D, D \subseteq WritesIn(layers[c]), D \subseteq Write,
           durable' = durable \cup D, promised' \subseteq durable',
           dropped' \subseteq Write, doubtful' \subseteq SUBSET Write,
           faults' \in 0..MaxFaults, UNCHANGED calls
    PROVE  UnitOfWorkInv'
<1>1. TypeOK /\ PoolInv /\ ConnectionInv /\ ShapeOK(c)
  BY DEF UnitOfWorkInv, ConnectionInv
<1>2. <<>> \in Seq(Frame) /\ Len(<<>>) = 0 /\ <<>> \in Seq(SUBSET Write)
  BY EmptySeq
<1>3. /\ pc' \in [Request -> {"idle", "entering", "running"}]
      /\ stack' \in [Request -> Seq(Frame)] /\ live' \in [Request -> 0..MaxDepth]
      /\ stack'[c] = <<>> /\ Depth(c)' = 0 /\ live'[c] <= 0 /\ pc'[c] = "idle"
      /\ \A d \in Request \ {c} :
            pc'[d] = pc[d] /\ stack'[d] = stack[d] /\ live'[d] = live[d]
  <2>1. Len(<<>>) = Depth(c) - 1 /\ Depth(c) > 0
    BY <1>2
  <2>2. /\ pc' \in [Request -> {"idle", "entering", "running"}]
        /\ stack' \in [Request -> Seq(Frame)] /\ live' \in [Request -> 0..MaxDepth]
        /\ stack'[c] = <<>> /\ Depth(c)' = Depth(c) - 1 /\ live'[c] <= Depth(c) - 1
        /\ pc'[c] = "idle"
        /\ \A d \in Request \ {c} :
              pc'[d] = pc[d] /\ stack'[d] = stack[d] /\ live'[d] = live[d]
    BY <1>2, <2>1, PopStep
  <2> QED
    BY <2>2
<1>4. /\ conns' \in [Request -> Nat] /\ alive' \in [Request -> BOOLEAN]
      /\ aborted' \in [Request -> BOOLEAN] /\ layers' \in [Request -> Seq(SUBSET Write)]
      /\ conns'[c] = 0 /\ alive'[c] = FALSE /\ layers'[c] = <<>>
      /\ \A d \in Request \ {c} : /\ conns'[d] = conns[d] /\ alive'[d] = alive[d]
                                  /\ aborted'[d] = aborted[d] /\ layers'[d] = layers[d]
  BY <1>1, <1>2 DEF EndRoot, TypeOK
<1>5. PoolInv' /\ InUse' <= PoolSize
  <2>1. \A d \in Request : conns'[d] = conns[d] \/ conns'[d] = 0
    BY <1>4
  <2> QED
    BY <1>1, <2>1, PoolStep
<1>6. TypeOK' /\ PromisedIsDurable'
  <2>1. durable' \subseteq Write /\ promised' \subseteq Write /\ calls' \in [Request -> 0..MaxCalls]
    BY <1>1 DEF TypeOK
  <2> QED
    BY <1>3, <1>4, <1>5, <2>1 DEF TypeOK, PromisedIsDurable
<1>7. KeepsOthers(c)
  BY <1>3, <1>4 DEF KeepsOthers
<1>8. ShapeOK(c)' /\ Matches(c)'
  <2>1. ShapeOK(c)'
    BY <1>3, <1>4, UnitOfWorkAssumption DEF ShapeOK
  <2>2. Ordered(<<>>)
    BY <1>2 DEF Ordered
  <2> QED
    BY <1>3, <1>4, <2>1, <2>2 DEF Matches
<1>9. WritesIn(layers'[c]) = {} /\ WritesOf(stack'[c]) = {}
  BY <1>2, <1>3, <1>4 DEF WritesIn, WritesOf
<1>10. ConnectionInv'
  <2> DEFINE N == {}
  <2>1. /\ WritesIn(layers'[c]) \subseteq WritesIn(layers[c]) \cup N
        /\ WritesOf(stack'[c]) \subseteq WritesOf(stack[c]) \cup N
        /\ N \cap durable = {} /\ durable' \subseteq durable \cup D
        /\ (WritesIn(layers'[c]) \cup WritesOf(stack'[c])) \cap D = {}
    BY <1>9
  <2>2. \A d \in Request \ {c} :
            (WritesIn(layers[d]) \cup WritesOf(stack[d])) \cap (N \cup D) = {}
    BY <1>1 DEF ConnectionInv, Apart
  <2> HIDE DEF N
  <2> QED
    BY <1>1, <1>7, <1>8, <2>1, <2>2, OneRequestSteps
<1> QED
  BY <1>5, <1>6, <1>10 DEF UnitOfWorkInv

\* fn of a nested call returns an error.
LEMMA NestedErrorStep ==
    ASSUME UnitOfWorkInv, NEW c \in Request, NestedError(c)
    PROVE  UnitOfWorkInv'
<1>1. TypeOK /\ ShapeOK(c) /\ Matches(c)
  BY DEF UnitOfWorkInv, ConnectionInv
<1>2. /\ stack[c] \in Seq(Frame) /\ layers[c] \in Seq(SUBSET Write) /\ Depth(c) > 1
      /\ stack[c] # <<>> /\ Depth(c) = Len(stack[c]) /\ Depth(c) \in Nat
      /\ Top(c) = stack[c][Len(stack[c])] /\ Top(c) \in Frame
  <2>1. Depth(c) > 1 /\ Depth(c) \in Nat
    BY <1>1, RequestTypes DEF NestedError
  <2> QED
    BY <1>1, <2>1, RequestTypes DEF Depth
<1> DEFINE st == Front(stack[c])
           la == IF Reachable(c) THEN SubSeq(layers[c], 1, Top(c).at - 1) ELSE layers[c]
<1>3. /\ Pop(c, st) /\ UNCHANGED <<conns, alive, calls, durable, promised, doubtful, faults>>
      /\ aborted' = aborted \/ aborted' = [aborted EXCEPT ![c] = FALSE]
      /\ dropped' = dropped \cup Top(c).writes
  BY DEF NestedError, RollbackToSavepoint
<1>4. layers' = [layers EXCEPT ![c] = la]
  BY <1>1 DEF NestedError, RollbackToSavepoint, TypeOK
<1>5. st \in Seq(Frame) /\ Len(st) = Depth(c) - 1
  BY <1>2, FrontKeeps
<1>6. /\ Ordered(st) /\ WritesOf(st) \subseteq WritesOf(stack[c])
      /\ Stacked(stack[c], layers[c]) => Stacked(st, layers[c])
  BY <1>1, <1>2, StackedLeft DEF Matches
<1>7. /\ la \in Seq(SUBSET Write)
      /\ alive[c] => Stacked(st, la)
      /\ ~alive[c] => la = <<>>
      /\ WritesIn(la) \subseteq WritesIn(layers[c])
  <2>1. CASE Reachable(c)
    <3>1. /\ alive[c] /\ Stacked(stack[c], layers[c])
          /\ la = Undone(layers[c], stack[c])
      BY <1>1, <1>2, <2>1 DEF Reachable, Matches, Undone
    <3> HIDE DEF la
    <3>2. /\ la \in Seq(SUBSET Write) /\ Stacked(Front(stack[c]), la)
          /\ WritesIn(la) \subseteq WritesIn(layers[c])
      BY <1>2, <3>1, StackedUndone
    <3> QED
      BY <3>1, <3>2
  <2>2. CASE ~Reachable(c)
    <3>1. la = layers[c] /\ (alive[c] => Stacked(stack[c], layers[c]))
      BY <1>1, <2>2 DEF Matches
    <3> HIDE DEF la
    <3> QED
      BY <1>1, <1>2, <1>6, <3>1 DEF ShapeOK
  <2> QED
    BY <2>1, <2>2
<1>8. dropped' \subseteq Write
  BY <1>1, <1>2, <1>3 DEF TypeOK, Frame
<1> HIDE DEF st, la
<1> QED
  BY <1>2, <1>3, <1>4, <1>5, <1>6, <1>7, <1>8, NestedReturn

\* fn of a nested call returns nil but RELEASE fails: the layers stay.
LEMMA NestedReleaseFailsStep ==
    ASSUME UnitOfWorkInv, NEW c \in Request, NestedReleaseFails(c)
    PROVE  UnitOfWorkInv'
<1>1. TypeOK /\ ShapeOK(c) /\ Matches(c)
  BY DEF UnitOfWorkInv, ConnectionInv
<1>2. /\ stack[c] \in Seq(Frame) /\ layers[c] \in Seq(SUBSET Write) /\ Depth(c) > 1
      /\ stack[c] # <<>> /\ Depth(c) = Len(stack[c]) /\ Depth(c) \in Nat
      /\ Top(c) \in Frame
  <2>1. Depth(c) > 1 /\ Depth(c) \in Nat
    BY <1>1, RequestTypes DEF NestedReleaseFails
  <2> QED
    BY <1>1, <2>1, RequestTypes DEF Depth
<1> DEFINE st == Front(stack[c])
           la == layers[c]
<1>3. /\ Pop(c, st) /\ UNCHANGED <<conns, alive, aborted, layers, calls, durable, promised, doubtful, faults>>
      /\ dropped' = dropped \cup Top(c).writes
  BY DEF NestedReleaseFails, serverVars
<1>4. layers' = [layers EXCEPT ![c] = la]
  BY <1>1, <1>3 DEF TypeOK
<1>5. st \in Seq(Frame) /\ Len(st) = Depth(c) - 1
  BY <1>2, FrontKeeps
<1>6. /\ Ordered(st) /\ WritesOf(st) \subseteq WritesOf(stack[c])
      /\ alive[c] => Stacked(st, la)
  BY <1>1, <1>2, StackedLeft DEF Matches
<1>7. dropped' \subseteq Write /\ (~alive[c] => la = <<>>)
  BY <1>1, <1>2, <1>3 DEF TypeOK, Frame, ShapeOK
<1> HIDE DEF st
<1> QED
  BY <1>2, <1>3, <1>4, <1>5, <1>6, <1>7, NestedReturn

\* RELEASE succeeds.
LEMMA NestedReleaseStep ==
    ASSUME UnitOfWorkInv, NEW c \in Request, NestedRelease(c)
    PROVE  UnitOfWorkInv'
<1>1. TypeOK /\ ShapeOK(c) /\ Matches(c)
  BY DEF UnitOfWorkInv, ConnectionInv
<1>2. /\ stack[c] \in Seq(Frame) /\ layers[c] \in Seq(SUBSET Write) /\ Depth(c) > 1
      /\ Depth(c) = Len(stack[c]) /\ Top(c) = stack[c][Depth(c)]
      /\ alive[c] /\ Stacked(stack[c], layers[c])
  <2>1. Depth(c) > 1 /\ Depth(c) \in Nat
    BY <1>1, RequestTypes DEF NestedRelease
  <2> QED
    BY <1>1, <2>1, RequestTypes DEF Depth, NestedRelease, Reachable, Matches
<1> DEFINE n == Depth(c)
           at == Top(c).at
           outer == [Front(stack[c]) EXCEPT ![n - 1].writes = @ \cup Top(c).writes]
           st == ReleasedCalls(stack[c], n)
           la == Released(layers[c], at)
<1>3. /\ Pop(c, outer)
      /\ UNCHANGED <<conns, alive, aborted, calls, durable, promised, dropped, doubtful, faults>>
  BY DEF NestedRelease, resultVars
<1>4. Pop(c, st)
  <2>1. outer = st
    BY <1>2 DEF ReleasedCalls
  <2> HIDE DEF outer, st
  <2> QED
    BY <1>3, <2>1
<1>5. layers' = [layers EXCEPT ![c] = la]
  BY DEF NestedRelease
<1>6. /\ st \in Seq(Frame) /\ Len(st) = n - 1 /\ la \in Seq(SUBSET Write)
      /\ Stacked(st, la) /\ WritesOf(st) \subseteq WritesOf(stack[c])
      /\ WritesIn(la) \subseteq WritesIn(layers[c])
  <2>1. at = stack[c][n].at /\ n = Len(stack[c]) /\ Len(stack[c]) > 1
    BY <1>2
  <2> HIDE DEF n, at
  <2> QED
    BY <1>2, <2>1, StackedReleased
<1>7. Ordered(st) /\ dropped' \subseteq Write
  BY <1>1, <1>3, <1>6 DEF Stacked, TypeOK
<1> HIDE DEF st, la
<1> QED
  BY <1>2, <1>3, <1>4, <1>5, <1>6, <1>7, NestedReturn

\* The root call ends without a commit.
LEMMA RootErrorStep ==
    ASSUME UnitOfWorkInv, NEW c \in Request, RootError(c) \/ RootCommitFails(c)
    PROVE  UnitOfWorkInv'
<1> DEFINE D == {}
<1>1. TypeOK /\ PromisedIsDurable /\ Depth(c) = 1 /\ Top(c) \in Frame
  BY RequestTypes DEF UnitOfWorkInv, RootError, RootCommitFails
<1>2. /\ Pop(c, <<>>) /\ EndRoot(c) /\ UNCHANGED <<calls, durable, promised, faults>>
      /\ dropped' = dropped \cup Top(c).writes
      /\ doubtful' = doubtful \/ doubtful' = doubtful \cup {Top(c).writes}
  BY DEF RootError, RootCommitFails
<1>3. /\ D \subseteq WritesIn(layers[c]) /\ D \subseteq Write /\ durable' = durable \cup D
      /\ promised' \subseteq durable' /\ dropped' \subseteq Write
      /\ doubtful' \subseteq SUBSET Write /\ faults' \in 0..MaxFaults
  BY <1>1, <1>2 DEF TypeOK, Frame, PromisedIsDurable
<1> HIDE DEF D
<1> QED
  BY <1>1, <1>2, <1>3, RootReturn

\* What a root call that commits believes it wrote is on its connection.
LEMMA CommitTakesAll ==
    ASSUME UnitOfWorkInv, NEW c \in Request, NEW b \in BOOLEAN, RootCommit(c, b)
    PROVE  Top(c).writes \subseteq Held(c)
<1>1. /\ TypeOK /\ Depth(c) = 1 /\ Matches(c) /\ alive[c]
      /\ Top(c) = stack[c][1] /\ Len(stack[c]) = 1 /\ Held(c) = WritesIn(layers[c])
  BY RequestTypes, HeldLayers DEF UnitOfWorkInv, ConnectionInv, RootCommit, Reachable, Depth
<1>2. Stacked(stack[c], layers[c])
  BY <1>1 DEF Matches
<1> SUFFICES ASSUME NEW w \in stack[c][1].writes
             PROVE  \E i \in 1..Len(layers[c]) : w \in layers[c][i]
  BY <1>1 DEF WritesIn
<1> QED
  BY <1>1, <1>2 DEF Stacked

\* COMMIT makes all the server held durable, the root's writes among them.
LEMMA RootCommitStep ==
    ASSUME UnitOfWorkInv, NEW c \in Request, NEW b \in BOOLEAN, RootCommit(c, b)
    PROVE  UnitOfWorkInv'
<1>1. /\ TypeOK /\ PromisedIsDurable /\ Depth(c) = 1 /\ Matches(c)
      /\ Top(c) = stack[c][1] /\ Len(stack[c]) = 1 /\ Held(c) = WritesIn(layers[c])
      /\ \A i \in 1..Len(layers[c]) : layers[c][i] \in SUBSET Write
  BY RequestTypes, HeldLayers DEF UnitOfWorkInv, ConnectionInv, RootCommit, Depth
<1>2. /\ Pop(c, <<>>) /\ EndRoot(c) /\ UNCHANGED calls
      /\ dropped' \subseteq dropped \cup Top(c).writes
      /\ doubtful' \subseteq doubtful \cup {Top(c).writes}
      /\ durable' = durable \cup WritesIn(layers[c])
      /\ promised' \subseteq promised \cup Top(c).writes
  BY <1>1 DEF RootCommit
<1>3. Top(c).writes \subseteq WritesIn(layers[c])
  BY <1>1, CommitTakesAll
<1>4. faults' \in 0..MaxFaults
  BY <1>1, UnitOfWorkAssumption DEF RootCommit, TypeOK
<1>5. WritesIn(layers[c]) \subseteq Write
  BY <1>1 DEF WritesIn
<1>6. promised' \subseteq durable' /\ dropped' \subseteq Write /\ doubtful' \subseteq SUBSET Write
  <2>1. Top(c).writes \subseteq Write /\ dropped \subseteq Write /\ doubtful \subseteq SUBSET Write
    BY <1>1, <1>3, <1>5 DEF TypeOK
  <2>2. promised' \subseteq durable'
    BY <1>1, <1>2, <1>3 DEF PromisedIsDurable
  <2> QED
    BY <1>2, <2>1, <2>2
<1> QED
  BY <1>1, <1>2, <1>4, <1>5, <1>6, RootReturn

\* The step of every action, together.
LEMMA InvStep == UnitOfWorkInv /\ [Next]_vars => UnitOfWorkInv'
<1> SUFFICES ASSUME UnitOfWorkInv, [Next]_vars
             PROVE  UnitOfWorkInv'
  OBVIOUS
<1>1. CASE Next
  <2>1. PICK c \in Request : Step(c)
    BY <1>1 DEF Next
  <2> QED
    BY <2>1, QuietStep, BeginRootStep, BeginNestedStep, ExecStep, ExecOnPoolStep,
       LoseConnectionStep, NestedErrorStep, NestedReleaseStep, NestedReleaseFailsStep,
       RootErrorStep, RootCommitStep DEF Step, Begin, Return
<1>2. CASE UNCHANGED vars
  <2>1. Taken' = Taken /\ InUse' = InUse
    BY <1>2 DEF vars, Taken, InUse
  <2>2. TypeOK' /\ PoolInv' /\ PromisedIsDurable'
    BY <1>2, <2>1 DEF UnitOfWorkInv, vars, TypeOK, PoolInv, PromisedIsDurable
  <2>3. ConnectionInv'
    BY <1>2 DEF UnitOfWorkInv, vars, ConnectionInv, ShapeOK, Depth, Matches, NotYetDurable, Apart
  <2> QED
    BY <2>2, <2>3 DEF UnitOfWorkInv
<1> QED
  BY <1>1, <1>2

\* The initial state: no call, no connection.
LEMMA InvInit == Init => UnitOfWorkInv
<1> SUFFICES ASSUME Init PROVE UnitOfWorkInv
  OBVIOUS
<1> USE UnitOfWorkAssumption
<1>1. /\ <<>> \in Seq(Frame) /\ <<>> \in Seq(SUBSET Write) /\ Len(<<>>) = 0
      /\ WritesIn(<<>>) = {} /\ WritesOf(<<>>) = {} /\ Ordered(<<>>)
  BY EmptySeq DEF WritesIn, WritesOf, Ordered
<1>2. Taken = {}
  BY DEF Taken, Init
<1>3. PoolInv /\ InUse = 0
  BY <1>2, FS_EmptySet DEF PoolInv, InUse
<1>4. stack \in [Request -> Seq(Frame)] /\ layers \in [Request -> Seq(SUBSET Write)]
  BY <1>1 DEF Init
<1>5. TypeOK
  BY <1>3, <1>4 DEF TypeOK, Init
<1>6. \A c \in Request : ShapeOK(c)
  BY <1>1 DEF Init, ShapeOK, Depth
<1>7. \A c \in Request : Matches(c) /\ NotYetDurable(c)
  BY <1>1 DEF Init, Matches, NotYetDurable
<1>8. \A c, d \in Request : Apart(c, d)
  BY <1>1 DEF Init, Apart
<1> QED
  BY <1>3, <1>5, <1>6, <1>7, <1>8 DEF UnitOfWorkInv, ConnectionInv, PromisedIsDurable, Init

\* The invariant holds in every reachable state.
LEMMA InvHolds == Spec => []UnitOfWorkInv
BY InvInit, InvStep, PTL DEF Spec

\* For every number of requests, pool and nesting, the variables keep their
\* types and the requests together never hold more connections than the pool
\* has: a nested WithTransaction takes none.
THEOREM PoolNeverOverdrawn == Spec => []TypeOK
<1>1. UnitOfWorkInv => TypeOK
  BY DEF UnitOfWorkInv
<1> QED
  BY <1>1, InvHolds, PTL

\* WithTransaction that returned nil kept its promise: whatever nested calls
\* failed, were rolled back or released inside it, and whatever deadlines they
\* had, every write it reports is committed.
THEOREM NilMeansDurable == Spec => []PromisedIsDurable
<1>1. UnitOfWorkInv => PromisedIsDurable
  BY DEF UnitOfWorkInv
<1> QED
  BY <1>1, InvHolds, PTL

-----------------------------------------------------------------------------
(* What a call that returned an error left behind. *)

\* One request steps and only writes of its own are given up: the others can
\* commit no more of them than before.
LEMMA DoomedStep ==
    ASSUME UnitOfWorkInv, FailInv, NEW c \in Request, KeepsOthers(c),
           dropped' \subseteq dropped \cup WritesOf(stack[c]), Doomed(c)'
    PROVE  \A d \in Request : Doomed(d)'
<1> SUFFICES ASSUME NEW d \in Request \ {c} PROVE Doomed(d)'
  OBVIOUS
<1>1. /\ stack'[d] = stack[d] /\ live'[d] = live[d] /\ layers'[d] = layers[d]
      /\ aborted'[d] = aborted[d]
  BY DEF KeepsOthers
<1>2. Doomed(d) /\ Apart(c, d)
  BY DEF FailInv, UnitOfWorkInv, ConnectionInv
<1>3. \A i \in 1..Len(layers[d]) : layers[d][i] \cap WritesOf(stack[c]) = {}
  BY <1>2 DEF Apart, WritesIn
<1>4. \A i \in 1..Len(layers[d]) :
        layers[d][i] \cap dropped' # {} => layers[d][i] \cap dropped # {}
  BY <1>3
<1> QED
  BY <1>1, <1>2, <1>4 DEF Doomed, Depth, Top

\* A step that makes nothing durable and gives up only writes that are not.
LEMMA ErrorKept ==
    ASSUME FailInv, NEW F, F \cap durable = {}, dropped' = dropped \cup F,
           UNCHANGED <<durable, doubtful>>
    PROVE  DoubtfulIsDropped' /\ ErrorIsAllOrNothing'
BY DEF FailInv, DoubtfulIsDropped, ErrorIsAllOrNothing

\* In particular one that gives up none.
LEMMA ErrorUntouched ==
    ASSUME FailInv, UNCHANGED <<durable, dropped, doubtful>>
    PROVE  DoubtfulIsDropped' /\ ErrorIsAllOrNothing'
BY DEF FailInv, DoubtfulIsDropped, ErrorIsAllOrNothing

\* In a transaction that is not in the failed state and can still be reached,
\* no layer holds a write of a failed call.
LEMMA CleanWhileHealthy ==
    ASSUME FailInv, NEW c \in Request, live[c] = Depth(c), ~aborted[c]
    PROVE  WritesIn(layers[c]) \cap dropped = {}
BY DEF FailInv, Doomed, WritesIn

\* The steps that give up no write.
LEMMA FailKeptQuiet ==
    ASSUME UnitOfWorkInv, FailInv, ~NestedDeadlines, NEW c \in Request,
           \/ Call(c) \/ BeginRootFails(c) \/ BeginNestedFails(c) \/ ExecFails(c)
           \/ \E k \in 0..(MaxDepth - 1) : Expire(c, k)
    PROVE  FailInv'
<1>1. TypeOK /\ Doomed(c) /\ ShapeOK(c)
  BY DEF FailInv, UnitOfWorkInv, ConnectionInv
<1>2. /\ KeepsOthers(c) /\ stack'[c] = stack[c] /\ layers'[c] = layers[c]
      /\ UNCHANGED <<durable, dropped, doubtful>>
      /\ \/ live'[c] = live[c] /\ (aborted[c] => aborted'[c])
         \/ live'[c] = 0 /\ stack[c] # <<>>
  <2>1. CASE Call(c)
    BY <1>1, <2>1 DEF Call, KeepsOthers, TypeOK, serverVars, resultVars
  <2>2. CASE BeginNestedFails(c)
    BY <1>1, <2>2 DEF BeginNestedFails, KeepsOthers, TypeOK, serverVars, resultVars
  <2>3. CASE ExecFails(c)
    BY <1>1, <2>3 DEF ExecFails, KeepsOthers, TypeOK, resultVars
  <2>4. ASSUME NEW k \in 0..(MaxDepth - 1), Expire(c, k)
        PROVE  /\ KeepsOthers(c) /\ UNCHANGED <<stack, layers, durable, dropped, doubtful>>
               /\ live'[c] = 0 /\ stack[c] # <<>>
    BY <1>1, <2>4 DEF Expire, KeepsOthers, TypeOK, serverVars, resultVars, ShapeOK
  <2>5. CASE BeginRootFails(c)
    BY <1>1, <2>5 DEF BeginRootFails, KeepsOthers, TypeOK, serverVars, resultVars
  <2> QED
    BY <2>1, <2>2, <2>3, <2>4, <2>5
<1>3. Doomed(c)'
  <2>1. Depth(c)' = Depth(c) /\ (Top(c))' = Top(c)
    BY <1>2 DEF Depth, Top
  <2>2. stack[c] # <<>> => Depth(c) # 0
    BY <1>1, RequestTypes
  <2> QED
    BY <1>1, <1>2, <2>1, <2>2 DEF Doomed
<1>4. dropped' \subseteq dropped \cup WritesOf(stack[c])
  BY <1>2
<1> QED
  BY <1>1, <1>2, <1>3, <1>4, DoomedStep, ErrorUntouched DEF FailInv

\* A new layer is empty.
LEMMA FailKeptBegin ==
    ASSUME UnitOfWorkInv, FailInv, NEW c \in Request, BeginRoot(c) \/ BeginNested(c)
    PROVE  FailInv'
<1>1. /\ TypeOK /\ Doomed(c) /\ ShapeOK(c)
      /\ layers[c] \in Seq(SUBSET Write) /\ stack[c] \in Seq(Frame) /\ Depth(c) \in Nat
  BY RequestTypes DEF FailInv, UnitOfWorkInv, ConnectionInv
<1>2. KeepsOthers(c) /\ UNCHANGED <<durable, dropped, doubtful>>
  BY <1>1 DEF BeginRoot, BeginNested, KeepsOthers, TypeOK, resultVars
<1>3. live'[c] = Depth(c)'
  <2>1. CASE BeginRoot(c)
    <3> DEFINE f == [writes |-> {}, at |-> 1]
    <3>1. stack'[c] = <<f>> /\ live'[c] = 1
      BY <1>1, <2>1 DEF BeginRoot, TypeOK
    <3>2. Len(<<f>>) = 1
      OBVIOUS
    <3> QED
      BY <3>1, <3>2 DEF Depth
  <2>2. CASE BeginNested(c)
    <3> DEFINE f == [writes |-> {}, at |-> Len(layers[c]) + 1]
    <3>1. stack'[c] = Append(stack[c], f) /\ live'[c] = Depth(c) + 1
      BY <1>1, <2>2 DEF BeginNested, Reachable, TypeOK
    <3>2. f \in Frame
      BY <1>1, LenProperties DEF Frame
    <3> HIDE DEF f
    <3>3. Len(Append(stack[c], f)) = Len(stack[c]) + 1
      BY <1>1, <3>2, AppendProperties
    <3> QED
      BY <3>1, <3>3 DEF Depth
  <2> QED
    BY <2>1, <2>2
<1>4. \A i \in 1..Len(layers'[c]) : layers'[c][i] \cap dropped = {}
  <2>1. CASE BeginRoot(c)
    <3>1. layers'[c] = <<{}>>
      BY <1>1, <2>1 DEF BeginRoot, TypeOK
    <3> QED
      BY <3>1
  <2>2. CASE BeginNested(c)
    <3>1. layers'[c] = Append(layers[c], {}) /\ live[c] = Depth(c) /\ ~aborted[c]
      BY <1>1, <2>2 DEF BeginNested, Reachable, TypeOK
    <3>2. {} \in SUBSET Write /\ Len(layers[c]) \in Nat
      BY <1>1, LenProperties
    <3>3. /\ Len(Append(layers[c], {})) = Len(layers[c]) + 1
          /\ \A i \in 1..Len(layers[c]) : Append(layers[c], {})[i] = layers[c][i]
          /\ Append(layers[c], {})[Len(layers[c]) + 1] = {}
      BY <1>1, <3>2, AppendProperties
    <3>4. \A i \in 1..Len(layers[c]) : layers[c][i] \cap dropped = {}
      BY <3>1, CleanWhileHealthy DEF WritesIn
    <3> SUFFICES ASSUME NEW i \in 1..(Len(layers[c]) + 1)
                 PROVE  layers'[c][i] \cap dropped = {}
      BY <3>1, <3>3
    <3>5. CASE i = Len(layers[c]) + 1
      BY <3>1, <3>3, <3>5
    <3>6. CASE i \in 1..Len(layers[c])
      BY <3>1, <3>3, <3>4, <3>6
    <3> QED
      BY <3>2, <3>5, <3>6
  <2> QED
    BY <2>1, <2>2
<1>5. Doomed(c)'
  BY <1>2, <1>3, <1>4 DEF Doomed
<1>6. dropped' \subseteq dropped \cup WritesOf(stack[c])
  BY <1>2
<1> QED
  BY <1>1, <1>2, <1>5, <1>6, DoomedStep, ErrorUntouched DEF FailInv

\* A new write is of no failed call.
LEMMA FailKeptExec ==
    ASSUME UnitOfWorkInv, FailInv, NEW c \in Request, NEW w \in Write, Exec(c, w)
    PROVE  FailInv'
<1>1. TypeOK /\ Doomed(c) /\ ShapeOK(c) /\ Matches(c)
  BY DEF FailInv, UnitOfWorkInv, ConnectionInv
<1> DEFINE st == AddToCall(stack[c], w)
           la == AddToLayer(layers[c], w)
<1>2. /\ stack[c] \in Seq(Frame) /\ layers[c] \in Seq(SUBSET Write)
      /\ stack[c] # <<>> /\ Stacked(stack[c], layers[c])
      /\ live[c] = Depth(c) /\ ~aborted[c]
  BY <1>1, RequestTypes DEF Exec, Reachable, ShapeOK, Matches
<1>3. w \notin dropped /\ w \notin WritesIn(layers[c])
  BY <1>1, UnusedIsNew DEF Exec
<1>4. /\ stack'[c] = st /\ layers'[c] = la
      /\ KeepsOthers(c) /\ UNCHANGED <<live, durable, dropped, doubtful>>
  BY <1>1, <1>2 DEF Exec, TypeOK, AddToCall, AddToLayer, KeepsOthers, resultVars, Depth
<1>5. /\ Len(st) = Len(stack[c]) /\ Len(la) = Len(layers[c])
      /\ \A i \in 1..Len(layers[c]) : la[i] \subseteq layers[c][i] \cup {w}
  BY <1>2, <1>3, StackedWrite
<1> HIDE DEF st, la
<1>6. \A i \in 1..Len(layers[c]) : layers[c][i] \cap dropped = {}
  BY <1>2, CleanWhileHealthy DEF WritesIn
<1>7. Doomed(c)'
  <2>1. live'[c] = Depth(c)'
    BY <1>2, <1>4, <1>5 DEF Depth
  <2>2. \A i \in 1..Len(layers'[c]) : layers'[c][i] \cap dropped' = {}
    BY <1>3, <1>4, <1>5, <1>6
  <2> QED
    BY <2>1, <2>2 DEF Doomed
<1>8. dropped' \subseteq dropped \cup WritesOf(stack[c])
  BY <1>4
<1> QED
  BY <1>1, <1>4, <1>7, <1>8, DoomedStep, ErrorUntouched DEF FailInv

\* A write outside any transaction is of no failed call either.
LEMMA FailKeptOnPool ==
    ASSUME UnitOfWorkInv, FailInv, NEW c \in Request, NEW w \in Write, ExecOnPool(c, w)
    PROVE  FailInv'
<1>1. w \notin dropped
  BY UnusedIsNew DEF UnitOfWorkInv, ExecOnPool
<1>2. /\ UNCHANGED <<stack, live, aborted, layers, dropped, doubtful>>
      /\ durable' = durable \cup {w}
  BY DEF ExecOnPool, serverVars
<1>3. \A d \in Request : Doomed(d)'
  BY <1>2 DEF FailInv, Doomed, Depth, Top
<1>4. DoubtfulIsDropped' /\ ErrorIsAllOrNothing'
  BY <1>1, <1>2 DEF FailInv, DoubtfulIsDropped, ErrorIsAllOrNothing
<1> QED
  BY <1>3, <1>4 DEF FailInv

\* Without layers there is nothing to commit.
LEMMA FailKeptLost ==
    ASSUME UnitOfWorkInv, FailInv, NEW c \in Request, LoseConnection(c)
    PROVE  FailInv'
<1>1. TypeOK /\ Doomed(c)
  BY DEF FailInv, UnitOfWorkInv
<1>2. /\ KeepsOthers(c) /\ UNCHANGED <<stack, live, durable, dropped, doubtful>> /\ layers'[c] = <<>>
  BY <1>1 DEF LoseConnection, KeepsOthers, TypeOK, resultVars
<1>3. Doomed(c)'
  BY <1>1, <1>2 DEF Doomed, Depth
<1>4. dropped' \subseteq dropped \cup WritesOf(stack[c])
  BY <1>2
<1> QED
  BY <1>1, <1>2, <1>3, <1>4, DoomedStep, ErrorUntouched DEF FailInv

\* The writes of the innermost call are writes of the request, none durable.
LEMMA TopWrites ==
    ASSUME UnitOfWorkInv, NEW c \in Request, Depth(c) > 0
    PROVE  /\ Top(c).writes \subseteq WritesOf(stack[c])
           /\ Top(c).writes \cap durable = {}
<1>1. Top(c) = stack[c][Depth(c)] /\ Depth(c) \in 1..Depth(c) /\ Depth(c) = Len(stack[c])
  BY RequestTypes DEF UnitOfWorkInv, Depth
<1>2. Top(c).writes \subseteq WritesOf(stack[c])
  BY <1>1 DEF WritesOf
<1> QED
  BY <1>2 DEF UnitOfWorkInv, ConnectionInv, NotYetDurable

\* A rollback to the savepoint removes the failed call's writes and those of
\* the failed calls inside it; one that cannot be sent leaves a transaction
\* that can no longer commit.
LEMMA FailKeptError ==
    ASSUME UnitOfWorkInv, FailInv, NEW c \in Request, NestedError(c)
    PROVE  FailInv'
<1>1. TypeOK /\ Doomed(c) /\ ShapeOK(c) /\ Matches(c)
  BY DEF FailInv, UnitOfWorkInv, ConnectionInv
<1>2. /\ stack[c] \in Seq(Frame) /\ layers[c] \in Seq(SUBSET Write) /\ Depth(c) > 1
      /\ Depth(c) \in Nat /\ stack[c] # <<>> /\ Top(c) = stack[c][Len(stack[c])]
      /\ Top(c) \in Frame /\ live[c] \in Nat /\ Len(layers[c]) \in Nat
  <2>1. Depth(c) > 1 /\ Depth(c) \in Nat
    BY <1>1, RequestTypes DEF NestedError
  <2> QED
    BY <1>1, <2>1, RequestTypes DEF Depth
<1>3. /\ Pop(c, Front(stack[c])) /\ UNCHANGED <<conns, alive, durable, doubtful>>
      /\ dropped' = dropped \cup Top(c).writes
  BY DEF NestedError
<1>4. /\ Depth(c)' = Depth(c) - 1
      /\ live'[c] = IF live[c] < Depth(c) THEN live[c] ELSE Depth(c) - 1
      /\ \A d \in Request \ {c} :
            pc'[d] = pc[d] /\ stack'[d] = stack[d] /\ live'[d] = live[d]
  <2>1. Front(stack[c]) \in Seq(Frame) /\ Len(Front(stack[c])) = Depth(c) - 1
    BY <1>2, FrontKeeps DEF Depth
  <2> QED
    BY <1>2, <1>3, <2>1, PopStep
<1>5. KeepsOthers(c)
  BY <1>1, <1>3, <1>4 DEF KeepsOthers, NestedError, RollbackToSavepoint, TypeOK
<1>6. live'[c] \in {0, Depth(c)'}
  BY <1>1, <1>2, <1>4 DEF Doomed
<1>7. Doomed(c)'
  <2>1. CASE Reachable(c)
    <3>1. alive[c] /\ live[c] = Depth(c) /\ Stacked(stack[c], layers[c])
      BY <1>1, <2>1 DEF Reachable, Matches
    <3> DEFINE la == Undone(layers[c], stack[c])
    <3>2. layers'[c] = la
      BY <1>1, <1>2, <2>1 DEF NestedError, RollbackToSavepoint, TypeOK, Undone
    <3>3. /\ Len(la) = Top(c).at - 1
          /\ \A i \in 1..Len(la) : i \in 1..Len(layers[c]) /\ la[i] = layers[c][i]
          /\ Top(c).writes \cap WritesIn(la) = {}
      BY <1>2, <3>1, StackedUndone
    <3> HIDE DEF la
    <3>4. ASSUME NEW i \in 1..Len(la)
          PROVE  la[i] \cap dropped' = {}
      <4>1. i \in 1..Len(layers[c]) /\ la[i] = layers[c][i] /\ ~(Top(c).at < i)
        BY <1>2, <3>3 DEF Frame
      <4>2. la[i] \cap dropped = {}
        BY <1>1, <3>1, <4>1 DEF Doomed
      <4>3. la[i] \cap Top(c).writes = {}
        BY <3>3 DEF WritesIn
      <4> QED
        BY <1>3, <4>2, <4>3
    <3> QED
      BY <1>6, <3>2, <3>4 DEF Doomed
  <2>2. CASE ~Reachable(c) /\ live[c] # Depth(c)
    <3>1. live[c] = 0
      BY <1>1, <2>2 DEF Doomed
    <3>2. live'[c] = 0 /\ Depth(c)' # 0
      BY <1>2, <1>4, <3>1
    <3> QED
      BY <3>2 DEF Doomed
  <2>3. CASE ~Reachable(c) /\ live[c] = Depth(c)
    <3>1. ~alive[c] /\ layers[c] = <<>>
      BY <1>1, <2>3 DEF Reachable, ShapeOK
    <3>2. layers'[c] = <<>>
      BY <2>3, <3>1 DEF NestedError
    <3> QED
      BY <1>6, <3>2 DEF Doomed
  <2> QED
    BY <2>1, <2>2, <2>3
<1>8. dropped' \subseteq dropped \cup WritesOf(stack[c]) /\ Top(c).writes \cap durable = {}
  BY <1>2, <1>3, TopWrites
<1> QED
  BY <1>1, <1>3, <1>5, <1>7, <1>8, DoomedStep, ErrorKept DEF FailInv

\* A call whose RELEASE failed leaves its writes above the savepoint of the
\* call around it, in a transaction that failed or can no longer be reached.
LEMMA FailKeptReleaseFails ==
    ASSUME UnitOfWorkInv, FailInv, NEW c \in Request, NestedReleaseFails(c)
    PROVE  FailInv'
<1>1. TypeOK /\ Doomed(c) /\ ShapeOK(c) /\ Matches(c)
  BY DEF FailInv, UnitOfWorkInv, ConnectionInv
<1> DEFINE st == Front(stack[c])
           n == Depth(c)
<1>2. /\ stack[c] \in Seq(Frame) /\ layers[c] \in Seq(SUBSET Write) /\ n > 1
      /\ n \in Nat /\ stack[c] # <<>> /\ Top(c) = stack[c][n] /\ n = Len(stack[c])
      /\ Top(c) \in Frame /\ live[c] \in Nat
  <2>1. Depth(c) > 1 /\ Depth(c) \in Nat
    BY <1>1, RequestTypes DEF NestedReleaseFails
  <2> QED
    BY <1>1, <2>1, RequestTypes DEF Depth
<1>3. /\ Pop(c, st) /\ UNCHANGED <<conns, alive, aborted, layers, durable, doubtful>>
      /\ dropped' = dropped \cup Top(c).writes
  BY DEF NestedReleaseFails, serverVars
<1>4. st \in Seq(Frame) /\ Len(st) = n - 1 /\ \A k \in 1..(n - 1) : st[k] = stack[c][k]
  BY <1>2, FrontKeeps
<1>5. /\ Depth(c)' = n - 1 /\ stack'[c] = st
      /\ live'[c] = IF live[c] < n THEN live[c] ELSE n - 1
      /\ \A d \in Request \ {c} :
            pc'[d] = pc[d] /\ stack'[d] = stack[d] /\ live'[d] = live[d]
  BY <1>2, <1>3, <1>4, PopStep
<1>6. KeepsOthers(c) /\ live'[c] \in {0, Depth(c)'}
  BY <1>1, <1>2, <1>3, <1>5 DEF KeepsOthers, Doomed
<1>7. (Top(c))' = stack[c][n - 1] /\ n - 1 \in 1..n /\ n \in 1..n
  <2>1. Last(st) = st[n - 1] /\ n - 1 \in 1..(n - 1)
    BY <1>2, <1>4 DEF Last
  <2>2. (Top(c))' = Last(st)
    BY <1>5 DEF Top
  <2> QED
    BY <1>2, <1>4, <2>1, <2>2
<1>8. Doomed(c)'
  <2>1. CASE live[c] # n
    <3>1. live'[c] = 0 /\ Depth(c)' # 0
      BY <1>1, <1>2, <1>5, <2>1 DEF Doomed
    <3> QED
      BY <3>1 DEF Doomed
  <2>2. CASE ~alive[c]
    <3>1. layers'[c] = <<>>
      BY <1>1, <1>3, <2>2 DEF ShapeOK
    <3> QED
      BY <1>6, <3>1 DEF Doomed
  <2>3. CASE live[c] = n /\ alive[c]
    <3>1. aborted[c] /\ Stacked(stack[c], layers[c])
      BY <1>1, <2>3 DEF NestedReleaseFails, Reachable, Matches
    <3>2. /\ stack[c][n].at \in Nat /\ stack[c][n - 1].at \in Nat
          /\ stack[c][n - 1].at < stack[c][n].at
      <4>1. Ordered(stack[c]) /\ n = Len(stack[c]) /\ n \in Nat /\ n - 1 < n
        BY <1>2, <3>1 DEF Stacked, Depth
      <4> QED
        BY <1>7, <4>1 DEF Ordered
    <3>3. ASSUME NEW i \in 1..Len(layers[c]), layers[c][i] \cap dropped' # {}
          PROVE  stack[c][n].at <= i
      <4>1. CASE layers[c][i] \cap dropped # {}
        <5>1. stack[c][n].at < i
          BY <1>1, <1>2, <2>3, <4>1 DEF Doomed
        <5> QED
          BY <3>2, <5>1
      <4>2. CASE layers[c][i] \cap dropped = {}
        <5>1. PICK w \in stack[c][n].writes : w \in layers[c][i]
          BY <1>2, <1>3, <3>3, <4>2
        <5>2. PICK j \in 1..Len(layers[c]) : Belongs(stack[c], j, n) /\ w \in layers[c][j]
          BY <1>2, <1>7, <3>1, <5>1 DEF Stacked
        <5>3. i = j
          BY <3>1, <5>1, <5>2 DEF Stacked
        <5> QED
          BY <5>2, <5>3 DEF Belongs
      <4> QED
        BY <4>1, <4>2
    <3>4. ASSUME NEW i \in 1..Len(layers[c]), layers[c][i] \cap dropped' # {}
          PROVE  stack[c][n - 1].at < i
      BY <3>2, <3>3, <3>4
    <3> QED
      BY <1>3, <1>6, <1>7, <3>1, <3>4 DEF Doomed
  <2> QED
    BY <2>1, <2>2, <2>3
<1>9. dropped' \subseteq dropped \cup WritesOf(stack[c]) /\ Top(c).writes \cap durable = {}
  BY <1>2, <1>3, TopWrites
<1> QED
  BY <1>1, <1>3, <1>6, <1>8, <1>9, DoomedStep, ErrorKept DEF FailInv

\* RELEASE moves writes between layers and gives up none.
LEMMA FailKeptRelease ==
    ASSUME UnitOfWorkInv, FailInv, NEW c \in Request, NestedRelease(c)
    PROVE  FailInv'
<1>1. TypeOK /\ Doomed(c) /\ ShapeOK(c) /\ Matches(c)
  BY DEF FailInv, UnitOfWorkInv, ConnectionInv
<1> DEFINE n == Depth(c)
           at == Top(c).at
           outer == [Front(stack[c]) EXCEPT ![n - 1].writes = @ \cup Top(c).writes]
           st == ReleasedCalls(stack[c], n)
           la == Released(layers[c], at)
<1>2. /\ stack[c] \in Seq(Frame) /\ layers[c] \in Seq(SUBSET Write) /\ n > 1
      /\ n = Len(stack[c]) /\ Top(c) = stack[c][n] /\ n \in Nat
      /\ live[c] = n /\ ~aborted[c] /\ Stacked(stack[c], layers[c])
  <2>1. Depth(c) > 1 /\ Depth(c) \in Nat
    BY <1>1, RequestTypes DEF NestedRelease
  <2> QED
    BY <1>1, <2>1, RequestTypes DEF Depth, NestedRelease, Reachable, Matches
<1>3. /\ Pop(c, outer) /\ layers' = [layers EXCEPT ![c] = la] /\ layers'[c] = la
      /\ UNCHANGED <<conns, alive, aborted, durable, dropped, doubtful>>
  BY <1>1 DEF NestedRelease, resultVars, TypeOK
<1>4. /\ st \in Seq(Frame) /\ Len(st) = n - 1
      /\ WritesIn(la) \subseteq WritesIn(layers[c])
  <2>1. at = stack[c][n].at /\ n = Len(stack[c]) /\ Len(stack[c]) > 1
    BY <1>2
  <2> HIDE DEF n, at
  <2> QED
    BY <1>2, <2>1, StackedReleased
<1>5. Pop(c, st)
  <2>1. outer = st
    BY <1>2 DEF ReleasedCalls
  <2> HIDE DEF outer, st
  <2> QED
    BY <1>3, <2>1
<1> HIDE DEF outer, st, la
<1>6. /\ Depth(c)' = n - 1
      /\ live'[c] = IF live[c] < n THEN live[c] ELSE n - 1
      /\ \A d \in Request \ {c} :
            pc'[d] = pc[d] /\ stack'[d] = stack[d] /\ live'[d] = live[d]
  <2>1. st \in Seq(Frame) /\ Len(st) = Depth(c) - 1 /\ Depth(c) > 0
    BY <1>2, <1>4
  <2> QED
    BY <1>5, <2>1, PopStep
<1>7. KeepsOthers(c)
  BY <1>1, <1>3, <1>6 DEF KeepsOthers, TypeOK
<1>8. Doomed(c)'
  <2>1. live'[c] = Depth(c)'
    BY <1>2, <1>6
  <2>2. WritesIn(layers[c]) \cap dropped = {}
    BY <1>2, CleanWhileHealthy
  <2>3. \A i \in 1..Len(layers'[c]) : layers'[c][i] \cap dropped' = {}
    BY <1>3, <1>4, <2>2 DEF WritesIn
  <2> QED
    BY <2>1, <2>3 DEF Doomed
<1>9. dropped' \subseteq dropped \cup WritesOf(stack[c])
  BY <1>3
<1> QED
  BY <1>1, <1>3, <1>7, <1>8, <1>9, DoomedStep, ErrorUntouched DEF FailInv

\* The root call ends: a commit finds no write of a failed call in its layers.
LEMMA FailKeptRoot ==
    ASSUME UnitOfWorkInv, FailInv, NEW c \in Request,
           RootError(c) \/ RootCommitFails(c) \/ \E b \in BOOLEAN : RootCommit(c, b)
    PROVE  FailInv'
<1>1. TypeOK /\ Doomed(c) /\ live[c] \in Nat
  BY RequestTypes DEF FailInv, UnitOfWorkInv, ConnectionInv
<1>2. Depth(c) = 1 /\ Pop(c, <<>>) /\ EndRoot(c)
  BY DEF RootError, RootCommitFails, RootCommit
<1>3. /\ stack'[c] = <<>> /\ Depth(c)' = 0 /\ live'[c] = 0
      /\ \A d \in Request \ {c} :
            pc'[d] = pc[d] /\ stack'[d] = stack[d] /\ live'[d] = live[d]
  <2>1. <<>> \in Seq(Frame) /\ Len(<<>>) = Depth(c) - 1 /\ Depth(c) > 0
    BY <1>2, EmptySeq
  <2>2. /\ stack'[c] = <<>> /\ Depth(c)' = Depth(c) - 1
        /\ live'[c] = IF live[c] < Depth(c) THEN live[c] ELSE Depth(c) - 1
        /\ \A d \in Request \ {c} :
              pc'[d] = pc[d] /\ stack'[d] = stack[d] /\ live'[d] = live[d]
    BY <1>2, <2>1, PopStep
  <2> QED
    BY <1>1, <1>2, <2>2
<1>4. layers'[c] = <<>> /\ KeepsOthers(c)
  BY <1>1, <1>2, <1>3 DEF EndRoot, KeepsOthers, TypeOK
<1>5. Doomed(c)'
  BY <1>3, <1>4 DEF Doomed
<1>6. Top(c).writes \subseteq WritesOf(stack[c]) /\ Top(c).writes \cap durable = {}
  BY <1>2, TopWrites
<1>7. dropped' \subseteq dropped \cup WritesOf(stack[c])
  BY <1>6 DEF RootError, RootCommitFails, RootCommit
<1>8. DoubtfulIsDropped' /\ ErrorIsAllOrNothing'
  <2>1. CASE RootError(c)
    BY <1>6, <2>1, ErrorKept DEF RootError
  <2>2. CASE RootCommitFails(c)
    <3>1. /\ dropped' = dropped \cup Top(c).writes /\ UNCHANGED durable
          /\ doubtful' = doubtful \cup {Top(c).writes}
      BY <2>2 DEF RootCommitFails
    <3> QED
      BY <1>6, <3>1 DEF FailInv, DoubtfulIsDropped, ErrorIsAllOrNothing
  <2>3. ASSUME NEW b \in BOOLEAN, RootCommit(c, b)
        PROVE  DoubtfulIsDropped' /\ ErrorIsAllOrNothing'
    <3>1. live[c] = Depth(c) /\ ~aborted[c] /\ durable' = durable \cup Held(c)
      BY <2>3 DEF RootCommit, Reachable
    <3>2. Held(c) \cap dropped = {}
      BY <1>1, <3>1, HeldLayers, CleanWhileHealthy
    <3>3. CASE b
      <4>1. UNCHANGED <<dropped, doubtful>>
        BY <2>3, <3>3 DEF RootCommit
      <4> QED
        BY <3>1, <3>2, <4>1 DEF FailInv, DoubtfulIsDropped, ErrorIsAllOrNothing
    <3>4. CASE ~b
      <4>1. /\ dropped' = dropped \cup Top(c).writes
            /\ doubtful' = doubtful \cup {Top(c).writes}
        BY <2>3, <3>4 DEF RootCommit
      <4>2. Top(c).writes \subseteq Held(c)
        BY <2>3, CommitTakesAll
      <4> QED
        BY <3>1, <3>2, <4>1, <4>2 DEF FailInv, DoubtfulIsDropped, ErrorIsAllOrNothing
    <3> QED
      BY <3>3, <3>4
  <2> QED
    BY <2>1, <2>2, <2>3
<1> QED
  BY <1>4, <1>5, <1>7, <1>8, DoomedStep DEF FailInv

\* The step of every action, together.
LEMMA FailStep ==
    ASSUME ~NestedDeadlines
    PROVE  UnitOfWorkInv /\ FailInv /\ [Next]_vars => FailInv'
<1> SUFFICES ASSUME UnitOfWorkInv, FailInv, [Next]_vars
             PROVE  FailInv'
  OBVIOUS
<1>1. CASE Next
  <2>1. PICK c \in Request : Step(c)
    BY <1>1 DEF Next
  <2> QED
    BY <2>1, FailKeptQuiet, FailKeptBegin, FailKeptExec, FailKeptOnPool, FailKeptLost,
       FailKeptError, FailKeptRelease, FailKeptReleaseFails, FailKeptRoot
       DEF Step, Begin, Return
<1>2. CASE UNCHANGED vars
  <2>1. \A c \in Request : Doomed(c)'
    BY <1>2 DEF vars, FailInv, Doomed, Depth, Top
  <2> QED
    BY <1>2, <2>1, ErrorUntouched DEF vars, FailInv
<1> QED
  BY <1>1, <1>2

\* Where fn derives no context with a deadline of its own, an error of
\* WithTransaction means what its caller needs: nothing is durable, unless it is
\* the Commit of the root that failed, and then all of the work is or none of it.
THEOREM ErrorMeansAllOrNothing == ~NestedDeadlines => (Spec => []ErrorIsAllOrNothing)
<1> SUFFICES ASSUME ~NestedDeadlines
             PROVE  Spec => []ErrorIsAllOrNothing
  OBVIOUS
<1>1. Init => FailInv
  BY EmptySeq DEF Init, FailInv, Doomed, Depth, DoubtfulIsDropped, ErrorIsAllOrNothing
<1>2. UnitOfWorkInv /\ FailInv /\ [Next]_vars => FailInv'
  BY FailStep
<1>3. FailInv => ErrorIsAllOrNothing
  BY DEF FailInv
<1> QED
  BY <1>1, <1>2, <1>3, InvHolds, PTL DEF Spec

=============================================================================
