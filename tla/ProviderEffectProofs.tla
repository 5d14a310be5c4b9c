------------------------ MODULE ProviderEffectProofs ------------------------
(***************************************************************************)
(* Proofs about ProviderEffect, for every route of one or two adapters,    *)
(* every plan and whatever adapters and child runs report: types hold,     *)
(* output is shown of one attempt of an effect only, every call made is    *)
(* one that admission allowed, and the usage ledger accounts for what the  *)
(* committed outcomes reported.                                            *)
(*                                                                         *)
(* None of these is inductive: what an attempt does was decided when its   *)
(* effect was admitted, and the ledger learns of attempts only when the    *)
(* effect commits.  EffectSound says for each stage of the executor what   *)
(* is charged, was called and was shown, and what a commit would make of   *)
(* the ledger.  The ledger is a fold over the attempts and the token bound *)
(* a sum; both are taken one element at a time.                            *)
(***************************************************************************)
EXTENDS ProviderEffect, RunStateProofs

-----------------------------------------------------------------------------
(* The fold of the usage ledger over the attempts of an effect.            *)

\* The recursive function behind AddCalls, on sets of indices.
IsAddIter(g, l, q) ==
    g = [s \in SUBSET DOMAIN q |->
           IF s = {} THEN l ELSE Usage!AddCall(g[s \ {Largest(s)}], q[Largest(s)])]

AddIter(l, q) == CHOOSE g : IsAddIter(g, l, q)

LEMMA AddCallsUnfolds ==
    ASSUME NEW l, NEW q
    PROVE  Usage!AddCalls(l, q) = AddIter(l, q)[DOMAIN q]
BY DEF Usage!AddCalls, Usage!FoldLeft, Usage!MapThenFoldSet, Usage!Max, AddIter, IsAddIter, Largest

\* The recursion is well founded: the library's function exists.
LEMMA AddIterExists ==
    ASSUME NEW l, NEW X, NEW q \in Seq(X)
    PROVE  IsAddIter(AddIter(l, q), l, q)
<1> DEFINE n == Len(q)
           Upto(k, h) == \A s \in SUBSET (1..k) :
                            h[s] = IF s = {} THEN l
                                   ELSE Usage!AddCall(h[s \ {Largest(s)}], q[Largest(s)])
           F == {k \in Nat : \E h : Upto(k, h)}
<1>1. 0 \in F
  <2> DEFINE h == [s \in {{}} |-> l]
  <2>1. Upto(0, h)
    OBVIOUS
  <2>2. QED
    BY <2>1
<1>2. ASSUME NEW k \in F PROVE k + 1 \in F
  <2>1. PICK h : Upto(k, h)
    BY <1>2
  <2> DEFINE g == [s \in SUBSET (1..(k + 1)) |->
                     IF k + 1 \in s THEN Usage!AddCall(h[s \ {k + 1}], q[k + 1]) ELSE h[s]]
  <2>2. ASSUME NEW s \in SUBSET (1..(k + 1)), k + 1 \in s
        PROVE  g[s] = Usage!AddCall(g[s \ {Largest(s)}], q[Largest(s)])
    <3>1. Largest(s) = k + 1
      <4>1. \A y \in s : y <= k + 1
        OBVIOUS
      <4>2. k + 1 \in Nat
        BY <1>2
      <4>3. QED
        BY <2>2, <4>1, <4>2, LargestIs
    <3>2. s \ {k + 1} \in SUBSET (1..(k + 1)) /\ k + 1 \notin s \ {k + 1}
      OBVIOUS
    <3>3. g[s \ {k + 1}] = h[s \ {k + 1}]
      BY <3>2
    <3>4. g[s] = Usage!AddCall(h[s \ {k + 1}], q[k + 1])
      BY <2>2
    <3>5. QED
      BY <3>1, <3>3, <3>4
  <2>3. ASSUME NEW s \in SUBSET (1..(k + 1)), k + 1 \notin s
        PROVE  g[s] = IF s = {} THEN l
                      ELSE Usage!AddCall(g[s \ {Largest(s)}], q[Largest(s)])
    <3>1. s \in SUBSET (1..k)
      BY <2>3
    <3> DEFINE less == s \ {Largest(s)}
    <3>2. less \in SUBSET (1..(k + 1)) /\ k + 1 \notin less
      BY <2>3
    <3>3. g[s] = h[s] /\ g[less] = h[less]
      BY <2>3, <3>2
    <3>4. h[s] = IF s = {} THEN l ELSE Usage!AddCall(h[less], q[Largest(s)])
      BY <2>1, <3>1
    <3> HIDE DEF g, less
    <3>5. QED
      BY <3>3, <3>4 DEF less
  <2>4. Upto(k + 1, g)
    <3> HIDE DEF g
    <3>1. QED
      BY <2>2, <2>3
  <2>5. QED
    <3> HIDE DEF Upto, g
    <3>1. QED
      BY <2>4
<1>3. F = Nat
  <2> HIDE DEF F
  <2>1. F \in SUBSET Nat
    BY DEF F
  <2>2. QED
    BY <1>1, <1>2, <2>1, NatSetInduction
<1>4. n \in Nat /\ DOMAIN q = 1..n
  OBVIOUS
<1>5. PICK h : Upto(n, h)
  BY <1>3, <1>4
<1> DEFINE g == [s \in SUBSET DOMAIN q |-> h[s]]
<1>6. IsAddIter(g, l, q)
  <2>1. \A s \in SUBSET DOMAIN q : g[s \ {Largest(s)}] = h[s \ {Largest(s)}]
    OBVIOUS
  <2>2. \A s \in SUBSET DOMAIN q :
           g[s] = IF s = {} THEN l ELSE Usage!AddCall(g[s \ {Largest(s)}], q[Largest(s)])
    BY <1>4, <1>5, <2>1
  <2>3. g = [s \in SUBSET DOMAIN q |->
               IF s = {} THEN l ELSE Usage!AddCall(g[s \ {Largest(s)}], q[Largest(s)])]
    BY <2>2
  <2>4. QED
    BY <2>3 DEF IsAddIter
<1>7. QED
  <2> HIDE DEF g
  <2>1. QED
    BY <1>6 DEF AddIter

\* On the first k attempts.
LEMMA AddIterAt ==
    ASSUME NEW l, NEW X, NEW q \in Seq(X), NEW k \in 0..Len(q)
    PROVE  AddIter(l, q)[1..k] =
              IF k = 0 THEN l ELSE Usage!AddCall(AddIter(l, q)[1..(k - 1)], q[k])
<1> DEFINE g == AddIter(l, q)
<1>0. IsAddIter(g, l, q)
  BY AddIterExists
<1> HIDE DEF g
<1>1. \A s \in SUBSET DOMAIN q :
         g[s] = IF s = {} THEN l ELSE Usage!AddCall(g[s \ {Largest(s)}], q[Largest(s)])
  <2> DEFINE h == [s \in SUBSET DOMAIN q |->
                     IF s = {} THEN l ELSE Usage!AddCall(g[s \ {Largest(s)}], q[Largest(s)])]
  <2>1. g = h
    BY <1>0 DEF IsAddIter
  <2>2. \A s \in SUBSET DOMAIN q : h[s] =
           IF s = {} THEN l ELSE Usage!AddCall(g[s \ {Largest(s)}], q[Largest(s)])
    OBVIOUS
  <2> HIDE DEF h
  <2>3. QED
    BY <2>1, <2>2
<1>2. 1..k \in SUBSET DOMAIN q
  OBVIOUS
<1>3. CASE k = 0
  <2>1. 1..k = {}
    BY <1>3
  <2>2. g[1..k] = l
    BY <1>1, <1>2, <2>1
  <2>3. QED
    BY <1>3, <2>2 DEF g
<1>4. CASE k # 0
  <2> k \in Nat
    OBVIOUS
  <2>1. 1..k # {} /\ k \in 1..k /\ \A y \in 1..k : y <= k
    <3>1. k \in 1..k
      BY <1>4
    <3>2. 1..k # {}
      BY <3>1
    <3>3. \A y \in 1..k : y <= k
      OBVIOUS
    <3>4. QED
      BY <3>1, <3>2, <3>3
  <2>2. Largest(1..k) = k
    <3> DEFINE s == 1..k
    <3>1. s \in SUBSET (1..k) /\ k \in s /\ \A y \in s : y <= k
      BY <2>1
    <3> HIDE DEF s
    <3>2. Largest(s) = k
      BY <3>1, LargestIs
    <3>3. QED
      BY <3>2 DEF s
  <2>3. (1..k) \ {k} = 1..(k - 1)
    BY <1>4
  <2>4. g[1..k] = Usage!AddCall(g[1..(k - 1)], q[k])
    BY <1>1, <1>2, <2>1, <2>2, <2>3
  <2>5. QED
    BY <1>4, <2>4 DEF g
<1>5. QED
  BY <1>3, <1>4

\* record_provider_attempts adds the attempts one after another: nothing for
\* none, and the last one to what the others made of the ledger.
LEMMA AddCallsOneByOne ==
    ASSUME NEW l, NEW X, NEW q \in Seq(X), NEW x \in X
    PROVE  /\ Usage!AddCalls(l, << >>) = l
           /\ Usage!AddCalls(l, Append(q, x)) = Usage!AddCall(Usage!AddCalls(l, q), x)
<1> DEFINE n == Len(q)
           r == Append(q, x)
           f == AddIter(l, q)
           g == AddIter(l, r)
           F == {k \in Nat : k <= n => f[1..k] = g[1..k]}
<1>1. /\ n \in Nat /\ r \in Seq(X) /\ Len(r) = n + 1
      /\ r[n + 1] = x
      /\ \A k \in 1..n : r[k] = q[k]
      /\ DOMAIN q = 1..n /\ DOMAIN r = 1..(n + 1)
  OBVIOUS
<1>2. \A k \in 0..n : f[1..k] = IF k = 0 THEN l ELSE Usage!AddCall(f[1..(k - 1)], q[k])
  BY AddIterAt
<1>3. \A k \in 0..(n + 1) : g[1..k] = IF k = 0 THEN l ELSE Usage!AddCall(g[1..(k - 1)], r[k])
  <2> HIDE DEF r
  <2>1. \A k \in 0..Len(r) : AddIter(l, r)[1..k] =
           IF k = 0 THEN l ELSE Usage!AddCall(AddIter(l, r)[1..(k - 1)], r[k])
    BY <1>1, AddIterAt
  <2>2. QED
    BY <1>1, <2>1
<1> HIDE DEF f, g, r, n
<1>4. 0 \in F
  BY <1>1, <1>2, <1>3
<1>5. ASSUME NEW k \in F PROVE k + 1 \in F
  <2>1. CASE k + 1 <= n
    <3>1. k \in Nat /\ f[1..k] = g[1..k]
      BY <1>1, <2>1, <1>5
    <3>2. k + 1 \in 0..n /\ k + 1 \in 0..(n + 1) /\ k + 1 \in 1..n /\ k + 1 # 0
      BY <1>1, <2>1, <3>1
    <3>3. f[1..(k + 1)] = Usage!AddCall(f[1..k], q[k + 1])
      BY <1>2, <3>1, <3>2
    <3>4. g[1..(k + 1)] = Usage!AddCall(g[1..k], r[k + 1])
      BY <1>3, <3>1, <3>2
    <3>5. QED
      BY <1>1, <3>1, <3>2, <3>3, <3>4
  <2>2. CASE ~(k + 1 <= n)
    BY <1>1, <2>2
  <2>3. QED
    BY <2>1, <2>2
<1>6. F = Nat
  <2> HIDE DEF F
  <2>1. F \in SUBSET Nat
    BY DEF F
  <2>2. QED
    BY <1>4, <1>5, <2>1, NatSetInduction
<1>7. f[1..n] = g[1..n]
  BY <1>1, <1>6
<1>8. g[1..(n + 1)] = Usage!AddCall(f[1..n], x)
  BY <1>1, <1>3, <1>7
<1>9. Usage!AddCalls(l, q) = f[1..n] /\ Usage!AddCalls(l, r) = g[1..(n + 1)]
  BY <1>1, AddCallsUnfolds DEF f, g
<1>10. Usage!AddCalls(l, << >>) = l
  <2> DEFINE e == << >>
  <2>1. e \in Seq(X) /\ Len(e) = 0 /\ DOMAIN e = 1..0
    OBVIOUS
  <2> HIDE DEF e
  <2>2. AddIter(l, e)[1..0] = l
    <3>1. 0 \in 0..Len(e)
      BY <2>1
    <3>2. AddIter(l, e)[1..0] =
             IF 0 = 0 THEN l ELSE Usage!AddCall(AddIter(l, e)[1..(0 - 1)], e[0])
      BY <2>1, <3>1, AddIterAt
    <3>3. QED
      BY <3>2
  <2>3. Usage!AddCalls(l, e) = l
    BY <2>1, <2>2, AddCallsUnfolds
  <2>4. QED
    BY <2>3 DEF e
<1>11. QED
  BY <1>8, <1>9, <1>10 DEF r

-----------------------------------------------------------------------------
(* What the ledger accounts for.                                           *)

\* What the end of an attempt may report.
Report == Usage!TokenUsage \cup {Usage!NoUsage}

\* A report that measures the counter f.
Measures(x, f) == x # Usage!NoUsage /\ x[f] # Usage!Unknown

LEMMA MeasuredIsNat ==
    ASSUME NEW f \in Field, NEW x \in Report, Measures(x, f)
    PROVE  x[f] \in Nat
BY DEF Report, Measures, Usage!TokenUsage, Usage!Count, Usage!NoUsage, Usage!Unknown

LEMMA KnownIs ==
    ASSUME NEW f, NEW t
    PROVE  Known(f, t) = {i \in DOMAIN t : Measures(t[i], f)}
BY DEF Known, Measures

\* The known counters add up to a natural number.
LEMMA TotalType ==
    ASSUME NEW f \in Field, NEW t \in Seq(Report)
    PROVE  /\ IsFiniteSet(Known(f, t))
           /\ \A i \in Known(f, t) : t[i][f] \in Nat
           /\ Total(f, t) \in Nat
<1> DEFINE K == Known(f, t)
           fun == [i \in K |-> t[i][f]]
<1>1. IsFiniteSet(K)
  <2>1. IsFiniteSet(1..Len(t))
    BY FS_Interval
  <2>2. K \subseteq 1..Len(t)
    BY DEF Known
  <2>3. QED
    BY <2>1, <2>2, FS_Subset
<1>2. \A i \in K : t[i][f] \in Nat
  BY MeasuredIsNat, KnownIs
<1>3. \A i \in K : fun[i] \in Nat
  BY <1>2
<1> HIDE DEF K, fun
<1>4. SumFunctionOnSet(fun, K) \in Nat
  BY <1>1, <1>3, SumAgrees
<1>5. QED
  BY <1>1, <1>2, <1>4 DEF Total, K, fun

\* One report more adds what it measures.
LEMMA TotalAppend ==
    ASSUME NEW f \in Field, NEW t \in Seq(Report), NEW x \in Report
    PROVE  Total(f, Append(t, x)) = Total(f, t) + (IF Measures(x, f) THEN x[f] ELSE 0)
<1> DEFINE r == Append(t, x)
           n == Len(t)
           K == Known(f, t)
           L == Known(f, r)
           fun == [i \in K |-> t[i][f]]
           gun == [i \in L |-> r[i][f]]
<1>1. /\ r \in Seq(Report) /\ n \in Nat
      /\ DOMAIN t = 1..n /\ DOMAIN r = 1..(n + 1)
      /\ r[n + 1] = x
      /\ \A i \in 1..n : r[i] = t[i]
  OBVIOUS
<1> HIDE DEF r, n
<1>2. /\ IsFiniteSet(K) /\ IsFiniteSet(L)
      /\ \A i \in K : t[i][f] \in Nat
      /\ \A i \in L : r[i][f] \in Nat
  BY <1>1, TotalType
<1>3. /\ K = {i \in 1..n : Measures(t[i], f)}
      /\ L = {i \in 1..(n + 1) : Measures(r[i], f)}
  BY <1>1, KnownIs
<1> HIDE DEF K, L
<1>4. \A i \in K : i \in L /\ gun[i] = fun[i] /\ fun[i] \in Nat
  BY <1>1, <1>2, <1>3
<1>5. Total(f, t) = SumFunctionOnSet(fun, K) /\ Total(f, r) = SumFunctionOnSet(gun, L)
  BY DEF Total, K, L
<1>6. SumFunctionOnSet(gun, K) = SumFunctionOnSet(fun, K) /\ SumFunctionOnSet(fun, K) \in Nat
  <2> HIDE DEF fun, gun
  <2>1. \A i \in K : fun[i] \in Nat /\ gun[i] = fun[i]
    BY <1>4
  <2>2. QED
    BY <1>2, <2>1, SumAgrees
<1>7. CASE Measures(x, f)
  <2>1. n + 1 \in L /\ L \ {n + 1} = K
    BY <1>1, <1>3, <1>7
  <2>2. gun[n + 1] = x[f] /\ \A i \in L : gun[i] \in Nat
    BY <1>1, <1>2, <2>1
  <2> HIDE DEF gun, fun
  <2>3. SumFunctionOnSet(gun, L) = gun[n + 1] + SumFunctionOnSet(gun, L \ {n + 1})
    BY <1>2, <2>1, <2>2, SumSplits
  <2>4. gun[n + 1] \in Nat
    BY <2>1, <2>2
  <2>5. Total(f, r) = x[f] + SumFunctionOnSet(fun, K)
    BY <1>5, <1>6, <2>1, <2>2, <2>3
  <2>6. Total(f, r) = SumFunctionOnSet(fun, K) + x[f]
    BY <1>6, <2>2, <2>4, <2>5
  <2>7. QED
    BY <1>5, <1>7, <2>6 DEF r
<1>8. CASE ~Measures(x, f)
  <2>1. L = K
    BY <1>1, <1>3, <1>8
  <2> HIDE DEF gun, fun
  <2>2. Total(f, r) = SumFunctionOnSet(fun, K)
    BY <1>5, <1>6, <2>1
  <2>3. Total(f, r) = Total(f, t) + 0
    BY <1>5, <1>6, <2>2
  <2>4. QED
    BY <1>8, <2>3 DEF r
<1>9. QED
  BY <1>7, <1>8

LEMMA TotalOfNone ==
    ASSUME NEW f
    PROVE  Total(f, << >>) = 0
<1>1. Known(f, << >>) = {}
  BY DEF Known
<1>2. QED
  BY <1>1, SumOfNone DEF Total

\* The totals of two lists of reports add up.
LEMMA TotalConcat ==
    ASSUME NEW f \in Field, NEW t \in Seq(Report), NEW u \in Seq(Report)
    PROVE  Total(f, t \o u) = Total(f, t) + Total(f, u)
<1> DEFINE Take(k) == [i \in 1..k |-> u[i]]
           Adds(k) == Total(f, t \o Take(k)) = Total(f, t) + Total(f, Take(k))
           F == {k \in Nat : k <= Len(u) => Adds(k)}
<1>1. 0 \in F
  <2>1. Take(0) = << >> /\ t \o << >> = t
    OBVIOUS
  <2>2. Total(f, << >>) = 0
    BY TotalOfNone
  <2>3. Total(f, t) \in Nat
    BY TotalType
  <2> HIDE DEF Take
  <2>4. Total(f, t \o Take(0)) = Total(f, t) + Total(f, Take(0))
    <3>1. Total(f, t \o Take(0)) = Total(f, t) /\ Total(f, Take(0)) = 0
      BY <2>1, <2>2, Zenon
    <3>2. QED
      BY <2>3, <3>1
  <2>5. QED
    <3>1. Adds(0)
      BY <2>4
    <3> HIDE DEF Adds
    <3>2. QED
      BY <3>1
<1>2. ASSUME NEW k \in F PROVE k + 1 \in F
  <2>1. SUFFICES ASSUME k + 1 <= Len(u)
                 PROVE  Adds(k + 1)
    <3> HIDE DEF Adds
    <3>1. QED
      BY <1>2
  <2> DEFINE a == Take(k)
             b == t \o a
             x == u[k + 1]
             c == IF Measures(x, f) THEN x[f] ELSE 0
  <2>2. k \in Nat /\ k <= Len(u) /\ k + 1 \in 1..Len(u)
    BY <1>2, <2>1
  <2>3. x \in Report
    BY <2>2
  <2>4. a \in Seq(Report) /\ Len(a) = k /\ b \in Seq(Report) /\ Len(b) = Len(t) + k
    BY <2>2
  <2>5. Take(k + 1) = Append(a, x)
    BY <2>2
  <2>6. t \o Append(a, x) = Append(b, x)
    BY <2>3, <2>4
  <2>7. Total(f, b) = Total(f, t) + Total(f, a)
    BY <1>2, <2>2
  <2> HIDE DEF Take, a, b, x
  <2>8. Total(f, Append(b, x)) = Total(f, b) + c
    BY <2>3, <2>4, TotalAppend
  <2>9. Total(f, Append(a, x)) = Total(f, a) + c
    BY <2>3, <2>4, TotalAppend
  <2>10. Total(f, t) \in Nat /\ Total(f, a) \in Nat /\ c \in Nat
    BY <2>3, <2>4, TotalType, MeasuredIsNat
  <2> HIDE DEF c
  <2>11. Total(f, Append(b, x)) = Total(f, t) + Total(f, Append(a, x))
    BY <2>7, <2>8, <2>9, <2>10
  <2>12. QED
    BY <2>5, <2>6, <2>11
<1>3. F = Nat
  <2> HIDE DEF F
  <2>1. F \in SUBSET Nat
    BY DEF F
  <2>2. QED
    BY <1>1, <1>2, <2>1, NatSetInduction
<1>4. Take(Len(u)) = u
  OBVIOUS
<1>5. Len(u) \in F
  BY <1>3
<1> HIDE DEF Take
<1>6. QED
  BY <1>4, <1>5

LEMMA SeqIsFunction ==
    ASSUME NEW X, NEW p \in Seq(X), NEW n, Len(p) = n
    PROVE  p = [i \in 1..n |-> p[i]]
OBVIOUS

LEMMA ConcatIs ==
    ASSUME NEW X, NEW a \in Seq(X), NEW b \in Seq(X)
    PROVE  /\ a \o b \in Seq(X)
           /\ Len(a \o b) = Len(a) + Len(b)
           /\ \A i \in 1..(Len(a) + Len(b)) :
                 (a \o b)[i] = IF i <= Len(a) THEN a[i] ELSE b[i - Len(a)]
OBVIOUS

\* The entry of the ledger for what an attempt reported.
Entry(x) == IF x = Usage!NoUsage THEN Usage!UnknownUsage ELSE x

LEMMA UnknownIsUsage == Usage!UnknownUsage \in Usage!TokenUsage
BY DEF Usage!UnknownUsage, Usage!TokenUsage, Usage!Count

\* What AddCall makes of the three parts of a ledger.
LEMMA AddCallFields ==
    ASSUME NEW l \in Usage!RunUsage, NEW x \in Report
    PROVE  LET m == Usage!AddCall(l, x) IN
           /\ m.aggregate = IF x = Usage!NoUsage THEN l.aggregate ELSE Usage!Aggregated(l, x)
           /\ m.complete = (l.complete /\ x # Usage!NoUsage /\ Usage!IsComplete(x))
           /\ m.model_calls = Append(l.model_calls, Entry(x))
           /\ m \in Usage!RunUsage
<1>1. /\ l.aggregate \in Usage!TokenUsage /\ l.complete \in BOOLEAN
      /\ l.model_calls \in Seq(Usage!TokenUsage)
      /\ l = [aggregate |-> l.aggregate, complete |-> l.complete, model_calls |-> l.model_calls]
  BY DEF Usage!RunUsage
<1>2. Entry(x) \in Usage!TokenUsage
  BY UnknownIsUsage DEF Entry, Report
<1>3. CASE x = Usage!NoUsage
  <2>1. Usage!AddCall(l, x) = [l EXCEPT !.complete = FALSE,
                                        !.model_calls = Append(l.model_calls, Entry(x))]
    BY <1>3 DEF Usage!AddCall, Entry
  <2> DEFINE listed == Append(l.model_calls, Entry(x))
  <2>2. listed \in Seq(Usage!TokenUsage)
    BY <1>1, <1>2
  <2>3. Usage!AddCall(l, x) =
           [aggregate |-> l.aggregate, complete |-> FALSE, model_calls |-> listed]
    <3> HIDE DEF listed
    <3>1. Usage!AddCall(l, x) = [l EXCEPT !.complete = FALSE, !.model_calls = listed]
      BY <2>1 DEF listed
    <3>2. QED
      BY <1>1, <3>1
  <2> HIDE DEF listed
  <2>4. /\ Usage!AddCall(l, x).aggregate = l.aggregate
        /\ ~Usage!AddCall(l, x).complete
        /\ Usage!AddCall(l, x).complete = FALSE
        /\ Usage!AddCall(l, x).model_calls = listed
        /\ Usage!AddCall(l, x) \in Usage!RunUsage
    BY <1>1, <2>2, <2>3 DEF Usage!RunUsage
  <2>5. FALSE = (l.complete /\ x # Usage!NoUsage /\ Usage!IsComplete(x))
    BY <1>3
  <2>6. QED
    BY <1>3, <2>4, <2>5 DEF listed
<1>4. CASE x # Usage!NoUsage
  <2> DEFINE agg == Usage!Aggregated(l, x)
             done == l.complete /\ Usage!IsComplete(x)
  <2>1. agg \in Usage!TokenUsage
    BY <1>1, <1>4 DEF Usage!Aggregated, Usage!Merge, Usage!TokenUsage, Usage!Count,
                      Usage!Unknown, Report
  <2>2. Usage!AddCall(l, x) = [aggregate |-> agg, complete |-> done,
                               model_calls |-> Append(l.model_calls, Entry(x))]
    BY <1>4 DEF Usage!AddCall, Entry
  <2>3. done \in BOOLEAN
    BY <1>1
  <2>4. done = (l.complete /\ x # Usage!NoUsage /\ Usage!IsComplete(x))
    BY <1>4
  <2> HIDE DEF agg, done
  <2>5. Append(l.model_calls, Entry(x)) \in Seq(Usage!TokenUsage)
    BY <1>1, <1>2
  <2>6. /\ Usage!AddCall(l, x).aggregate = agg
        /\ Usage!AddCall(l, x).complete = done
        /\ Usage!AddCall(l, x).model_calls = Append(l.model_calls, Entry(x))
        /\ Usage!AddCall(l, x) \in Usage!RunUsage
    BY <2>1, <2>2, <2>3, <2>5 DEF Usage!RunUsage
  <2>7. QED
    BY <1>4, <2>4, <2>6 DEF agg
<1>5. QED
  BY <1>3, <1>4

\* What AccountsFor says of one counter.
CountsFor(l, reports, f) ==
    /\ l.aggregate[f] # Usage!Unknown =>
          /\ l.aggregate[f] = Total(f, reports)
          /\ \A i \in DOMAIN reports : Measures(reports[i], f) \/ reports[i] \in Unmeasured
    /\ l.complete /\ reports # << >> =>
          /\ \A i \in DOMAIN reports : Measures(reports[i], f)
          /\ l.aggregate[f] # Usage!Unknown

LEMMA AccountsIs ==
    ASSUME NEW l, NEW reports
    PROVE  AccountsFor(l, reports) <=>
              /\ l.model_calls = [i \in DOMAIN reports |-> Entry(reports[i])]
              /\ \A f \in Field : CountsFor(l, reports, f)
<1>1. [i \in DOMAIN reports |->
          IF reports[i] = Usage!NoUsage THEN Usage!UnknownUsage ELSE reports[i]]
      = [i \in DOMAIN reports |-> Entry(reports[i])]
  BY DEF Entry
<1>2. ASSUME NEW f
      PROVE  /\ \A i \in DOMAIN reports : i \in Known(f, reports) <=> Measures(reports[i], f)
             /\ Known(f, reports) = DOMAIN reports
                   <=> \A i \in DOMAIN reports : Measures(reports[i], f)
  BY KnownIs
<1>3. QED
  BY <1>1, <1>2 DEF AccountsFor, CountsFor

\* One call more is accounted for (RunUsage::add_call).
LEMMA AddCallAccounts ==
    ASSUME NEW l \in Usage!RunUsage, NEW t \in Seq(Report), AccountsFor(l, t), NEW x \in Report
    PROVE  AccountsFor(Usage!AddCall(l, x), Append(t, x))
<1> DEFINE m == Usage!AddCall(l, x)
           r == Append(t, x)
           n == Len(t)
<1>1. /\ m.aggregate = IF x = Usage!NoUsage THEN l.aggregate ELSE Usage!Aggregated(l, x)
      /\ m.complete = (l.complete /\ x # Usage!NoUsage /\ Usage!IsComplete(x))
      /\ m.model_calls = Append(l.model_calls, Entry(x))
  BY AddCallFields
<1>2. /\ l.model_calls = [i \in DOMAIN t |-> Entry(t[i])]
      /\ \A f \in Field : CountsFor(l, t, f)
  BY AccountsIs
<1>3. /\ n \in Nat /\ DOMAIN t = 1..n /\ DOMAIN r = 1..(n + 1)
      /\ r[n + 1] = x /\ \A i \in 1..n : r[i] = t[i]
      /\ t = << >> <=> n = 0
      /\ r # << >>
  OBVIOUS
<1>4. /\ l.aggregate \in Usage!TokenUsage /\ l.complete \in BOOLEAN
      /\ l.model_calls \in Seq(Usage!TokenUsage)
  BY DEF Usage!RunUsage
<1> HIDE DEF m, r, n
<1>5. m.model_calls = [i \in DOMAIN r |-> Entry(r[i])]
  <2> DEFINE e == l.model_calls
             y == Entry(x)
             old == [i \in 1..n |-> Entry(t[i])]
             new == [i \in 1..(n + 1) |-> Entry(r[i])]
  <2>1. e = old
    BY <1>2, <1>3
  <2>2. new = [i \in 1..(n + 1) |-> IF i = n + 1 THEN y ELSE old[i]]
    BY <1>3
  <2>3. e \in Seq(Usage!TokenUsage) /\ Len(e) = n
    BY <1>3, <1>4, <2>1
  <2> HIDE DEF e, y, old, new
  <2>4. Append(e, y) = [i \in 1..(n + 1) |-> IF i = n + 1 THEN y ELSE e[i]]
    <3>1. y \in Usage!TokenUsage
      BY UnknownIsUsage DEF Entry, Report, y
    <3> DEFINE p == Append(e, y)
    <3>2. /\ p \in Seq(Usage!TokenUsage) /\ Len(p) = n + 1
          /\ p[n + 1] = y /\ \A i \in 1..n : p[i] = e[i]
      BY <1>3, <2>3, <3>1
    <3> HIDE DEF p
    <3>3. p = [i \in 1..(n + 1) |-> p[i]]
      BY <3>2, SeqIsFunction
    <3>4. \A i \in 1..(n + 1) : p[i] = IF i = n + 1 THEN y ELSE e[i]
      BY <1>3, <3>2
    <3>5. p = [i \in 1..(n + 1) |-> IF i = n + 1 THEN y ELSE e[i]]
      BY <3>3, <3>4, Zenon
    <3>6. QED
      BY <3>5 DEF p
  <2>5. Append(e, y) = new
    BY <2>1, <2>2, <2>4
  <2>6. QED
    BY <1>1, <1>3, <2>5 DEF new, e, y
<1>6. l.model_calls = << >> <=> n = 0
  BY <1>2, <1>3, <1>4
<1>7. ASSUME NEW f \in Field PROVE CountsFor(m, r, f)
  <2> DEFINE a == l.aggregate[f]
             b == m.aggregate[f]
             c == x[f]
  <2>1. CountsFor(l, t, f)
    BY <1>2
  <2>2. Total(f, r) = Total(f, t) + (IF Measures(x, f) THEN c ELSE 0) /\ Total(f, t) \in Nat
    BY TotalAppend, TotalType DEF r
  <2>3. a \in Usage!Count
    BY <1>4 DEF Usage!TokenUsage
  <2>4. n = 0 => Total(f, t) = 0
    <3>1. ASSUME n = 0 PROVE Total(f, t) = Total(f, << >>)
      <4>1. t = << >>
        BY <1>3, <3>1
      <4>2. QED
        BY <4>1, Zenon
    <3>2. QED
      BY <3>1, TotalOfNone
  <2>5. CASE x = Usage!NoUsage
    <3>1. b = a /\ ~m.complete /\ ~Measures(x, f) /\ x \in Unmeasured
      BY <1>1, <2>5 DEF Measures, Unmeasured
    <3>2. Total(f, r) = Total(f, t)
      BY <2>2, <3>1
    <3> HIDE DEF a, b, c
    <3>3. ASSUME b # Usage!Unknown
          PROVE  /\ b = Total(f, r)
                 /\ \A i \in DOMAIN r : Measures(r[i], f) \/ r[i] \in Unmeasured
      <4>1. /\ a = Total(f, t)
            /\ \A i \in DOMAIN t : Measures(t[i], f) \/ t[i] \in Unmeasured
        BY <2>1, <3>1, <3>3 DEF CountsFor, a
      <4>2. ASSUME NEW i \in DOMAIN r PROVE Measures(r[i], f) \/ r[i] \in Unmeasured
        BY <1>3, <3>1, <4>1
      <4>3. QED
        BY <3>1, <3>2, <4>1, <4>2
    <3>4. QED
      BY <3>1, <3>3 DEF CountsFor, b
  <2>6. CASE x # Usage!NoUsage
    <3>1. x \in Usage!TokenUsage /\ c \in Usage!Count
      BY <2>6 DEF Report, Usage!TokenUsage
    <3>2. b = IF n = 0 THEN c
              ELSE IF a = Usage!Unknown \/ c = Usage!Unknown THEN Usage!Unknown ELSE a + c
      BY <1>1, <1>6, <2>6 DEF Usage!Aggregated, Usage!Merge
    <3>3. Measures(x, f) <=> c # Usage!Unknown
      BY <2>6 DEF Measures
    <3>4. m.complete => l.complete /\ c # Usage!Unknown
      BY <1>1 DEF Usage!IsComplete
    <3> HIDE DEF a, b, c
    <3>5. ASSUME b # Usage!Unknown
          PROVE  /\ b = Total(f, r)
                 /\ \A i \in DOMAIN r : Measures(r[i], f) \/ r[i] \in Unmeasured
      <4>1. c # Usage!Unknown /\ c \in Nat
        BY <3>1, <3>2, <3>5 DEF Usage!Count
      <4>2. n # 0 => a # Usage!Unknown
        BY <3>2, <3>5
      <4>3. n # 0 => a = Total(f, t)
        BY <2>1, <4>2 DEF CountsFor, a
      <4>4. \A i \in DOMAIN t : Measures(t[i], f) \/ t[i] \in Unmeasured
        BY <1>3, <2>1, <4>2 DEF CountsFor, a
      <4>5. b = Total(f, r)
        BY <2>2, <2>4, <3>2, <3>3, <4>1, <4>2, <4>3
      <4>6. ASSUME NEW i \in DOMAIN r PROVE Measures(r[i], f) \/ r[i] \in Unmeasured
        BY <1>3, <3>3, <4>1, <4>4
      <4>7. QED
        BY <4>5, <4>6
    <3>6. ASSUME m.complete
          PROVE  /\ \A i \in DOMAIN r : Measures(r[i], f)
                 /\ b # Usage!Unknown
      <4>1. l.complete /\ c # Usage!Unknown /\ c \in Nat
        BY <3>1, <3>4, <3>6 DEF Usage!Count
      <4>2. /\ \A i \in DOMAIN t : Measures(t[i], f)
            /\ n # 0 => a # Usage!Unknown
        BY <1>3, <2>1, <4>1 DEF CountsFor, a
      <4>3. \A i \in DOMAIN r : Measures(r[i], f)
        BY <1>3, <3>3, <4>1, <4>2
      <4>4. b # Usage!Unknown
        BY <2>3, <3>2, <4>1, <4>2 DEF Usage!Unknown, Usage!Count
      <4>5. QED
        BY <4>3, <4>4
    <3>7. QED
      BY <3>5, <3>6 DEF CountsFor, b
  <2>7. QED
    BY <2>5, <2>6
<1>8. QED
  BY <1>5, <1>7, AccountsIs DEF m, r

\* The calls of a child's ledger are what it accounts for, and are appended to
\* the run's own (RunUsage::merge_child).
LEMMA MergeFields ==
    ASSUME NEW l \in Usage!RunUsage, NEW child \in Usage!RunUsage
    PROVE  LET m == Usage!MergeChild(l, child) IN
           /\ m.aggregate = IF child.model_calls = << >> THEN l.aggregate
                            ELSE Usage!Aggregated(l, child.aggregate)
           /\ m.complete = (l.complete /\ child.complete)
           /\ m.model_calls = l.model_calls \o child.model_calls
           /\ m \in Usage!RunUsage
<1> DEFINE agg == IF child.model_calls = << >> THEN l.aggregate
                  ELSE Usage!Aggregated(l, child.aggregate)
           done == l.complete /\ child.complete
           listed == l.model_calls \o child.model_calls
<1>1. /\ l.aggregate \in Usage!TokenUsage /\ child.aggregate \in Usage!TokenUsage
      /\ l.complete \in BOOLEAN /\ child.complete \in BOOLEAN
      /\ l.model_calls \in Seq(Usage!TokenUsage) /\ child.model_calls \in Seq(Usage!TokenUsage)
  BY DEF Usage!RunUsage
<1>2. agg \in Usage!TokenUsage
  BY <1>1 DEF Usage!Aggregated, Usage!Merge, Usage!TokenUsage, Usage!Count, Usage!Unknown
<1>3. done \in BOOLEAN /\ listed \in Seq(Usage!TokenUsage)
  BY <1>1
<1>4. Usage!MergeChild(l, child) = [aggregate |-> agg, complete |-> done, model_calls |-> listed]
  BY DEF Usage!MergeChild
<1> HIDE DEF agg, done, listed
<1>5. /\ Usage!MergeChild(l, child).aggregate = agg
      /\ Usage!MergeChild(l, child).complete = done
      /\ Usage!MergeChild(l, child).model_calls = listed
      /\ Usage!MergeChild(l, child) \in Usage!RunUsage
  BY <1>2, <1>3, <1>4 DEF Usage!RunUsage
<1>6. QED
  BY <1>5 DEF agg, done, listed

LEMMA MergeChildAccounts ==
    ASSUME NEW l \in Usage!RunUsage, NEW t \in Seq(Report), AccountsFor(l, t),
           NEW child \in Usage!RunUsage, AccountsFor(child, child.model_calls)
    PROVE  AccountsFor(Usage!MergeChild(l, child), t \o child.model_calls)
<1> DEFINE m == Usage!MergeChild(l, child)
           u == child.model_calls
           r == t \o u
           n == Len(t)
           k == Len(u)
<1>1. /\ m.aggregate = IF u = << >> THEN l.aggregate ELSE Usage!Aggregated(l, child.aggregate)
      /\ m.complete = (l.complete /\ child.complete)
      /\ m.model_calls = l.model_calls \o u
  BY MergeFields
<1>2. /\ l.model_calls = [i \in DOMAIN t |-> Entry(t[i])]
      /\ \A f \in Field : CountsFor(l, t, f)
      /\ u = [i \in DOMAIN u |-> Entry(u[i])]
      /\ \A f \in Field : CountsFor(child, u, f)
  BY AccountsIs
<1>3. /\ l.aggregate \in Usage!TokenUsage /\ child.aggregate \in Usage!TokenUsage
      /\ l.complete \in BOOLEAN /\ child.complete \in BOOLEAN
      /\ l.model_calls \in Seq(Usage!TokenUsage) /\ u \in Seq(Usage!TokenUsage)
      /\ u \in Seq(Report)
  BY DEF Usage!RunUsage, Report
<1> HIDE DEF m, u
<1>4. /\ n \in Nat /\ DOMAIN t = 1..n /\ k \in Nat /\ DOMAIN u = 1..k
      /\ DOMAIN r = 1..(n + k)
      /\ \A i \in 1..n : r[i] = t[i]
      /\ \A i \in 1..k : r[n + i] = u[i]
      /\ t = << >> <=> n = 0
      /\ u = << >> <=> k = 0
  BY <1>3
<1>5. r = << >> <=> n = 0 /\ k = 0
  BY <1>3, <1>4
<1> HIDE DEF r, n, k
<1>6. \A i \in 1..(n + k) : i \in 1..n \/ (i - n \in 1..k /\ r[i] = u[i - n])
  <2> TAKE i \in 1..(n + k)
  <2>1. CASE i <= n
    BY <1>4, <2>1
  <2>2. CASE ~(i <= n)
    <3>1. i - n \in 1..k /\ n + (i - n) = i
      BY <1>4, <2>2
    <3>2. QED
      BY <1>4, <3>1
  <2>3. QED
    BY <2>1, <2>2
<1>7. m.model_calls = [i \in DOMAIN r |-> Entry(r[i])]
  <2> DEFINE e == l.model_calls
             new == [i \in 1..(n + k) |-> Entry(r[i])]
  <2>1. /\ e \in Seq(Usage!TokenUsage) /\ Len(e) = n
        /\ \A i \in 1..n : e[i] = Entry(t[i])
    BY <1>2, <1>3, <1>4
  <2>2. \A i \in 1..k : u[i] = Entry(u[i])
    BY <1>2, <1>4
  <2>3. Len(u) = k
    BY DEF k
  <2> HIDE DEF e
  <2>4. e \o u = [i \in 1..(n + k) |-> IF i <= n THEN e[i] ELSE u[i - n]]
    <3> DEFINE p == e \o u
    <3>1. /\ p \in Seq(Usage!TokenUsage) /\ Len(p) = n + k
          /\ \A i \in 1..(n + k) : p[i] = IF i <= n THEN e[i] ELSE u[i - n]
      <4>1. /\ p \in Seq(Usage!TokenUsage) /\ Len(p) = Len(e) + Len(u)
            /\ \A i \in 1..(Len(e) + Len(u)) :
                  p[i] = IF i <= Len(e) THEN e[i] ELSE u[i - Len(e)]
        BY <1>3, <2>1, ConcatIs
      <4> HIDE DEF p
      <4>3. QED
        BY <2>1, <2>3, <4>1
    <3> HIDE DEF p
    <3>2. p = [i \in 1..(n + k) |-> p[i]]
      BY <3>1, SeqIsFunction
    <3>3. p = [i \in 1..(n + k) |-> IF i <= n THEN e[i] ELSE u[i - n]]
      BY <3>1, <3>2
    <3>4. QED
      BY <3>3 DEF p
  <2>5. \A i \in 1..(n + k) : (IF i <= n THEN e[i] ELSE u[i - n]) = Entry(r[i])
    <3> TAKE i \in 1..(n + k)
    <3>1. CASE i <= n
      BY <1>4, <2>1, <3>1
    <3>2. CASE ~(i <= n)
      BY <1>4, <1>6, <2>2, <3>2
    <3>3. QED
      BY <3>1, <3>2
  <2>6. e \o u = new
    BY <2>4, <2>5
  <2>7. QED
    BY <1>1, <1>4, <2>6 DEF e, new
<1>8. l.model_calls = << >> <=> n = 0
  BY <1>2, <1>3, <1>4
<1>9. ASSUME NEW f \in Field PROVE CountsFor(m, r, f)
  <2> DEFINE a == l.aggregate[f]
             b == m.aggregate[f]
             c == child.aggregate[f]
  <2>1. CountsFor(l, t, f) /\ CountsFor(child, u, f)
    BY <1>2
  <2>2. /\ Total(f, r) = Total(f, t) + Total(f, u)
        /\ Total(f, t) \in Nat /\ Total(f, u) \in Nat
    BY <1>3, TotalConcat, TotalType DEF r
  <2>3. a \in Usage!Count /\ c \in Usage!Count
    BY <1>3 DEF Usage!TokenUsage
  <2>4. (n = 0 => Total(f, t) = 0) /\ (k = 0 => Total(f, u) = 0)
    <3>1. /\ n = 0 => Total(f, t) = Total(f, << >>)
          /\ k = 0 => Total(f, u) = Total(f, << >>)
      <4>1. (n = 0 => t = << >>) /\ (k = 0 => u = << >>)
        BY <1>4
      <4>2. QED
        BY <4>1, Zenon
    <3>2. QED
      BY <3>1, TotalOfNone
  <2>5. b = IF k = 0 THEN a ELSE IF n = 0 THEN c
            ELSE IF a = Usage!Unknown \/ c = Usage!Unknown THEN Usage!Unknown ELSE a + c
    BY <1>1, <1>4, <1>8 DEF Usage!Aggregated, Usage!Merge
  <2>6. /\ n # 0 => t # << >>
        /\ k # 0 => u # << >>
    BY <1>4
  <2> HIDE DEF a, b, c
  <2>7. ASSUME b # Usage!Unknown
        PROVE  /\ b = Total(f, r)
               /\ \A i \in DOMAIN r : Measures(r[i], f) \/ r[i] \in Unmeasured
    <3>1. /\ n # 0 => a # Usage!Unknown
          /\ k # 0 => c # Usage!Unknown
          /\ (n = 0 /\ k = 0) => a # Usage!Unknown
      BY <2>5, <2>7
    <3>2. /\ a # Usage!Unknown =>
                a = Total(f, t) /\ \A i \in 1..n : Measures(t[i], f) \/ t[i] \in Unmeasured
          /\ c # Usage!Unknown =>
                c = Total(f, u) /\ \A i \in 1..k : Measures(u[i], f) \/ u[i] \in Unmeasured
      BY <1>4, <2>1 DEF CountsFor, a, c
    <3>3. b = Total(f, r)
      BY <2>2, <2>4, <2>5, <3>1, <3>2
    <3>4. \A i \in 1..n : Measures(t[i], f) \/ t[i] \in Unmeasured
      BY <1>4, <3>1, <3>2
    <3>5. \A i \in 1..k : Measures(u[i], f) \/ u[i] \in Unmeasured
      BY <1>4, <3>1, <3>2
    <3>6. \A i \in DOMAIN r : Measures(r[i], f) \/ r[i] \in Unmeasured
      BY <1>4, <1>6, <3>4, <3>5
    <3>7. QED
      BY <3>3, <3>6
  <2>8. ASSUME m.complete, r # << >>
        PROVE  /\ \A i \in DOMAIN r : Measures(r[i], f)
               /\ b # Usage!Unknown
    <3>1. l.complete /\ child.complete
      BY <1>1, <2>8
    <3>2. n # 0 => a # Usage!Unknown /\ \A i \in 1..n : Measures(t[i], f)
      BY <1>4, <2>1, <2>6, <3>1 DEF CountsFor, a
    <3>3. k # 0 => c # Usage!Unknown /\ \A i \in 1..k : Measures(u[i], f)
      BY <1>4, <2>1, <2>6, <3>1 DEF CountsFor, c
    <3>4. \A i \in 1..n : Measures(t[i], f)
      BY <1>4, <3>2
    <3>5. \A i \in 1..k : Measures(u[i], f)
      BY <1>4, <3>3
    <3>6. \A i \in DOMAIN r : Measures(r[i], f)
      BY <1>4, <1>6, <3>4, <3>5
    <3>7. n # 0 \/ k # 0
      BY <1>5, <2>8
    <3>8. b # Usage!Unknown
      BY <2>3, <2>5, <3>2, <3>3, <3>7 DEF Usage!Unknown, Usage!Count
    <3>9. QED
      BY <3>6, <3>8
  <2>9. QED
    BY <2>7, <2>8 DEF CountsFor, b
<1>10. QED
  BY <1>7, <1>9, AccountsIs DEF m, r, u

-----------------------------------------------------------------------------
(* What admission knows about a route.                                     *)

LEMMA RouteType ==
    ASSUME NEW r \in Routes
    PROVE  /\ Len(r) \in 1..2
           /\ DOMAIN r = 1..Len(r)
           /\ \A i \in DOMAIN r : r[i] \in Adapter
BY EffectAssumption

LEMMA TwoAdapters ==
    ASSUME NEW r \in Routes
    PROVE  1 \in DOMAIN r /\ Len(r) \in DOMAIN r /\ \A i \in DOMAIN r : i = 1 \/ i = Len(r)
<1>1. Len(r) \in 1..2 /\ DOMAIN r = 1..Len(r)
  BY RouteType
<1>2. QED
  BY <1>1

LEMMA PromptType ==
    ASSUME NEW a \in Adapter, NEW s \in AgentRunState
    PROVE  /\ Prompt(a, s) \in Nat \cup {Unset}
<1>1. Len(s.history) \in Nat
  BY DEF AgentRunState
<1> DEFINE n == Len(s.history)
           more == MessageTokens * n
<1>2. more \in Nat
  <2> HIDE DEF n
  <2>1. n \in Nat
    BY <1>1 DEF n
  <2>2. QED
    BY <2>1, TokensAssumption
<1>3. a.bound \in Nat \cup {Unset}
  BY DEF Adapter
<1> HIDE DEF more
<1>4. (IF a.bound = Unset THEN Unset ELSE a.bound + more) \in Nat \cup {Unset}
  BY <1>2, <1>3
<1>5. QED
  BY <1>4 DEF Prompt, more

\* The adapter an attempt is routed to is one of the route's.
LEMMA RoutedInRoute ==
    ASSUME NEW r \in Routes, NEW n \in Nat \ {0}
    PROVE  Routed(r, n) \in DOMAIN r /\ Routed(r, n) \in 1..2
<1>1. Len(r) \in 1..2 /\ DOMAIN r = 1..Len(r)
  BY RouteType
<1>2. QED
  BY <1>1 DEF Routed

\* The common bound is a bound for every adapter of the route.
LEMMA CommonBoundIs ==
    ASSUME NEW r \in Routes, NEW s \in AgentRunState, CommonBound(r, s) # Unset
    PROVE  /\ CommonBound(r, s) \in Nat
           /\ \A i \in DOMAIN r : Prompt(r[i], s) \in Nat /\ Prompt(r[i], s) <= CommonBound(r, s)
<1> DEFINE bounds == {Prompt(r[i], s) : i \in DOMAIN r}
           top == CHOOSE b \in bounds : \A c \in bounds : b >= c
<1>1. Len(r) \in 1..2 /\ DOMAIN r = 1..Len(r)
  BY RouteType
<1>2. Unset \notin bounds /\ CommonBound(r, s) = top
  BY DEF CommonBound
<1>3. bounds \subseteq Nat
  <2>1. ASSUME NEW i \in DOMAIN r PROVE Prompt(r[i], s) \in Nat
    <3>1. Prompt(r[i], s) \in Nat \cup {Unset}
      BY RouteType, PromptType
    <3>2. Prompt(r[i], s) \in bounds
      OBVIOUS
    <3>3. QED
      BY <1>2, <3>1, <3>2
  <2>2. QED
    BY <2>1
<1>4. \E b \in bounds : \A c \in bounds : b >= c
  <2> DEFINE p == Prompt(r[1], s)
             q == Prompt(r[Len(r)], s)
  <2>1. 1 \in DOMAIN r /\ Len(r) \in DOMAIN r /\ \A i \in DOMAIN r : i = 1 \/ i = Len(r)
    BY TwoAdapters
  <2>2. bounds = {p, q}
    BY <2>1
  <2>3. p \in Nat /\ q \in Nat
    BY <1>3, <2>2
  <2> HIDE DEF p, q, bounds
  <2>4. CASE p >= q
    BY <2>2, <2>3, <2>4
  <2>5. CASE ~(p >= q)
    BY <2>2, <2>3, <2>5
  <2>6. QED
    BY <2>4, <2>5
<1>5. top \in bounds /\ \A c \in bounds : top >= c
  <2> HIDE DEF bounds
  <2>1. QED
    BY <1>4
<1>6. ASSUME NEW i \in DOMAIN r
      PROVE  Prompt(r[i], s) \in Nat /\ Prompt(r[i], s) <= CommonBound(r, s)
  <2> DEFINE p == Prompt(r[i], s)
  <2>1. p \in bounds
    OBVIOUS
  <2> HIDE DEF p, bounds, top
  <2>2. p \in Nat /\ p <= CommonBound(r, s)
    BY <1>2, <1>3, <1>5, <2>1
  <2>3. QED
    BY <2>2 DEF p
<1>7. QED
  <2> HIDE DEF bounds, top
  <2>1. CommonBound(r, s) \in Nat
    BY <1>2, <1>3, <1>5
  <2>2. QED
    BY <1>6, <2>1

\* The context limit is within the window of every adapter of the route.
LEMMA ContextLimitIs ==
    ASSUME NEW r \in Routes, ContextLimit(r) # Unset
    PROVE  /\ ContextLimit(r) \in Nat
           /\ \A i \in DOMAIN r : r[i].limit \in Nat /\ ContextLimit(r) <= r[i].limit
<1> DEFINE limits == {r[i].limit : i \in DOMAIN r}
           low == CHOOSE l \in limits : \A m \in limits : l <= m
<1>1. Len(r) \in 1..2 /\ DOMAIN r = 1..Len(r)
  BY RouteType
<1>2. Unset \notin limits /\ ContextLimit(r) = low
  BY DEF ContextLimit
<1>3. limits \subseteq Nat
  <2>1. \A i \in DOMAIN r : r[i].limit \in Nat \cup {Unset}
    BY RouteType DEF Adapter
  <2>2. QED
    BY <1>2, <2>1
<1>4. \E l \in limits : \A m \in limits : l <= m
  <2> DEFINE p == r[1].limit
             q == r[Len(r)].limit
  <2>1. 1 \in DOMAIN r /\ Len(r) \in DOMAIN r /\ \A i \in DOMAIN r : i = 1 \/ i = Len(r)
    BY TwoAdapters
  <2>2. limits = {p, q}
    <3>1. \A i \in DOMAIN r : r[i].limit = p \/ r[i].limit = q
      BY <2>1
    <3>2. p \in limits /\ q \in limits
      BY <2>1
    <3>3. \A l \in limits : l = p \/ l = q
      BY <3>1
    <3> HIDE DEF limits
    <3>4. QED
      BY <3>2, <3>3
  <2>3. p \in Nat /\ q \in Nat
    BY <1>3, <2>2
  <2> HIDE DEF p, q, limits
  <2>4. CASE p <= q
    BY <2>2, <2>3, <2>4
  <2>5. CASE ~(p <= q)
    BY <2>2, <2>3, <2>5
  <2>6. QED
    BY <2>4, <2>5
<1>5. low \in limits /\ \A m \in limits : low <= m
  <2> HIDE DEF limits
  <2>1. QED
    BY <1>4
<1>6. \A i \in DOMAIN r : r[i].limit \in limits
  OBVIOUS
<1> HIDE DEF limits, low
<1>7. QED
  BY <1>2, <1>3, <1>5, <1>6

\* What was admitted holds of every adapter an attempt may be routed to.
LEMMA AcceptableCovers ==
    ASSUME route \in Routes, state \in AgentRunState, Acceptable, NEW i \in DOMAIN route
    PROVE  /\ needs \subseteq route[i].features
           /\ Streams(route) => route[i].streams
           /\ ~optOut => /\ Prompt(route[i], state) \in Nat
                         /\ Prompt(route[i], state) + OutputReserve <= route[i].limit
                         /\ route[i].limit \in Nat
           /\ state.plan.token_limit # Unset =>
                 /\ Prompt(route[i], state) \in Nat
                 /\ Prompt(route[i], state) + OutputReserve <= Reserved
<1>1. needs \subseteq route[i].features
  BY DEF Acceptable, Guaranteed
<1>2. Streams(route) => route[i].streams
  BY DEF Streams
<1>3. OutputReserve \in Nat
  BY EffectAssumption
<1> DEFINE p == Prompt(route[i], state)
           b == CommonBound(route, state)
           c == ContextLimit(route)
<1>4. b # Unset => b \in Nat /\ p \in Nat /\ p <= b
  BY CommonBoundIs
<1>5. c # Unset => c \in Nat /\ route[i].limit \in Nat /\ c <= route[i].limit
  BY ContextLimitIs
<1>6. Bound # Unset => ~optOut /\ Bound = b
  BY DEF Bound
<1>7. ~optOut => Bound # Unset /\ c # Unset /\ Bound + OutputReserve <= c
  BY DEF Acceptable, Fits
<1>8. state.plan.token_limit # Unset => Bound # Unset /\ Reserved = Bound + OutputReserve
  BY DEF Acceptable, Reserved, Reservation
<1> HIDE DEF p, b, c
<1>9. ~optOut => p \in Nat /\ p + OutputReserve <= route[i].limit /\ route[i].limit \in Nat
  BY <1>3, <1>4, <1>5, <1>6, <1>7
<1>10. state.plan.token_limit # Unset => p \in Nat /\ p + OutputReserve <= Reserved
  BY <1>3, <1>4, <1>6, <1>8
<1>11. QED
  BY <1>1, <1>2, <1>9, <1>10 DEF p

LEMMA ReservedType ==
    ASSUME route \in Routes, state \in AgentRunState, Acceptable
    PROVE  Reserved \in Nat
<1>1. OutputReserve \in Nat
  BY EffectAssumption
<1>2. CASE state.plan.token_limit # Unset
  <2>1. Bound # Unset /\ Reserved = Bound + OutputReserve
    BY <1>2 DEF Acceptable, Reserved, Reservation
  <2>2. Bound = CommonBound(route, state)
    BY <2>1 DEF Bound
  <2>3. Bound \in Nat
    BY <2>1, <2>2, CommonBoundIs
  <2>4. QED
    BY <1>1, <2>1, <2>3
<1>3. CASE state.plan.token_limit = Unset
  <2>1. Reserved = NextModelTokenReservation(state)
    BY <1>3 DEF Reserved, Reservation
  <2>2. Len(state.history) \in Nat
    BY DEF AgentRunState
  <2>3. QED
    BY <2>1, <2>2, TokensAssumption DEF NextModelTokenReservation
<1>4. QED
  BY <1>2, <1>3

-----------------------------------------------------------------------------
(* The inductive invariant.  Each part ties what the adapters saw or what  *)
(* the ledger says to where the executing effect is.                       *)

Executing == stage \in {"armed", "called", "backoff"}

\* The calls the executing effect has made.
Made == IF stage = "armed" THEN attempt - 1 ELSE attempt

\* An effect executes only while it is next and was admitted, each of its
\* attempts within what was allowed; a stop is seen only by an attempt.
EffectUnderWay ==
    /\ leaving => stage \in {"armed", "called", "ended"}
    /\ Executing =>
          /\ NextEffect(state).kind = "provider"
          /\ Acceptable
          /\ attempt > 0
          /\ MayAttempt(state, Reserved, attempt)
          /\ Len(attempts) = IF stage = "backoff" THEN attempt ELSE attempt - 1
          /\ stage = "backoff" => MayAttempt(state, Reserved, attempt + 1)

\* The calls made are the calls the state was charged and those of the
\* executing effect.
CallsCharged ==
    /\ state.model_calls <= state.provider_calls_started
    /\ Len(calls) + state.reserved_child_model_calls <= state.plan.model_call_limit
    /\ stage = "idle" => Len(calls) = state.provider_calls_started
    /\ Executing => Len(calls) = state.provider_calls_started + Made

\* The adapter of a call has what the request needs and room for it.
CallFits(call) ==
    LET adapter == route[call.by] IN
    /\ needs \subseteq adapter.features
    /\ call.stream => adapter.streams
    /\ optOut \/ call.prompt + OutputReserve \in 0..adapter.limit

CallsFit == \A i \in DOMAIN calls : CallFits(calls[i])

\* The tokens of the calls made are within those the state was charged and the
\* reservations of the executing effect.
TokensCharged ==
    state.plan.token_limit # Unset =>
        /\ \A i \in DOMAIN calls : calls[i].prompt \in Nat
        /\ WorstCaseTokens <= state.plan.token_limit
        /\ stage = "idle" => WorstCaseTokens <= state.reserved_tokens
        /\ Executing => WorstCaseTokens <= state.reserved_tokens + Made * Reserved

\* The calls of the open round are those of the executing effect.
CallsInRounds ==
    \A i \in DOMAIN calls :
        /\ calls[i].round <= state.model_calls
        /\ stage = "idle" => calls[i].round < state.model_calls
        /\ Executing /\ calls[i].round = state.model_calls => calls[i].attempt <= Made

\* An attempt that runs has called its adapter.
CalledIsRecorded ==
    stage = "called" =>
        \E i \in DOMAIN calls : calls[i].round = state.model_calls /\ calls[i].attempt = attempt

\* In the open round only the attempt that runs has shown output.
ShownInRounds ==
    Executing => \A x \in shown :
        x.round = state.model_calls => stage = "called" /\ visible /\ x.attempt = attempt

\* What the commit of the effect will make of the attempts that have finished.
PendingLedger ==
    /\ told \in Seq(Report)
    /\ Executing =>
          LET l == Usage!AddCalls(ledger, attempts) IN
          /\ l \in Usage!RunUsage
          /\ AccountsFor(l, told \o attempts)
          /\ l.complete = (ledger.complete /\ Measured(attempts))
          /\ Len(l.model_calls) = Len(ledger.model_calls) + Len(attempts)

EffectSound ==
    /\ TypeOK
    /\ EffectUnderWay
    /\ CallsCharged
    /\ CallsFit
    /\ TokensCharged
    /\ CallsInRounds /\ CalledIsRecorded
    /\ ShownInRounds /\ OutputShownOnce
    /\ PendingLedger
    /\ LedgerTrue

\* The invariant says what admission promises.
LEMMA SoundAdmits ==
    ASSUME EffectSound
    PROVE  CallsAdmitted
<1>1. \A i \in DOMAIN calls :
          LET adapter == route[calls[i].by] IN
          /\ needs \subseteq adapter.features
          /\ calls[i].stream => adapter.streams
          /\ optOut \/ calls[i].prompt + OutputReserve \in 0..adapter.limit
  BY DEF EffectSound, CallsFit, CallFits
<1>2. Len(calls) + state.reserved_child_model_calls <= state.plan.model_call_limit
  BY DEF EffectSound, CallsCharged
<1>3. state.plan.token_limit = Unset \/ WorstCaseTokens <= state.plan.token_limit
  BY DEF EffectSound, TokensCharged
<1>4. QED
  BY <1>1, <1>2, <1>3, Zenon DEF CallsAdmitted

\* Nothing has been called: the worst case is no token.
LEMMA NoCallsNoTokens ==
    ASSUME calls = << >>
    PROVE  WorstCaseTokens = 0
<1> DEFINE fun == [i \in DOMAIN calls |-> calls[i].prompt + OutputReserve]
<1>1. DOMAIN fun = {}
  OBVIOUS
<1>2. WorstCaseTokens = SumFunctionOnSet(fun, DOMAIN fun)
  BY DEF WorstCaseTokens, SumFunction
<1> HIDE DEF fun
<1>3. SumFunctionOnSet(fun, DOMAIN fun) = 0
  BY <1>1, SumOfNone
<1>4. QED
  BY <1>2, <1>3

LEMMA InitSound ==
    ASSUME Init
    PROVE  EffectSound
<1> DEFINE tries(plan) == MaxOf(plan.provider_max_attempts, RoutingAttempts(route))
<1>1. PICK plan \in Plans :
         state = NewState([plan EXCEPT !.provider_max_attempts = tries(plan)], <<UserMessage>>)
  BY DEF Init
<1> DEFINE p == [plan EXCEPT !.provider_max_attempts = tries(plan)]
<1>2. p \in Plan
  <2>1. plan \in Plan /\ Len(route) \in 1..2
    BY EffectAssumption, RouteType DEF Init
  <2>2. tries(plan) \in Nat \ {0}
    BY <2>1 DEF MaxOf, RoutingAttempts, Plan
  <2> HIDE DEF tries
  <2>3. QED
    BY <2>1, <2>2 DEF Plan
<1>3. <<UserMessage>> \in Seq(Message)
  BY DEF UserMessage, Message
<1>4. state = NewState(p, <<UserMessage>>)
  BY <1>1
<1> HIDE DEF p, tries
<1>5. state \in AgentRunState
  BY <1>2, <1>3, <1>4, NewStateGood DEF Good
<1>6. /\ state.plan = p /\ state.model_calls = 0 /\ state.provider_calls_started = 0
      /\ state.reserved_child_model_calls = 0 /\ state.reserved_tokens = 0
      /\ state.usage = [calls |-> 0, complete |-> TRUE]
  BY <1>4 DEF NewState, EmptyUsage
<1>7. /\ route \in Routes /\ needs \in Needs /\ optOut \in BOOLEAN
      /\ ledger = Usage!NewUsage /\ stage = "idle" /\ attempt = 0 /\ attempts = << >>
      /\ ~visible /\ visible \in BOOLEAN /\ streamed = Usage!NoUsage /\ ~leaving
      /\ leaving \in BOOLEAN /\ cancelled \in BOOLEAN /\ result = "none"
      /\ calls = << >> /\ shown = {} /\ told = << >>
  BY DEF Init
<1>8. ~Executing
  BY <1>7 DEF Executing
<1>9. TypeOK
  <2>1. ledger \in Usage!RunUsage
    BY <1>7, UnknownIsUsage DEF Usage!NewUsage, Usage!RunUsage
  <2>2. attempt \in 0..state.plan.provider_max_attempts
    BY <1>2, <1>6, <1>7 DEF Plan
  <2>3. attempts \in Seq(Reports) /\ calls \in Seq(CallRecord)
    BY <1>7
  <2>4. QED
    BY <1>5, <1>7, <2>1, <2>2, <2>3 DEF TypeOK
<1>10. EffectUnderWay
  BY <1>7, <1>8 DEF EffectUnderWay
<1>11. CallsCharged
  <2>1. state.plan.model_call_limit \in Nat
    BY <1>2, <1>6 DEF Plan
  <2>2. Len(calls) = 0
    BY <1>7
  <2>3. QED
    BY <1>6, <1>8, <2>1, <2>2 DEF CallsCharged
<1>12. CallsFit /\ CallsInRounds /\ CalledIsRecorded /\ ShownInRounds /\ OutputShownOnce
  BY <1>7, <1>8 DEF CallsFit, CallsInRounds, CalledIsRecorded, ShownInRounds, OutputShownOnce
<1>13. TokensCharged
  <2>1. WorstCaseTokens = 0
    BY <1>7, NoCallsNoTokens
  <2>2. state.plan.token_limit # Unset => state.plan.token_limit \in Nat
    BY <1>2, <1>6 DEF Plan
  <2>3. DOMAIN calls = {}
    BY <1>7
  <2>4. QED
    BY <1>6, <1>8, <2>1, <2>2, <2>3 DEF TokensCharged
<1>14. PendingLedger
  BY <1>7, <1>8 DEF PendingLedger
<1>15. LedgerTrue
  <2>1. Len(ledger.model_calls) = 0 /\ ledger.complete = TRUE /\ Len(calls) = 0
        /\ ledger.aggregate = Usage!UnknownUsage /\ ledger.model_calls = << >>
    BY <1>7 DEF Usage!NewUsage
  <2>2. AccountsFor(ledger, told)
    <3>1. \A f \in Field : CountsFor(ledger, told, f)
      BY <1>7, <2>1 DEF CountsFor, Usage!UnknownUsage
    <3>2. ledger.model_calls = [i \in DOMAIN told |-> Entry(told[i])]
      BY <1>7, <2>1
    <3>3. QED
      BY <3>1, <3>2, AccountsIs
  <2>3. QED
    BY <1>6, <2>1, <2>2 DEF LedgerTrue
<1>16. QED
  BY <1>9, <1>10, <1>11, <1>12, <1>13, <1>14, <1>15 DEF EffectSound

-----------------------------------------------------------------------------
(* Every action is one of eight kinds of steps; each kind keeps every part *)
(* of the invariant.  First the steps that only wait.                      *)

\* What admission decided stands while the state does.
LEMMA AdmissionStands ==
    ASSUME UNCHANGED <<request, state>>
    PROVE  /\ Reserved' = Reserved
           /\ Acceptable' = Acceptable
           /\ NextEffect(state)' = NextEffect(state)
           /\ \A n : MayAttempt(state, Reserved, n)' = MayAttempt(state, Reserved, n)
<1>1. route' = route /\ needs' = needs /\ optOut' = optOut /\ state' = state
  BY DEF request
<1>2. Bound' = Bound
  BY <1>1 DEF Bound
<1>3. Reserved' = Reserved
  BY <1>1, <1>2 DEF Reserved
<1>4. Fits' = Fits
  BY <1>1, <1>2 DEF Fits
<1>5. Acceptable' = Acceptable
  BY <1>1, <1>2, <1>4 DEF Acceptable
<1>6. QED
  BY <1>1, <1>3, <1>5

\* A stop is requested or seen, or a usage event arrives.
Waits ==
    /\ UNCHANGED <<request, state, ledger, stage, attempt, attempts, visible, result, history>>
    /\ cancelled' \in BOOLEAN
    /\ leaving' \in BOOLEAN
    /\ leaving' => leaving \/ stage \in {"armed", "called"}
    /\ streamed' \in Reports \cup {Usage!NoUsage}

LEMMA WaitsSound ==
    ASSUME EffectSound, Waits
    PROVE  EffectSound'
<1>1. /\ route' = route /\ needs' = needs /\ optOut' = optOut
      /\ state' = state /\ ledger' = ledger /\ stage' = stage /\ attempt' = attempt
      /\ attempts' = attempts /\ visible' = visible /\ result' = result
      /\ calls' = calls /\ shown' = shown /\ told' = told
  BY DEF Waits, request, history
<1>2. Executing' = Executing /\ Made' = Made
  BY <1>1 DEF Executing, Made
<1>3. /\ Reserved' = Reserved
      /\ Acceptable' = Acceptable
      /\ NextEffect(state)' = NextEffect(state)
      /\ MayAttempt(state, Reserved, attempt)' = MayAttempt(state, Reserved, attempt)
      /\ MayAttempt(state, Reserved, attempt + 1)' = MayAttempt(state, Reserved, attempt + 1)
  BY <1>1, AdmissionStands DEF request
<1>4. TypeOK'
  BY <1>1 DEF EffectSound, TypeOK, Waits
<1>5. EffectUnderWay'
  BY <1>1, <1>2, <1>3 DEF EffectSound, EffectUnderWay, Waits
<1>6. CallsCharged'
  BY <1>1, <1>2 DEF EffectSound, CallsCharged
<1>7. CallsFit'
  BY <1>1 DEF EffectSound, CallsFit, CallFits
<1>8. TokensCharged'
  <2>1. WorstCaseTokens' = WorstCaseTokens
    BY <1>1 DEF WorstCaseTokens
  <2>2. QED
    BY <1>1, <1>2, <1>3, <2>1 DEF EffectSound, TokensCharged
<1>9. CallsInRounds' /\ CalledIsRecorded'
  BY <1>1, <1>2 DEF EffectSound, CallsInRounds, CalledIsRecorded
<1>10. ShownInRounds' /\ OutputShownOnce'
  BY <1>1, <1>2 DEF EffectSound, ShownInRounds, OutputShownOnce
<1>11. PendingLedger'
  BY <1>1, <1>2 DEF EffectSound, PendingLedger
<1>12. LedgerTrue'
  BY <1>1 DEF EffectSound, LedgerTrue
<1>13. QED
  BY <1>4, <1>5, <1>6, <1>7, <1>8, <1>9, <1>10, <1>11, <1>12 DEF EffectSound

-----------------------------------------------------------------------------
(* Steps that stop the run, or spend its budget, without a commit.         *)

\* A ledger that no longer claims to be complete.
Shorter(l) == [l EXCEPT !.complete = FALSE]

LEMMA ShorterAccounts ==
    ASSUME NEW l \in Usage!RunUsage, NEW t, AccountsFor(l, t)
    PROVE  /\ Shorter(l) \in Usage!RunUsage
           /\ Shorter(l).complete = FALSE
           /\ Shorter(l).model_calls = l.model_calls
           /\ AccountsFor(Shorter(l), t)
<1> DEFINE m == Shorter(l)
<1>1. /\ m \in Usage!RunUsage /\ m.complete = FALSE
      /\ m.model_calls = l.model_calls /\ m.aggregate = l.aggregate
  BY DEF Shorter, Usage!RunUsage
<1> HIDE DEF m
<1>2. \A f \in Field : CountsFor(m, t, f)
  BY <1>1, AccountsIs DEF CountsFor
<1>3. AccountsFor(m, t)
  BY <1>1, <1>2, AccountsIs
<1>4. QED
  BY <1>1, <1>3 DEF m

Stops ==
    /\ UNCHANGED <<request, attempt, attempts, visible, streamed, leaving, history>>
    /\ cancelled' \in BOOLEAN
    /\ state' \in AgentRunState
    /\ SameCounters(state, state')
    /\ ledger' = ledger \/ ledger' = Shorter(ledger)
    /\ state'.usage = [calls |-> state.usage.calls, complete |-> ledger'.complete]
    /\ ledger'.complete /\ result' # "error" => stage = "idle"
    /\ \/ stage' = "ended" /\ result' \in {"ok", "error"}
       \/ stage = "idle" /\ UNCHANGED <<stage, result>>

LEMMA StopsSound ==
    ASSUME EffectSound, Stops
    PROVE  EffectSound'
<1>1. /\ route' = route /\ needs' = needs /\ optOut' = optOut
      /\ attempt' = attempt /\ attempts' = attempts /\ visible' = visible
      /\ streamed' = streamed /\ leaving' = leaving
      /\ calls' = calls /\ shown' = shown /\ told' = told
  BY DEF Stops, request, history
<1>2. /\ state' \in AgentRunState
      /\ state'.plan = state.plan
      /\ state'.model_calls = state.model_calls
      /\ state'.provider_calls_started = state.provider_calls_started
      /\ state'.reserved_child_model_calls = state.reserved_child_model_calls
      /\ state'.reserved_tokens = state.reserved_tokens
  BY DEF Stops, SameCounters
<1>3. stage' = "ended" \/ (stage = "idle" /\ stage' = "idle" /\ result' = result)
  BY DEF Stops
<1>4. ~Executing' /\ (stage' = "idle" => stage = "idle")
  BY <1>3 DEF Executing
<1>5. /\ ledger \in Usage!RunUsage /\ AccountsFor(ledger, told)
      /\ state.usage = [calls |-> Len(ledger.model_calls), complete |-> ledger.complete]
  BY DEF EffectSound, TypeOK, LedgerTrue
<1>6. /\ ledger' \in Usage!RunUsage /\ AccountsFor(ledger', told)
      /\ ledger'.model_calls = ledger.model_calls
  BY <1>5, ShorterAccounts DEF Stops
<1>7. TypeOK'
  <2>1. stage' \in {"idle", "armed", "called", "backoff", "ended"}
    BY <1>3
  <2>2. result' \in {"none", "ok", "error"}
    BY DEF Stops, EffectSound, TypeOK
  <2>3. cancelled' \in BOOLEAN
    BY DEF Stops
  <2>4. QED
    BY <1>1, <1>2, <1>6, <2>1, <2>2, <2>3 DEF EffectSound, TypeOK
<1>8. EffectUnderWay'
  BY <1>1, <1>3, <1>4 DEF EffectSound, EffectUnderWay
<1>9. CallsCharged'
  BY <1>1, <1>2, <1>4 DEF EffectSound, CallsCharged
<1>10. CallsFit'
  BY <1>1 DEF EffectSound, CallsFit, CallFits
<1>11. TokensCharged'
  <2>1. WorstCaseTokens' = WorstCaseTokens
    BY <1>1 DEF WorstCaseTokens
  <2>2. QED
    BY <1>1, <1>2, <1>4, <2>1 DEF EffectSound, TokensCharged
<1>12. CallsInRounds' /\ CalledIsRecorded'
  BY <1>1, <1>2, <1>3, <1>4 DEF EffectSound, CallsInRounds, CalledIsRecorded
<1>13. ShownInRounds' /\ OutputShownOnce'
  BY <1>1, <1>4 DEF EffectSound, ShownInRounds, OutputShownOnce
<1>14. PendingLedger'
  BY <1>1, <1>4 DEF EffectSound, PendingLedger
<1>15. LedgerTrue'
  <2>1. AccountsFor(ledger, told)'
    BY <1>1, <1>6
  <2>2. ASSUME ledger'.complete, result' # "error"
        PROVE  Len(calls') = state'.provider_calls_started
    <3>1. stage = "idle"
      BY <2>2 DEF Stops
    <3>2. QED
      BY <1>1, <1>2, <3>1 DEF EffectSound, CallsCharged
  <2>3. state.usage.calls = Len(ledger.model_calls)
    BY <1>5
  <2>4. state'.usage = [calls |-> Len(ledger'.model_calls), complete |-> ledger'.complete]
    BY <1>6, <2>3 DEF Stops
  <2>5. QED
    BY <2>1, <2>2, <2>4, Zenon DEF LedgerTrue
<1>16. QED
  BY <1>7, <1>8, <1>9, <1>10, <1>11, <1>12, <1>13, <1>14, <1>15 DEF EffectSound

\* While an effect executes, it is the next one and the run is live.
LEMMA ExecutingLive ==
    ASSUME EffectSound, Executing
    PROVE  /\ state \in AgentRunState
           /\ NextEffect(state).kind = "provider"
           /\ Expected(state, NextEffect(state))
           /\ state.status \in Live
<1>1. state \in AgentRunState
  BY DEF EffectSound, TypeOK
<1>2. NextEffect(state).kind = "provider"
  BY DEF EffectSound, EffectUnderWay
<1>3. Expected(state, NextEffect(state))
  BY <1>2 DEF Expected, NoEffect
<1>4. state.status \in Live
  BY <1>3, ExpectedLive
<1>5. QED
  BY <1>1, <1>2, <1>3, <1>4

\* The run's summary of its ledger, when both are cut short.
LEMMA ShortUsage ==
    ASSUME EffectSound
    PROVE  /\ CutShort(state.usage) = [calls |-> state.usage.calls,
                                       complete |-> Shorter(ledger).complete]
           /\ state.usage = [calls |-> state.usage.calls, complete |-> ledger.complete]
<1>1. /\ ledger \in Usage!RunUsage /\ AccountsFor(ledger, told)
      /\ state.usage = [calls |-> Len(ledger.model_calls), complete |-> ledger.complete]
  BY DEF EffectSound, TypeOK, LedgerTrue
<1>2. Shorter(ledger).complete = FALSE
  BY <1>1, ShorterAccounts
<1>3. state.usage.calls = Len(ledger.model_calls)
  BY <1>1
<1>4. QED
  BY <1>1, <1>2, <1>3, Zenon DEF CutShort

LEMMA CancelStops ==
    ASSUME EffectSound, state.status \in Live,
           state' = Cancel(state), stage' = "ended", result' = "ok",
           ledger' = [ledger EXCEPT !.complete = FALSE], cancelled' \in BOOLEAN,
           UNCHANGED <<request, executing, history>>
    PROVE  Stops
<1>1. state \in AgentRunState
  BY DEF EffectSound, TypeOK
<1>2. /\ state' \in AgentRunState /\ SameCounters(state, state')
      /\ state'.usage = CutShort(state.usage)
  BY <1>1, QuietStepsFields
<1>3. ledger' = Shorter(ledger)
  BY DEF Shorter
<1>4. ledger'.complete = FALSE
  BY <1>3, ShorterAccounts DEF EffectSound, TypeOK, LedgerTrue
<1>5. state'.usage = [calls |-> state.usage.calls, complete |-> ledger'.complete]
  BY <1>2, <1>3, ShortUsage
<1>6. QED
  BY <1>2, <1>3, <1>4, <1>5 DEF Stops, executing

\* Which actions only wait.
LEMMA WaitingSteps ==
    ASSUME EffectSound, \/ RequestCancel \/ StreamUsage \/ SeeCancel \/ TimeOut
                        \/ UNCHANGED vars
    PROVE  Waits
<1>1. /\ visible \in BOOLEAN /\ leaving \in BOOLEAN /\ cancelled \in BOOLEAN
      /\ streamed \in Reports \cup {Usage!NoUsage}
  BY DEF EffectSound, TypeOK
<1>2. CASE RequestCancel
  BY <1>1, <1>2 DEF RequestCancel, Waits, executing
<1>3. CASE StreamUsage
  BY <1>1, <1>3 DEF StreamUsage, Waits
<1>4. CASE SeeCancel
  BY <1>1, <1>4 DEF SeeCancel, Waits
<1>5. CASE TimeOut
  BY <1>1, <1>5 DEF TimeOut, Waits
<1>6. CASE UNCHANGED vars
  BY <1>1, <1>6 DEF vars, Waits, executing
<1>7. QED
  BY <1>2, <1>3, <1>4, <1>5, <1>6

\* Which actions stop the run, or spend its budget, without a commit.
LEMMA StoppingSteps ==
    ASSUME EffectSound,
           \/ StopCancelled \/ StopExhausted \/ StopIdle
           \/ Refuse \/ Exhaust
           \/ AnswerInvalid \/ AnswerTooLate
           \/ Leave \/ StopBackoff
    PROVE  Stops
<1>1. /\ state \in AgentRunState /\ cancelled \in BOOLEAN
      /\ ledger \in Usage!RunUsage /\ AccountsFor(ledger, told)
  BY DEF EffectSound, TypeOK, LedgerTrue
<1>2. Shorter(ledger).complete = FALSE
  BY <1>1, ShorterAccounts
<1>3. CASE StopCancelled
  BY <1>1, <1>3, CancelStops DEF StopCancelled, EndCancelled, End
<1>4. CASE StopExhausted
  <2>1. /\ Exhausted(state) /\ state' = FinishIfExhausted(state) /\ ledger' = Shorter(ledger)
        /\ stage' = "ended" /\ result' = "ok"
        /\ UNCHANGED <<request, executing, cancelled, history>>
    BY <1>4 DEF StopExhausted, End, Shorter
  <2>2. /\ state' \in AgentRunState /\ SameCounters(state, state')
        /\ state'.usage = CutShort(state.usage)
    BY <1>1, <2>1, QuietStepsFields
  <2>3. state'.usage = [calls |-> state.usage.calls, complete |-> ledger'.complete]
    BY <2>1, <2>2, ShortUsage
  <2>4. QED
    BY <1>1, <1>2, <2>1, <2>2, <2>3 DEF Stops, executing
<1>5. CASE StopIdle
  <2>1. /\ state' = state /\ ledger' = ledger /\ stage = "idle"
        /\ stage' = "ended" /\ result' = "ok"
        /\ UNCHANGED <<request, executing, cancelled, history>>
    BY <1>5 DEF StopIdle, End
  <2>2. SameCounters(state, state')
    BY <2>1 DEF SameCounters
  <2>3. state'.usage = [calls |-> state.usage.calls, complete |-> ledger'.complete]
    BY <2>1, ShortUsage
  <2>4. QED
    BY <1>1, <2>1, <2>2, <2>3 DEF Stops, executing
<1>6. ASSUME EndRefused
      PROVE  Stops
  <2>1. /\ state' = Fail(state) /\ ledger' = ledger
        /\ stage' = "ended" /\ result' = "error"
        /\ UNCHANGED <<request, executing, cancelled, history>>
    BY <1>6 DEF EndRefused, End
  <2>2. /\ state' \in AgentRunState /\ SameCounters(state, state') /\ state'.usage = state.usage
    BY <1>1, <2>1, QuietStepsFields
  <2>3. state'.usage = [calls |-> state.usage.calls, complete |-> ledger'.complete]
    BY <2>1, <2>2, ShortUsage
  <2>4. QED
    BY <1>1, <2>1, <2>2, <2>3 DEF Stops, executing
<1>7. CASE Refuse \/ AnswerInvalid
  BY <1>6, <1>7 DEF Refuse, AnswerInvalid
<1>8. CASE Exhaust
  <2>1. /\ state' = CommitBudgetExhausted(state, NextEffect(state)) /\ ledger' = Shorter(ledger)
        /\ stage = "idle" /\ NextEffect(state).kind = "provider"
        /\ UNCHANGED <<request, stage, executing, cancelled, result, history>>
    BY <1>8 DEF Exhaust, Admitting, Shorter
  <2>2. Expected(state, NextEffect(state))
    BY <2>1 DEF Expected, NoEffect
  <2>3. /\ state' \in AgentRunState /\ SameCounters(state, state')
        /\ state'.usage = CutShort(state.usage)
    BY <1>1, <2>1, <2>2, QuietStepsFields
  <2>4. state'.usage = [calls |-> state.usage.calls, complete |-> ledger'.complete]
    BY <2>1, <2>3, ShortUsage
  <2>5. QED
    BY <1>1, <1>2, <2>1, <2>3, <2>4 DEF Stops, executing
<1>9. CASE AnswerTooLate
  <2>1. Executing
    BY <1>9 DEF AnswerTooLate, Executing
  <2>2. QED
    BY <1>1, <1>9, <2>1, ExecutingLive, CancelStops DEF AnswerTooLate, EndCancelled, End
<1>10. CASE Leave
  <2>1. Executing
    BY <1>10 DEF Leave, Ended, Executing, EffectSound, EffectUnderWay
  <2>2. QED
    BY <1>1, <1>10, <2>1, ExecutingLive, CancelStops DEF Leave, EndCancelled, End
<1>11. CASE StopBackoff
  <2>1. Executing
    BY <1>11 DEF StopBackoff, Executing
  <2>2. QED
    BY <1>1, <1>11, <2>1, ExecutingLive, CancelStops DEF StopBackoff
<1>12. QED
  BY <1>3, <1>4, <1>5, <1>7, <1>8, <1>9, <1>10, <1>11

-----------------------------------------------------------------------------
(* Steps of the attempt loop: they leave the state and the ledger alone.    *)

LEMMA Steady ==
    ASSUME EffectSound, UNCHANGED <<request, state, ledger, told>>
    PROVE  /\ route' = route /\ needs' = needs /\ optOut' = optOut
           /\ state' = state /\ ledger' = ledger /\ told' = told
           /\ Reserved' = Reserved
           /\ Acceptable' = Acceptable
           /\ NextEffect(state)' = NextEffect(state)
           /\ \A n : MayAttempt(state, Reserved, n)' = MayAttempt(state, Reserved, n)
           /\ route \in Routes /\ state \in AgentRunState
           /\ state.plan \in Plan
BY AdmissionStands DEF request, EffectSound, TypeOK, AgentRunState

LEMMA CallTypes ==
    ASSUME EffectSound, NEW i \in DOMAIN calls
    PROVE  /\ calls[i] \in CallRecord
           /\ calls[i].round \in Nat
           /\ calls[i].attempt \in Nat \ {0}
           /\ state.model_calls \in Nat
<1>1. calls \in Seq(CallRecord) /\ state \in AgentRunState
  BY DEF EffectSound, TypeOK
<1>2. calls[i] \in CallRecord
  BY <1>1
<1>3. QED
  BY <1>1, <1>2 DEF CallRecord, AgentRunState

LEMMA AdmitSound ==
    ASSUME EffectSound, Admit
    PROVE  EffectSound'
<1>1. /\ stage = "idle" /\ NextEffect(state).kind = "provider" /\ Acceptable
      /\ ~OverTokenBudget(state, Reserved)
      /\ stage' = "armed" /\ attempt' = 1 /\ attempts' = << >> /\ visible' = FALSE
      /\ streamed' = Usage!NoUsage /\ leaving' = FALSE
      /\ UNCHANGED <<request, state, ledger, cancelled, result, history>>
  BY DEF Admit, Admitting, Arm
<1>2. /\ route' = route /\ needs' = needs /\ optOut' = optOut
      /\ state' = state /\ ledger' = ledger /\ told' = told
      /\ Reserved' = Reserved /\ Acceptable' = Acceptable
      /\ NextEffect(state)' = NextEffect(state)
      /\ MayAttempt(state, Reserved, 1)' = MayAttempt(state, Reserved, 1)
      /\ route \in Routes /\ state \in AgentRunState /\ state.plan \in Plan
  BY <1>1, Steady DEF history
<1>3. calls' = calls /\ shown' = shown /\ result' = result /\ cancelled' = cancelled
  BY <1>1 DEF history
<1>4. Executing' /\ Made' = 0
  BY <1>1 DEF Executing, Made
<1>5. state.plan.provider_max_attempts \in Nat \ {0} /\ state.plan.model_call_limit \in Nat
      /\ state.reserved_tokens \in Nat
      /\ (state.plan.token_limit # Unset => state.plan.token_limit \in Nat)
  BY <1>2 DEF Plan, AgentRunState
<1>6. Reserved \in Nat
  BY <1>1, <1>2, ReservedType
<1>7. ~NoProviderBudget(state) /\ state.status \in Live
  BY <1>1 DEF NextEffect, NoEffect, ToolEffect, BatchEffect
<1>8. MayAttempt(state, Reserved, 1)
  <2>1. 1 <= RemainingCalls(state)
    BY <1>2, <1>5, <1>7, RemainingType DEF NoProviderBudget, RemainingCalls, Minus
  <2>2. ASSUME state.plan.token_limit # Unset
        PROVE  1 <= RemainingTokens(state) \div MaxOf(Reserved, 1)
    <3> DEFINE r == RemainingTokens(state)
               m == MaxOf(Reserved, 1)
    <3>1. r \in Nat /\ r >= 1
      BY <1>5, <1>7, <2>2 DEF NoProviderBudget, RemainingTokens, Minus
    <3>2. Reserved <= r
      BY <1>1, <1>6, <2>2, <3>1 DEF OverTokenBudget
    <3>3. m \in Nat \ {0} /\ m <= r
      BY <1>6, <3>1, <3>2 DEF MaxOf
    <3> HIDE DEF r, m
    <3>4. 1 <= r \div m
      BY <3>1, <3>3, SMT
    <3>5. QED
      BY <3>4 DEF r, m
  <2>3. QED
    BY <1>5, <2>1, <2>2 DEF MayAttempt
<1>9. TypeOK'
  <2>1. attempt' \in 0..state'.plan.provider_max_attempts
    BY <1>1, <1>2, <1>5
  <2>2. attempts' \in Seq(Reports)
    BY <1>1
  <2>3. QED
    BY <1>1, <1>2, <1>3, <2>1, <2>2 DEF EffectSound, TypeOK
<1>10. EffectUnderWay'
  <2>1. Len(attempts') = 0 /\ attempt' = 1 /\ stage' = "armed"
    BY <1>1
  <2>2. MayAttempt(state, Reserved, attempt)'
    BY <1>1, <1>2, <1>8
  <2>3. QED
    BY <1>1, <1>2, <2>1, <2>2 DEF EffectUnderWay
<1>11. CallsCharged'
  <2>1. Len(calls) = state.provider_calls_started /\ state.provider_calls_started \in Nat
    BY <1>1, <1>2 DEF EffectSound, CallsCharged, AgentRunState
  <2>2. QED
    BY <1>1, <1>2, <1>3, <1>4, <2>1 DEF EffectSound, CallsCharged
<1>12. CallsFit'
  BY <1>2, <1>3 DEF EffectSound, CallsFit, CallFits
<1>13. TokensCharged'
  <2>1. WorstCaseTokens' = WorstCaseTokens
    BY <1>3 DEF WorstCaseTokens
  <2>2. 0 * Reserved = 0
    BY <1>6
  <2>3. state.reserved_tokens + 0 * Reserved = state.reserved_tokens
    BY <1>5, <2>2
  <2>4. QED
    BY <1>1, <1>2, <1>3, <1>4, <2>1, <2>3 DEF EffectSound, TokensCharged
<1>14. CallsInRounds' /\ CalledIsRecorded'
  <2>1. ASSUME NEW i \in DOMAIN calls
        PROVE  calls[i].round < state.model_calls /\ calls[i].round <= state.model_calls
               /\ calls[i].round # state.model_calls
    <3>1. calls[i].round \in Nat /\ state.model_calls \in Nat
      BY CallTypes
    <3>2. calls[i].round < state.model_calls
      BY <1>1 DEF EffectSound, CallsInRounds
    <3>3. QED
      BY <3>1, <3>2
  <2>2. QED
    BY <1>1, <1>2, <1>3, <2>1 DEF CallsInRounds, CalledIsRecorded
<1>15. ShownInRounds' /\ OutputShownOnce'
  <2>1. ASSUME NEW x \in shown PROVE x.round # state.model_calls
    <3>1. PICK i \in DOMAIN calls : x = [round |-> calls[i].round, attempt |-> calls[i].attempt]
      BY DEF EffectSound, TypeOK
    <3>2. calls[i].round \in Nat /\ state.model_calls \in Nat
      BY CallTypes
    <3>3. calls[i].round < state.model_calls
      BY <1>1 DEF EffectSound, CallsInRounds
    <3>4. QED
      BY <3>1, <3>2, <3>3
  <2>2. ShownInRounds'
    BY <1>2, <1>3, <2>1 DEF ShownInRounds
  <2>3. QED
    BY <1>3, <2>2 DEF EffectSound, OutputShownOnce
<1>16. PendingLedger'
  <2>1. told \in Seq(Report) /\ ledger \in Usage!RunUsage /\ AccountsFor(ledger, told)
    BY DEF EffectSound, TypeOK, LedgerTrue, PendingLedger
  <2>2. Usage!AddCalls(ledger, << >>) = ledger
    BY <2>1, AddCallsOneByOne DEF Report
  <2>3. told \o << >> = told /\ Len(<< >>) = 0
    BY <2>1
  <2>4. Measured(<< >>) /\ ledger.complete \in BOOLEAN /\ Len(ledger.model_calls) \in Nat
    BY <2>1 DEF Measured, Usage!RunUsage
  <2> DEFINE l == Usage!AddCalls(ledger', attempts')
  <2>5. l = ledger /\ told' \o attempts' = told
    BY <1>1, <1>2, <2>2, <2>3
  <2>6. /\ l.complete = (ledger.complete /\ Measured(attempts'))
        /\ Len(l.model_calls) = Len(ledger.model_calls) + Len(attempts')
    BY <1>1, <2>3, <2>4, <2>5
  <2> HIDE DEF l
  <2>7. l \in Usage!RunUsage /\ AccountsFor(l, told' \o attempts') /\ told' \in Seq(Report)
    BY <1>2, <2>1, <2>5
  <2>8. QED
    BY <1>2, <2>6, <2>7 DEF PendingLedger, l
<1>17. LedgerTrue'
  BY <1>1, <1>2, <1>3 DEF EffectSound, LedgerTrue
<1>18. QED
  BY <1>9, <1>10, <1>11, <1>12, <1>13, <1>14, <1>15, <1>16, <1>17 DEF EffectSound

LEMMA RetrySound ==
    ASSUME EffectSound, RetryNow
    PROVE  EffectSound'
<1>1. /\ stage = "backoff"
      /\ stage' = "armed" /\ attempt' = attempt + 1 /\ attempts' = attempts
      /\ visible' = FALSE /\ streamed' = Usage!NoUsage /\ leaving' = FALSE
      /\ UNCHANGED <<request, state, ledger, cancelled, result, history>>
  BY DEF RetryNow, Arm
<1>2. /\ route' = route /\ needs' = needs /\ optOut' = optOut
      /\ state' = state /\ ledger' = ledger /\ told' = told
      /\ Reserved' = Reserved /\ Acceptable' = Acceptable
      /\ NextEffect(state)' = NextEffect(state)
      /\ route \in Routes /\ state \in AgentRunState /\ state.plan \in Plan
  BY <1>1, Steady DEF history
<1>3. calls' = calls /\ shown' = shown /\ result' = result /\ cancelled' = cancelled
  BY <1>1 DEF history
<1>4. /\ attempt \in Nat /\ attempt > 0
      /\ NextEffect(state).kind = "provider" /\ Acceptable
      /\ MayAttempt(state, Reserved, attempt + 1)
      /\ Len(attempts) = attempt
  BY <1>1, <1>2 DEF EffectSound, TypeOK, EffectUnderWay, Executing, Plan
<1>5. Executing /\ Executing' /\ Made = attempt /\ Made' = attempt
  BY <1>1, <1>4 DEF Executing, Made
<1>6. TypeOK'
  <2>1. attempt + 1 <= state.plan.provider_max_attempts
    BY <1>4 DEF MayAttempt
  <2>2. attempt' \in 0..state'.plan.provider_max_attempts
    BY <1>1, <1>2, <1>4, <2>1 DEF Plan
  <2>3. QED
    BY <1>1, <1>2, <1>3, <2>2 DEF EffectSound, TypeOK
<1>7. EffectUnderWay'
  <2>1. MayAttempt(state, Reserved, attempt)'
    BY <1>1, <1>2, <1>4
  <2>2. attempt' > 0 /\ Len(attempts') = attempt' - 1
    BY <1>1, <1>4
  <2>3. QED
    BY <1>1, <1>2, <1>4, <2>1, <2>2 DEF EffectUnderWay
<1>8. CallsCharged'
  BY <1>1, <1>2, <1>3, <1>5 DEF EffectSound, CallsCharged
<1>9. CallsFit'
  BY <1>2, <1>3 DEF EffectSound, CallsFit, CallFits
<1>10. TokensCharged'
  <2>1. WorstCaseTokens' = WorstCaseTokens
    BY <1>3 DEF WorstCaseTokens
  <2>2. QED
    BY <1>1, <1>2, <1>3, <1>5, <2>1 DEF EffectSound, TokensCharged
<1>11. CallsInRounds' /\ CalledIsRecorded'
  BY <1>1, <1>2, <1>3, <1>5 DEF EffectSound, CallsInRounds, CalledIsRecorded
<1>12. ShownInRounds' /\ OutputShownOnce'
  BY <1>1, <1>2, <1>3, <1>5 DEF EffectSound, ShownInRounds, OutputShownOnce
<1>13. PendingLedger'
  BY <1>1, <1>2, <1>5 DEF EffectSound, PendingLedger
<1>14. LedgerTrue'
  BY <1>1, <1>2, <1>3 DEF EffectSound, LedgerTrue
<1>15. QED
  BY <1>6, <1>7, <1>8, <1>9, <1>10, <1>11, <1>12, <1>13, <1>14 DEF EffectSound

\* A fragment of output is shown.
LEMMA ChunkSound ==
    ASSUME EffectSound, Chunk
    PROVE  EffectSound'
<1> DEFINE seen == [round |-> state.model_calls, attempt |-> attempt]
<1>1. /\ stage = "called" /\ visible' = TRUE /\ shown' = shown \cup {seen}
      /\ UNCHANGED <<request, state, ledger, stage, attempt, attempts, streamed, leaving,
                     cancelled, result, calls, told>>
  BY DEF Chunk
<1>2. /\ route' = route /\ needs' = needs /\ optOut' = optOut
      /\ state' = state /\ ledger' = ledger /\ told' = told
      /\ stage' = stage /\ attempt' = attempt /\ attempts' = attempts /\ leaving' = leaving
      /\ calls' = calls /\ result' = result
      /\ Reserved' = Reserved /\ Acceptable' = Acceptable
      /\ NextEffect(state)' = NextEffect(state)
      /\ MayAttempt(state, Reserved, attempt)' = MayAttempt(state, Reserved, attempt)
  BY <1>1, Steady DEF request
<1>3. Executing /\ Executing' /\ Made = attempt /\ Made' = attempt
  BY <1>1, <1>2 DEF Executing, Made
<1>4. \E i \in DOMAIN calls : calls[i].round = state.model_calls /\ calls[i].attempt = attempt
  BY <1>1 DEF EffectSound, CalledIsRecorded
<1>5. TypeOK'
  <2>1. \A x \in shown' : \E i \in DOMAIN calls' :
            x = [round |-> calls'[i].round, attempt |-> calls'[i].attempt]
    BY <1>1, <1>2, <1>4 DEF EffectSound, TypeOK
  <2>2. QED
    BY <1>1, <1>2, <2>1 DEF EffectSound, TypeOK
<1>6. EffectUnderWay'
  BY <1>1, <1>2 DEF EffectSound, EffectUnderWay, Executing
<1>7. CallsCharged'
  BY <1>2, <1>3 DEF EffectSound, CallsCharged
<1>8. CallsFit'
  BY <1>2 DEF EffectSound, CallsFit, CallFits
<1>9. TokensCharged'
  <2>1. WorstCaseTokens' = WorstCaseTokens
    BY <1>2 DEF WorstCaseTokens
  <2>2. QED
    BY <1>2, <1>3, <2>1 DEF EffectSound, TokensCharged
<1>10. CallsInRounds' /\ CalledIsRecorded'
  BY <1>2, <1>3 DEF EffectSound, CallsInRounds, CalledIsRecorded
<1>11. ShownInRounds'
  <2>1. \A x \in shown' : x.round = state.model_calls => x.attempt = attempt
    BY <1>1, <1>3 DEF EffectSound, ShownInRounds
  <2>2. QED
    BY <1>1, <1>2, <2>1 DEF ShownInRounds
<1>12. OutputShownOnce'
  <2>1. ASSUME NEW x \in shown', NEW i \in DOMAIN calls, calls[i].round = x.round
        PROVE  calls[i].attempt <= x.attempt
    <3>1. CASE x \in shown
      BY <2>1, <3>1 DEF EffectSound, OutputShownOnce
    <3>2. CASE x = seen
      <4>1. calls[i].round = state.model_calls /\ x.attempt = attempt
        BY <2>1, <3>2
      <4>2. calls[i].attempt <= Made
        BY <1>3, <4>1 DEF EffectSound, CallsInRounds
      <4>3. QED
        BY <1>3, <4>1, <4>2
    <3>3. QED
      BY <1>1, <3>1, <3>2
  <2>2. QED
    BY <1>2, <2>1 DEF OutputShownOnce
<1>13. PendingLedger'
  BY <1>2, <1>3 DEF EffectSound, PendingLedger
<1>14. LedgerTrue'
  BY <1>2 DEF EffectSound, LedgerTrue
<1>15. QED
  BY <1>5, <1>6, <1>7, <1>8, <1>9, <1>10, <1>11, <1>12, <1>13, <1>14 DEF EffectSound

\* One call more costs its prompt and the reserved output.
LEMMA WorstCaseAppend ==
    ASSUME EffectSound, \A i \in DOMAIN calls : calls[i].prompt \in Nat,
           NEW c, c.prompt \in Nat, calls' = Append(calls, c)
    PROVE  /\ WorstCaseTokens \in Nat
           /\ WorstCaseTokens' = WorstCaseTokens + (c.prompt + OutputReserve)
<1> DEFINE n == Len(calls)
           D == DOMAIN calls
           E == DOMAIN calls'
           fun == [i \in D |-> calls[i].prompt + OutputReserve]
           gun == [i \in E |-> calls'[i].prompt + OutputReserve]
           cost == c.prompt + OutputReserve
<1>1. calls \in Seq(CallRecord)
  BY DEF EffectSound, TypeOK
<1>2. /\ n \in Nat /\ D = 1..n /\ E = 1..(n + 1)
      /\ calls'[n + 1] = c
      /\ \A i \in 1..n : calls'[i] = calls[i]
  BY <1>1
<1>3. OutputReserve \in Nat
  BY EffectAssumption
<1>4. cost \in Nat
  BY <1>3
<1>5. IsFiniteSet(D) /\ IsFiniteSet(E)
  BY <1>2, FS_Interval
<1>6. n + 1 \in E /\ E \ {n + 1} = D /\ D \subseteq E
  BY <1>2
<1>7. \A i \in D : fun[i] \in Nat
  BY <1>3
<1>8. gun[n + 1] = cost /\ \A i \in D : gun[i] = fun[i]
  BY <1>2, <1>6
<1>9. \A i \in E : gun[i] \in Nat
  <2> HIDE DEF gun, fun, cost, E, D
  <2>1. QED
    BY <1>4, <1>6, <1>7, <1>8
<1>10. WorstCaseTokens = SumFunctionOnSet(fun, D)
  <2>1. DOMAIN fun = D
    OBVIOUS
  <2>2. WorstCaseTokens = SumFunctionOnSet(fun, DOMAIN fun)
    BY DEF WorstCaseTokens, SumFunction
  <2> HIDE DEF fun
  <2>3. QED
    BY <2>1, <2>2
<1>11. WorstCaseTokens' = SumFunctionOnSet(gun, E)
  <2>1. DOMAIN gun = E
    OBVIOUS
  <2>2. WorstCaseTokens' = SumFunctionOnSet(gun, DOMAIN gun)
    BY DEF WorstCaseTokens, SumFunction
  <2> HIDE DEF gun
  <2>3. QED
    BY <2>1, <2>2
<1> HIDE DEF fun, gun, cost, D, E, n
<1>12. SumFunctionOnSet(gun, D) = SumFunctionOnSet(fun, D) /\ SumFunctionOnSet(fun, D) \in Nat
  BY <1>5, <1>7, <1>8, SumAgrees
<1>13. SumFunctionOnSet(gun, E) = gun[n + 1] + SumFunctionOnSet(gun, E \ {n + 1})
  BY <1>5, <1>6, <1>9, SumSplits
<1>14. SumFunctionOnSet(gun, E) = cost + SumFunctionOnSet(fun, D)
  BY <1>6, <1>8, <1>12, <1>13, Zenon
<1>15. WorstCaseTokens \in Nat /\ WorstCaseTokens' = cost + WorstCaseTokens
  BY <1>10, <1>11, <1>12, <1>14, Zenon
<1>16. QED
  BY <1>4, <1>15 DEF cost

LEMMA CallSound ==
    ASSUME EffectSound, CallAdapter
    PROVE  EffectSound'
<1> DEFINE by == Routed(route, attempt)
           p == Prompt(route[by], state)
           c == [round |-> state.model_calls, attempt |-> attempt, by |-> by,
                 prompt |-> p, stream |-> Streams(route)]
           n == Len(calls)
<1>1. /\ stage = "armed" /\ stage' = "called" /\ calls' = Append(calls, c)
      /\ UNCHANGED <<request, state, ledger, executing, cancelled, result, shown, told>>
  BY DEF CallAdapter
<1>2. /\ route' = route /\ needs' = needs /\ optOut' = optOut
      /\ state' = state /\ ledger' = ledger /\ told' = told
      /\ attempt' = attempt /\ attempts' = attempts /\ leaving' = leaving
      /\ visible' = visible /\ streamed' = streamed /\ cancelled' = cancelled
      /\ shown' = shown /\ result' = result
      /\ Reserved' = Reserved /\ Acceptable' = Acceptable
      /\ NextEffect(state)' = NextEffect(state)
      /\ MayAttempt(state, Reserved, attempt)' = MayAttempt(state, Reserved, attempt)
      /\ route \in Routes /\ state \in AgentRunState /\ state.plan \in Plan
  BY <1>1, Steady DEF request, executing
<1>3. /\ attempt \in Nat /\ attempt > 0
      /\ Acceptable /\ MayAttempt(state, Reserved, attempt)
      /\ Len(attempts) = attempt - 1
  BY <1>1, <1>2 DEF EffectSound, TypeOK, EffectUnderWay, Executing, Plan
<1>4. Executing /\ Executing' /\ Made = attempt - 1 /\ Made' = attempt
  BY <1>1, <1>2 DEF Executing, Made
<1>5. by \in DOMAIN route /\ by \in 1..2
  BY <1>2, <1>3, RoutedInRoute
<1>6. p \in Nat \cup {Unset}
  BY <1>2, <1>5, RouteType, PromptType
<1>7. Streams(route) \in BOOLEAN
  BY DEF Streams
<1>8. /\ needs \subseteq route[by].features
      /\ Streams(route) => route[by].streams
      /\ ~optOut => /\ p \in Nat
                    /\ p + OutputReserve <= route[by].limit
                    /\ route[by].limit \in Nat
      /\ state.plan.token_limit # Unset => p \in Nat /\ p + OutputReserve <= Reserved
  BY <1>2, <1>3, <1>5, AcceptableCovers
<1>9. OutputReserve \in Nat /\ Reserved \in Nat
  BY <1>2, <1>3, EffectAssumption, ReservedType
<1>10. /\ state.model_calls \in Nat /\ state.provider_calls_started \in Nat
       /\ state.reserved_child_model_calls \in Nat /\ state.reserved_tokens \in Nat
       /\ state.plan.model_call_limit \in Nat
       /\ (state.plan.token_limit # Unset => state.plan.token_limit \in Nat)
  BY <1>2 DEF AgentRunState, Plan
<1>11. calls \in Seq(CallRecord) /\ n \in Nat /\ DOMAIN calls = 1..n
  BY DEF EffectSound, TypeOK
<1> HIDE DEF p, by
<1>12. /\ c \in CallRecord
       /\ c.round = state.model_calls /\ c.attempt = attempt /\ c.by = by
       /\ c.prompt = p /\ c.stream = Streams(route)
  BY <1>3, <1>5, <1>6, <1>7, <1>10 DEF CallRecord
<1> HIDE DEF c
<1>13. /\ calls' \in Seq(CallRecord) /\ Len(calls') = n + 1 /\ DOMAIN calls' = 1..(n + 1)
       /\ calls'[n + 1] = c
       /\ \A i \in 1..n : calls'[i] = calls[i]
  BY <1>1, <1>11, <1>12
<1> HIDE DEF n
<1>14. \A i \in DOMAIN calls' : (i \in DOMAIN calls /\ calls'[i] = calls[i]) \/ calls'[i] = c
  BY <1>11, <1>13
<1>15. DOMAIN calls \subseteq DOMAIN calls' /\ \A i \in DOMAIN calls : calls'[i] = calls[i]
  BY <1>11, <1>13
<1>16. TypeOK'
  <2>1. \A x \in shown' : \E i \in DOMAIN calls' :
            x = [round |-> calls'[i].round, attempt |-> calls'[i].attempt]
    <3> TAKE x \in shown'
    <3>1. PICK i \in DOMAIN calls : x = [round |-> calls[i].round, attempt |-> calls[i].attempt]
      BY <1>2 DEF EffectSound, TypeOK
    <3>2. i \in DOMAIN calls' /\ calls'[i] = calls[i]
      BY <1>15
    <3>3. QED
      BY <3>1, <3>2
  <2>2. QED
    BY <1>1, <1>2, <1>13, <2>1 DEF EffectSound, TypeOK
<1>17. EffectUnderWay'
  BY <1>1, <1>2 DEF EffectSound, EffectUnderWay, Executing
<1>18. CallsCharged'
  <2>1. /\ n = state.provider_calls_started + (attempt - 1)
        /\ state.model_calls <= state.provider_calls_started
    BY <1>4 DEF EffectSound, CallsCharged, n
  <2>2. ChargedCalls(state) = state.provider_calls_started + state.reserved_child_model_calls
    BY <1>10, <2>1 DEF ChargedCalls, MaxOf
  <2>3. attempt <= RemainingCalls(state)
    BY <1>3 DEF MayAttempt
  <2>4. RemainingCalls(state) = IF state.plan.model_call_limit >= ChargedCalls(state)
                                THEN state.plan.model_call_limit - ChargedCalls(state) ELSE 0
    BY DEF RemainingCalls, Minus
  <2>5. n + 1 + state.reserved_child_model_calls <= state.plan.model_call_limit
    BY <1>3, <1>10, <2>1, <2>2, <2>3, <2>4
  <2>6. n + 1 = state.provider_calls_started + attempt
    BY <1>3, <1>10, <2>1
  <2>7. QED
    BY <1>1, <1>2, <1>4, <1>13, <2>1, <2>5, <2>6 DEF CallsCharged
<1>19. CallsFit'
  <2>1. CallFits(c)
    <3>1. optOut \/ p + OutputReserve \in 0..route[by].limit
      BY <1>8, <1>9
    <3>2. QED
      BY <1>8, <1>12, <3>1 DEF CallFits
  <2>2. \A i \in DOMAIN calls : CallFits(calls[i])
    BY DEF EffectSound, CallsFit
  <2>3. \A i \in DOMAIN calls' : CallFits(calls'[i])
    BY <1>14, <2>1, <2>2
  <2>4. QED
    BY <1>2, <2>3 DEF CallsFit, CallFits
<1>20. TokensCharged'
  <2>1. SUFFICES ASSUME state.plan.token_limit # Unset
                 PROVE  /\ \A i \in DOMAIN calls' : calls'[i].prompt \in Nat
                        /\ WorstCaseTokens' <= state.plan.token_limit
                        /\ WorstCaseTokens' <= state.reserved_tokens + attempt * Reserved
    BY <1>1, <1>2, <1>4 DEF TokensCharged
  <2>2. /\ \A i \in DOMAIN calls : calls[i].prompt \in Nat
        /\ WorstCaseTokens <= state.reserved_tokens + (attempt - 1) * Reserved
    BY <1>4, <2>1 DEF EffectSound, TokensCharged
  <2>3. c.prompt = p /\ p \in Nat /\ p + OutputReserve <= Reserved
    BY <1>8, <1>12, <2>1
  <2>4. \A i \in DOMAIN calls' : calls'[i].prompt \in Nat
    BY <1>14, <2>2, <2>3
  <2>5. /\ WorstCaseTokens \in Nat
        /\ WorstCaseTokens' = WorstCaseTokens + (p + OutputReserve)
    BY <1>1, <2>2, <2>3, WorstCaseAppend
  <2> DEFINE w == WorstCaseTokens
             v == WorstCaseTokens'
             a == attempt
             r == Reserved
             room == RemainingTokens(state)
             limit == state.plan.token_limit
             used == state.reserved_tokens
             q == p + OutputReserve
  <2>6. a * r = (a - 1) * r + r
    <3>1. a \in Nat /\ r \in Nat
      BY <1>3, <1>9
    <3> HIDE DEF a, r
    <3>2. QED
      BY <3>1, SMT
  <2>7. room \in Nat
    BY <1>2, <2>1, RemainingType
  <2>8. a <= room \div MaxOf(r, 1)
    BY <1>3, <2>1 DEF MayAttempt
  <2>9. a * r <= room
    <3>1. a \in Nat /\ r \in Nat
      BY <1>3, <1>9
    <3> HIDE DEF a, r, room
    <3>2. QED
      BY <2>7, <2>8, <3>1, AttemptsFit
  <2>10. room # 0
    <3>1. ASSUME room = 0 PROVE FALSE
      <4> DEFINE m == MaxOf(r, 1)
      <4>1. m \in Nat \ {0}
        BY <1>9 DEF MaxOf
      <4> HIDE DEF m
      <4>2. 0 \div m = 0
        BY <4>1, SMT
      <4>3. a <= 0
        BY <2>8, <3>1, <4>2 DEF m
      <4>4. QED
        BY <1>3, <4>3
    <3>2. QED
      BY <3>1
  <2>11. room = limit - used
    BY <2>10 DEF RemainingTokens, Minus
  <2>12. /\ w \in Nat /\ v = w + q /\ q \in Nat /\ q <= r /\ r \in Nat
         /\ w <= used + (a - 1) * r /\ used \in Nat /\ limit \in Nat
         /\ (a - 1) * r \in Int /\ a * r \in Int
    <3>1. a \in Nat /\ r \in Nat
      BY <1>3, <1>9
    <3>2. (a - 1) * r \in Int /\ a * r \in Int
      <4> HIDE DEF a, r
      <4>1. QED
        BY <3>1
    <3>3. QED
      BY <1>9, <1>10, <2>1, <2>2, <2>3, <2>5, <3>2
  <2> DEFINE x == (a - 1) * r
             y == a * r
  <2>13. v <= used + y /\ v <= limit
    <3>1. y = x + r /\ y <= room /\ room = limit - used /\ w <= used + x
          /\ x \in Int /\ y \in Int
      BY <2>6, <2>9, <2>11, <2>12
    <3> HIDE DEF x, y, v, w, q, r, room, limit, used
    <3>2. QED
      BY <2>7, <2>12, <3>1
  <2>14. QED
    BY <2>4, <2>13
<1>21. CallsInRounds' /\ CalledIsRecorded'
  <2>1. ASSUME NEW i \in DOMAIN calls'
        PROVE  /\ calls'[i].round <= state.model_calls
               /\ calls'[i].round = state.model_calls => calls'[i].attempt <= attempt
    <3>1. CASE i \in DOMAIN calls /\ calls'[i] = calls[i]
      <4>1. calls[i].attempt \in Nat
        BY <3>1, CallTypes
      <4>2. /\ calls[i].round <= state.model_calls
            /\ calls[i].round = state.model_calls => calls[i].attempt <= attempt - 1
        BY <1>4, <3>1 DEF EffectSound, CallsInRounds
      <4>3. QED
        BY <1>3, <3>1, <4>1, <4>2
    <3>2. CASE calls'[i] = c
      BY <1>3, <1>10, <1>12, <3>2
    <3>3. QED
      BY <1>14, <3>1, <3>2
  <2>2. n + 1 \in DOMAIN calls' /\ calls'[n + 1].round = state.model_calls
        /\ calls'[n + 1].attempt = attempt
    BY <1>11, <1>12, <1>13
  <2>3. CallsInRounds'
    BY <1>1, <1>2, <1>4, <2>1 DEF CallsInRounds
  <2>4. CalledIsRecorded'
    BY <1>2, <2>2 DEF CalledIsRecorded
  <2>5. QED
    BY <2>3, <2>4
<1>22. ShownInRounds' /\ OutputShownOnce'
  <2>1. \A x \in shown : x.round # state.model_calls
    BY <1>1, <1>4 DEF EffectSound, ShownInRounds
  <2>2. ShownInRounds'
    BY <1>2, <2>1 DEF ShownInRounds
  <2>3. OutputShownOnce'
    <3>1. ASSUME NEW x \in shown, NEW i \in DOMAIN calls', calls'[i].round = x.round
          PROVE  calls'[i].attempt <= x.attempt
      <4>1. calls'[i] # c
        BY <1>12, <2>1, <3>1
      <4>2. i \in DOMAIN calls /\ calls'[i] = calls[i]
        BY <1>14, <4>1
      <4>3. QED
        BY <3>1, <4>2 DEF EffectSound, OutputShownOnce
    <3>2. QED
      BY <1>2, <3>1 DEF OutputShownOnce
  <2>4. QED
    BY <2>2, <2>3
<1>23. PendingLedger'
  BY <1>2, <1>4 DEF EffectSound, PendingLedger
<1>24. LedgerTrue'
  BY <1>1, <1>2 DEF EffectSound, LedgerTrue
<1>25. QED
  BY <1>16, <1>17, <1>18, <1>19, <1>20, <1>21, <1>22, <1>23, <1>24 DEF EffectSound

-----------------------------------------------------------------------------
(* The end of an attempt: one report more, then a backoff or the commit.    *)

LEMMA ReportAppend ==
    ASSUME NEW q \in Seq(Report), NEW u \in Report, NEW r, r = Append(q, u)
    PROVE  /\ r \in Seq(Report) /\ Len(r) = Len(q) + 1 /\ Len(q) \in Nat
           /\ DOMAIN r = 1..(Len(q) + 1) /\ DOMAIN q = 1..Len(q)
           /\ r[Len(q) + 1] = u
           /\ \A i \in 1..Len(q) : r[i] = q[i]
OBVIOUS

\* What the end of an attempt adds to the attempts and to what the ledger will
\* account for when they are committed.
LEMMA ReportedLedger ==
    ASSUME EffectSound, Executing, NEW u \in Report,
           NEW r, r = Reported(u), NEW m, m = Usage!AddCalls(ledger, r)
    PROVE  /\ r \in Seq(Report) /\ Len(r) = Len(attempts) + 1
           /\ told \o r \in Seq(Report)
           /\ m \in Usage!RunUsage
           /\ AccountsFor(m, told \o r)
           /\ m.complete = (ledger.complete /\ Measured(r))
           /\ Len(m.model_calls) = Len(ledger.model_calls) + Len(r)
<1> DEFINE l == Usage!AddCalls(ledger, attempts)
           t == told \o attempts
<1>1. Reports \subseteq Report
  BY EffectAssumption DEF Report
<1>2. attempts \in Seq(Report)
  BY <1>1 DEF EffectSound, TypeOK
<1>3. told \in Seq(Report)
  BY DEF EffectSound, PendingLedger
<1>4. r = Append(attempts, u)
  BY DEF Reported
<1>5. /\ r \in Seq(Report) /\ Len(r) = Len(attempts) + 1 /\ Len(attempts) \in Nat
      /\ DOMAIN r = 1..(Len(attempts) + 1) /\ DOMAIN attempts = 1..Len(attempts)
      /\ r[Len(attempts) + 1] = u
      /\ \A i \in 1..Len(attempts) : r[i] = attempts[i]
  BY <1>2, <1>4, ReportAppend, SMTT(60)
<1>6. t \in Seq(Report) /\ told \o r = Append(t, u) /\ told \o r \in Seq(Report)
  BY <1>2, <1>3, <1>4
<1>7. /\ l \in Usage!RunUsage
      /\ AccountsFor(l, t)
      /\ l.complete = (ledger.complete /\ Measured(attempts))
      /\ Len(l.model_calls) = Len(ledger.model_calls) + Len(attempts)
  BY DEF EffectSound, PendingLedger
<1>8. m = Usage!AddCall(l, u)
  <2>1. Usage!AddCalls(ledger, Append(attempts, u)) = Usage!AddCall(l, u)
    BY <1>2, AddCallsOneByOne
  <2> HIDE DEF l
  <2>2. QED
    BY <1>4, <2>1, Zenon
<1>9. Measured(r) = (Measured(attempts) /\ u # Usage!NoUsage /\ Usage!IsComplete(u))
  <2> DEFINE Full(x) == x # Usage!NoUsage /\ Usage!IsComplete(x)
  <2>1. /\ Measured(r) = \A i \in DOMAIN r : Full(r[i])
        /\ Measured(attempts) = \A i \in DOMAIN attempts : Full(attempts[i])
    BY DEF Measured
  <2> HIDE DEF Full
  <2>2. (\A i \in DOMAIN r : Full(r[i])) <=> (\A i \in DOMAIN attempts : Full(attempts[i])) /\ Full(u)
    BY <1>5
  <2>3. (\A i \in DOMAIN r : Full(r[i])) = ((\A i \in DOMAIN attempts : Full(attempts[i])) /\ Full(u))
    BY <2>2
  <2>4. QED
    BY <2>1, <2>3 DEF Full
<1> HIDE DEF l, t
<1>10. /\ m.complete = (l.complete /\ u # Usage!NoUsage /\ Usage!IsComplete(u))
       /\ m.model_calls = Append(l.model_calls, Entry(u))
       /\ m \in Usage!RunUsage
  BY <1>7, <1>8, AddCallFields
<1>11. AccountsFor(m, told \o r)
  BY <1>6, <1>7, <1>8, AddCallAccounts
<1>12. m.complete = (ledger.complete /\ Measured(r))
  BY <1>7, <1>9, <1>10, Zenon
<1>13. l.model_calls \in Seq(Usage!TokenUsage) /\ Len(ledger.model_calls) \in Nat
  BY <1>7 DEF Usage!RunUsage, EffectSound, TypeOK
<1>14. Len(m.model_calls) = Len(l.model_calls) + 1
  BY <1>10, <1>13
<1>15. Len(m.model_calls) = Len(ledger.model_calls) + Len(r)
  <2> DEFINE a == Len(m.model_calls)
             b == Len(l.model_calls)
             d == Len(ledger.model_calls)
             e == Len(attempts)
             g == Len(r)
  <2>1. g = e + 1 /\ e \in Nat /\ b = d + e /\ d \in Nat /\ a = b + 1
    BY <1>5, <1>7, <1>13, <1>14
  <2> HIDE DEF a, b, d, e, g
  <2>2. a = d + g
    BY <2>1
  <2>3. QED
    BY <2>2 DEF a, d, g
<1>16. QED
  BY <1>5, <1>6, <1>10, <1>11, <1>12, <1>15

\* A failed attempt that may be retried: nothing of it was shown.
Retries ==
    /\ stage = "called" /\ ~leaving /\ ~visible
    /\ MayAttempt(state, Reserved, attempt + 1)
    /\ \E usage \in Reports : BackOff(usage)

LEMMA RetriesSound ==
    ASSUME EffectSound, Retries
    PROVE  EffectSound'
<1>1. PICK u \in Reports : BackOff(u)
  BY DEF Retries
<1> DEFINE r == Reported(u)
           m == Usage!AddCalls(ledger, r)
<1>2. /\ stage = "called" /\ ~leaving /\ ~visible
      /\ MayAttempt(state, Reserved, attempt + 1)
      /\ stage' = "backoff" /\ attempts' = r
      /\ UNCHANGED <<request, state, ledger, attempt, visible, streamed, leaving,
                     cancelled, result, history>>
  BY <1>1 DEF Retries, BackOff
<1>3. /\ route' = route /\ needs' = needs /\ optOut' = optOut
      /\ state' = state /\ ledger' = ledger /\ told' = told
      /\ Reserved' = Reserved /\ Acceptable' = Acceptable
      /\ NextEffect(state)' = NextEffect(state)
      /\ MayAttempt(state, Reserved, attempt)' = MayAttempt(state, Reserved, attempt)
      /\ MayAttempt(state, Reserved, attempt + 1)' = MayAttempt(state, Reserved, attempt + 1)
      /\ route \in Routes /\ state \in AgentRunState /\ state.plan \in Plan
  <2>1. attempt' = attempt /\ told' = told
    BY <1>2 DEF history
  <2>2. QED
    BY <1>2, <2>1, Steady
<1>4. /\ calls' = calls /\ shown' = shown /\ result' = result /\ cancelled' = cancelled
      /\ attempt' = attempt /\ visible' = visible /\ streamed' = streamed /\ leaving' = leaving
  BY <1>2 DEF history
<1>5. Executing /\ Executing' /\ Made = attempt /\ Made' = attempt
  BY <1>2, <1>4 DEF Executing, Made
<1>6. /\ attempt \in Nat /\ attempt > 0
      /\ NextEffect(state).kind = "provider" /\ Acceptable
      /\ MayAttempt(state, Reserved, attempt)
      /\ Len(attempts) = attempt - 1
  BY <1>2, <1>3, <1>5 DEF EffectSound, TypeOK, EffectUnderWay, Plan
<1>7. u \in Report
  BY EffectAssumption DEF Report
<1>8. /\ r \in Seq(Report) /\ Len(r) = Len(attempts) + 1
      /\ m \in Usage!RunUsage
      /\ AccountsFor(m, told \o r)
      /\ m.complete = (ledger.complete /\ Measured(r))
      /\ Len(m.model_calls) = Len(ledger.model_calls) + Len(r)
  BY <1>5, <1>7, ReportedLedger
<1>9. TypeOK'
  <2>1. attempts' \in Seq(Reports)
    <3>1. attempts \in Seq(Reports)
      BY DEF EffectSound, TypeOK
    <3>2. QED
      BY <1>2, <3>1 DEF Reported
  <2>2. QED
    BY <1>2, <1>3, <1>4, <2>1 DEF EffectSound, TypeOK
<1> HIDE DEF r, m
<1>10. EffectUnderWay'
  <2>1. Len(attempts') = attempt
    BY <1>2, <1>6, <1>8
  <2>2. QED
    BY <1>2, <1>3, <1>4, <1>6, <2>1 DEF EffectUnderWay
<1>11. CallsCharged'
  BY <1>2, <1>3, <1>4, <1>5 DEF EffectSound, CallsCharged
<1>12. CallsFit'
  BY <1>3, <1>4 DEF EffectSound, CallsFit, CallFits
<1>13. TokensCharged'
  <2>1. WorstCaseTokens' = WorstCaseTokens
    BY <1>4 DEF WorstCaseTokens
  <2>2. QED
    BY <1>2, <1>3, <1>4, <1>5, <2>1 DEF EffectSound, TokensCharged
<1>14. CallsInRounds' /\ CalledIsRecorded'
  BY <1>2, <1>3, <1>4, <1>5 DEF EffectSound, CallsInRounds, CalledIsRecorded
<1>15. ShownInRounds' /\ OutputShownOnce'
  BY <1>2, <1>3, <1>4, <1>5 DEF EffectSound, ShownInRounds, OutputShownOnce
<1>16. PendingLedger'
  <2>1. Usage!AddCalls(ledger', attempts') = m /\ told' \o attempts' = told \o r
        /\ ledger' = ledger /\ attempts' = r /\ told' \in Seq(Report)
    BY <1>2, <1>3 DEF m, EffectSound, PendingLedger
  <2>2. QED
    BY <1>8, <2>1 DEF PendingLedger
<1>17. LedgerTrue'
  BY <1>2, <1>3, <1>4 DEF EffectSound, LedgerTrue
<1>18. QED
  BY <1>9, <1>10, <1>11, <1>12, <1>13, <1>14, <1>15, <1>16, <1>17 DEF EffectSound

LEMMA WorstCaseType ==
    ASSUME EffectSound, \A i \in DOMAIN calls : calls[i].prompt \in Nat
    PROVE  WorstCaseTokens \in Nat
<1> DEFINE D == DOMAIN calls
           fun == [i \in D |-> calls[i].prompt + OutputReserve]
<1>1. IsFiniteSet(D)
  <2>1. calls \in Seq(CallRecord)
    BY DEF EffectSound, TypeOK
  <2>2. D = 1..Len(calls) /\ Len(calls) \in Nat
    BY <2>1
  <2>3. QED
    BY <2>2, FS_Interval
<1>2. \A i \in D : fun[i] \in Nat
  BY EffectAssumption
<1>3. DOMAIN fun = D
  OBVIOUS
<1>4. WorstCaseTokens = SumFunctionOnSet(fun, DOMAIN fun)
  BY DEF WorstCaseTokens, SumFunction
<1> HIDE DEF fun, D
<1>5. SumFunctionOnSet(fun, D) \in Nat
  BY <1>1, <1>2, SumAgrees
<1>6. QED
  BY <1>3, <1>4, <1>5

\* The commit of an effect: its last attempt reported u, and the run's state is
\* charged for all of them.
LEMMA FinishSound ==
    ASSUME EffectSound, stage = "called", ~leaving,
           NEW u \in Report, NEW r, r = Reported(u),
           NEW t \in AgentRunState, Charged(state, t, Attempted(r)),
           Finish(t, r, TRUE)
    PROVE  EffectSound'
<1> DEFINE m == Usage!AddCalls(ledger, r)
<1>1. /\ state' = t /\ told' = told \o r /\ attempts' = << >> /\ stage' = "idle"
      /\ ledger' = [m EXCEPT !.complete = @ /\ TRUE]
      /\ attempt' = attempt /\ visible' = visible /\ streamed' = streamed
      /\ leaving' = leaving /\ cancelled' = cancelled /\ result' = result
      /\ calls' = calls /\ shown' = shown
      /\ route' = route /\ needs' = needs /\ optOut' = optOut
  BY DEF Finish, request
<1>2. Executing /\ Made = attempt /\ ~Executing'
  BY <1>1 DEF Executing, Made
<1>3. /\ r \in Seq(Report) /\ Len(r) = Len(attempts) + 1
      /\ told \o r \in Seq(Report)
      /\ m \in Usage!RunUsage
      /\ AccountsFor(m, told \o r)
      /\ m.complete = (ledger.complete /\ Measured(r))
      /\ Len(m.model_calls) = Len(ledger.model_calls) + Len(r)
  BY <1>2, ReportedLedger
<1> HIDE DEF m
<1>4. ledger' = m
  <2>1. m.complete \in BOOLEAN
    BY <1>3 DEF Usage!RunUsage
  <2>2. (m.complete /\ TRUE) = m.complete
    BY <2>1
  <2>3. ledger' = [m EXCEPT !.complete = m.complete]
    BY <1>1, <2>2
  <2>4. [m EXCEPT !.complete = m.complete] = m
    BY <1>3 DEF Usage!RunUsage
  <2>5. QED
    BY <2>3, <2>4
<1>5. /\ route \in Routes /\ state \in AgentRunState /\ state.plan \in Plan
      /\ state.model_calls \in Nat /\ state.provider_calls_started \in Nat
      /\ state.reserved_child_model_calls \in Nat /\ state.reserved_tokens \in Nat
      /\ state.plan.model_call_limit \in Nat
      /\ (state.plan.token_limit # Unset => state.plan.token_limit \in Nat)
  BY DEF EffectSound, TypeOK, AgentRunState, Plan
<1>6. attempt \in Nat /\ attempt > 0 /\ Len(r) = attempt /\ Reserved \in Nat
  <2>1. attempt \in Nat /\ attempt > 0 /\ Len(attempts) = attempt - 1 /\ Acceptable
    BY <1>2, <1>5 DEF EffectSound, TypeOK, EffectUnderWay, Plan
  <2>2. Reserved \in Nat
    BY <1>5, <2>1, ReservedType
  <2>3. QED
    BY <1>3, <2>1, <2>2
<1>7. /\ Attempted(r).count = attempt /\ Attempted(r).reserved = Reserved
      /\ Attempted(r).measured = Measured(r)
      /\ CallCount(Attempted(r)) = attempt
  BY <1>6 DEF Attempted, CallCount, MaxOf
<1>8. state.model_calls <= state.provider_calls_started
  BY DEF EffectSound, CallsCharged
<1>9. /\ t.plan = state.plan
      /\ t.model_calls = state.model_calls + 1
      /\ t.provider_calls_started = state.provider_calls_started + attempt
      /\ t.reserved_child_model_calls = state.reserved_child_model_calls
      /\ t.reserved_tokens = state.reserved_tokens + ReservationFor(state, Attempted(r))
      /\ t.usage = [calls |-> state.usage.calls + attempt,
                    complete |-> state.usage.complete /\ Measured(r)]
  BY <1>5, <1>7, <1>8 DEF Charged, MaxOf
<1>10. state.reserved_tokens + attempt * Reserved <= t.reserved_tokens
  <2> DEFINE x == attempt * Reserved
             y == ReservationFor(state, Attempted(r))
             z == NextModelTokenReservation(state) * attempt
  <2>1. x \in Nat
    BY <1>6
  <2>2. z \in Nat
    <3>1. NextModelTokenReservation(state) \in Nat
      <4>1. Len(state.history) \in Nat
        BY <1>5 DEF AgentRunState
      <4>2. QED
        BY <4>1, TokensAssumption DEF NextModelTokenReservation
    <3> DEFINE a == NextModelTokenReservation(state)
    <3> HIDE DEF a
    <3>2. a * attempt \in Nat
      BY <1>6, <3>1 DEF a
    <3>3. QED
      BY <3>2 DEF a
  <2>3. y = IF Reserved > 0 THEN x ELSE z
    BY <1>6, <1>7 DEF ReservationFor
  <2>4. Reserved = 0 => x = 0
    BY <1>6
  <2>5. x <= y /\ y \in Nat
    <3> HIDE DEF x, y, z
    <3>1. QED
      BY <1>6, <2>1, <2>2, <2>3, <2>4
  <2>6. t.reserved_tokens = state.reserved_tokens + y
    BY <1>9
  <2> HIDE DEF x, y, z
  <2>7. state.reserved_tokens + x <= t.reserved_tokens
    BY <1>5, <2>1, <2>5, <2>6
  <2>8. QED
    BY <2>7 DEF x
<1>11. TypeOK'
  <2>1. attempts' \in Seq(Reports)
    BY <1>1
  <2>2. QED
    BY <1>1, <1>3, <1>4, <1>9, <2>1 DEF EffectSound, TypeOK
<1>12. EffectUnderWay'
  BY <1>1, <1>2 DEF EffectUnderWay
<1>13. CallsCharged'
  <2>1. Len(calls) = state.provider_calls_started + attempt
    BY <1>2 DEF EffectSound, CallsCharged
  <2>2. Len(calls) + state.reserved_child_model_calls <= state.plan.model_call_limit
    BY DEF EffectSound, CallsCharged
  <2>3. state.model_calls + 1 <= state.provider_calls_started + attempt
    BY <1>5, <1>6, <1>8
  <2>4. QED
    BY <1>1, <1>2, <1>9, <2>1, <2>2, <2>3 DEF CallsCharged
<1>14. CallsFit'
  BY <1>1 DEF EffectSound, CallsFit, CallFits
<1>15. TokensCharged'
  <2>1. SUFFICES ASSUME state.plan.token_limit # Unset
                 PROVE  /\ \A i \in DOMAIN calls : calls[i].prompt \in Nat
                        /\ WorstCaseTokens <= state.plan.token_limit
                        /\ WorstCaseTokens <= t.reserved_tokens
    <3>1. WorstCaseTokens' = WorstCaseTokens
      BY <1>1 DEF WorstCaseTokens
    <3>2. QED
      BY <1>1, <1>2, <1>9, <2>1, <3>1 DEF TokensCharged
  <2>2. /\ \A i \in DOMAIN calls : calls[i].prompt \in Nat
        /\ WorstCaseTokens <= state.plan.token_limit
        /\ WorstCaseTokens <= state.reserved_tokens + attempt * Reserved
    BY <1>2, <2>1 DEF EffectSound, TokensCharged
  <2> DEFINE w == WorstCaseTokens
             x == attempt * Reserved
  <2>3. w \in Nat /\ x \in Nat /\ t.reserved_tokens \in Nat
    BY <1>6, <2>2, WorstCaseType DEF AgentRunState
  <2>4. w <= state.reserved_tokens + x /\ state.reserved_tokens + x <= t.reserved_tokens
    BY <1>10, <2>2
  <2> HIDE DEF w, x
  <2>5. w <= t.reserved_tokens
    BY <1>5, <2>3, <2>4
  <2>6. QED
    BY <2>2, <2>5 DEF w
<1>16. CallsInRounds' /\ CalledIsRecorded'
  <2>1. ASSUME NEW i \in DOMAIN calls
        PROVE  calls[i].round <= state.model_calls + 1 /\ calls[i].round < state.model_calls + 1
    <3>1. calls[i].round <= state.model_calls /\ calls[i].round \in Nat
      BY CallTypes DEF EffectSound, CallsInRounds
    <3>2. QED
      BY <1>5, <3>1
  <2>2. QED
    BY <1>1, <1>2, <1>9, <2>1 DEF CallsInRounds, CalledIsRecorded
<1>17. ShownInRounds' /\ OutputShownOnce'
  BY <1>1, <1>2 DEF EffectSound, ShownInRounds, OutputShownOnce
<1>18. PendingLedger'
  BY <1>1, <1>2, <1>3 DEF PendingLedger
<1>19. LedgerTrue'
  <2>1. AccountsFor(ledger, told)'
    BY <1>1, <1>3, <1>4
  <2>2. Len(calls') = state'.provider_calls_started
    BY <1>1, <1>2, <1>9 DEF EffectSound, CallsCharged
  <2>3. state.usage = [calls |-> Len(ledger.model_calls), complete |-> ledger.complete]
    BY DEF EffectSound, LedgerTrue
  <2>4. /\ state.usage.calls + attempt = Len(m.model_calls)
        /\ (state.usage.complete /\ Measured(r)) = m.complete
    <3>1. /\ state.usage.calls = Len(ledger.model_calls)
          /\ state.usage.complete = ledger.complete
      BY <2>3
    <3>2. state.usage.calls + attempt = Len(m.model_calls)
      BY <1>3, <1>6, <3>1
    <3>3. QED
      BY <1>3, <3>1, <3>2, Zenon
  <2>5. state'.usage = [calls |-> Len(ledger'.model_calls), complete |-> ledger'.complete]
    BY <1>1, <1>4, <1>9, <2>4, Zenon
  <2>6. QED
    BY <2>1, <2>2, <2>5, Zenon DEF LedgerTrue
<1>20. QED
  BY <1>11, <1>12, <1>13, <1>14, <1>15, <1>16, <1>17, <1>18, <1>19 DEF EffectSound

LEMMA AttemptedType ==
    ASSUME EffectSound, Executing, NEW u \in Report, NEW r, r = Reported(u)
    PROVE  Attempted(r) \in Attempts
<1>1. Len(r) \in Nat
  BY ReportedLedger
<1>2. Reserved \in Nat
  BY ReservedType DEF EffectSound, TypeOK, EffectUnderWay
<1>3. Measured(r) \in BOOLEAN
  BY DEF Measured
<1>4. QED
  BY <1>1, <1>2, <1>3 DEF Attempted, Attempts

\* A run that has called nothing has a ledger that accounts for it.
LEMMA NewUsageAccounts ==
    Usage!NewUsage \in Usage!RunUsage /\ AccountsFor(Usage!NewUsage, Usage!NewUsage.model_calls)
<1> DEFINE l == Usage!NewUsage
<1>1. l.model_calls = << >> /\ l.aggregate = Usage!UnknownUsage /\ l \in Usage!RunUsage
  BY UnknownIsUsage DEF Usage!NewUsage, Usage!RunUsage
<1>2. \A f \in Field : CountsFor(l, << >>, f)
  BY <1>1 DEF CountsFor, Usage!UnknownUsage
<1>3. l.model_calls = [i \in DOMAIN << >> |-> Entry(<< >>[i])]
  BY <1>1
<1>4. AccountsFor(l, << >>)
  BY <1>2, <1>3, AccountsIs
<1>5. QED
  BY <1>1, <1>4

\* How an answer and a failed attempt end: a retry or a commit.
LEMMA AnswerSound ==
    ASSUME EffectSound, Answer
    PROVE  EffectSound'
<1>1. PICK usage \in Reports, answer \in Responses \cup {<< >>} :
         LET reports == Reported(FinalUsage(usage)) IN
         Finish(CommitProviderResponse(state, NextEffect(state), answer, answer = << >>,
                                       Attempted(reports)),
                reports, TRUE)
  BY DEF Answer
<1> DEFINE u == FinalUsage(usage)
           r == Reported(u)
           a == Attempted(r)
           e == NextEffect(state)
           t == CommitProviderResponse(state, e, answer, answer = << >>, a)
<1>2. stage = "called" /\ ~leaving /\ Finish(t, r, TRUE)
  BY <1>1 DEF Answer
<1>3. u \in Report
  BY EffectAssumption DEF FinalUsage, Report, EffectSound, TypeOK
<1>4. answer \in Seq(Call)
  <2>1. << >> \in Seq(Call)
    OBVIOUS
  <2>2. answer \in Responses => answer \in Seq(Call)
    BY EffectAssumption, Zenon
  <2>3. QED
    BY <2>1, <2>2
<1>5. Executing /\ state \in AgentRunState /\ e.kind = "provider" /\ Expected(state, e)
  BY <1>2, ExecutingLive DEF Executing
<1> HIDE DEF u, r, t
<1>6. a \in Attempts
  BY <1>3, <1>5, AttemptedType DEF r
<1> HIDE DEF a, e
<1>7. t \in AgentRunState /\ Charged(state, t, a)
  BY <1>4, <1>5, <1>6, ProviderFields DEF t
<1>8. QED
  BY <1>2, <1>3, <1>7, FinishSound DEF r, a

LEMMA FailsSound ==
    ASSUME EffectSound, stage = "called", ~leaving,
           NEW retryable \in BOOLEAN, NEW safe \in BOOLEAN, NEW usage,
           usage \in Report, MayRetry(retryable, safe) => usage \in Reports,
           Fails(retryable, safe, usage)
    PROVE  EffectSound'
<1>1. CASE MayRetry(retryable, safe)
  <2>1. Retries
    BY <1>1 DEF Fails, MayRetry, Retries
  <2>2. QED
    BY <2>1, RetriesSound
<1>2. CASE ~MayRetry(retryable, safe)
  <2> DEFINE r == Reported(usage)
             a == Attempted(r)
             e == NextEffect(state)
             t == CommitProviderFailure(state, e, a)
  <2>1. Finish(t, r, TRUE)
    BY <1>2 DEF Fails
  <2>2. Executing /\ state \in AgentRunState /\ e.kind = "provider" /\ Expected(state, e)
    BY ExecutingLive DEF Executing
  <2> HIDE DEF r, t
  <2>3. a \in Attempts
    BY <2>2, AttemptedType DEF r
  <2> HIDE DEF a, e
  <2>4. t \in AgentRunState /\ Charged(state, t, a)
    BY <2>2, <2>3, ProviderFields DEF t
  <2>5. QED
    BY <2>1, <2>4, FinishSound DEF r, a
<1>3. QED
  BY <1>1, <1>2

LEMMA FailureSound ==
    ASSUME EffectSound, AdapterFails \/ StreamBreaks
    PROVE  EffectSound'
<1>1. CASE AdapterFails
  <2>1. PICK retryable \in BOOLEAN, safe \in BOOLEAN, usage \in Reports :
           Fails(retryable, safe, usage)
    BY <1>1 DEF AdapterFails
  <2>2. stage = "called" /\ ~leaving
    BY <1>1 DEF AdapterFails
  <2>3. usage \in Report
    BY EffectAssumption DEF Report
  <2>4. QED
    BY <2>1, <2>2, <2>3, FailsSound
<1>2. CASE StreamBreaks
  <2>1. stage = "called" /\ ~leaving /\ Fails(FALSE, FALSE, Usage!NoUsage)
    BY <1>2 DEF StreamBreaks
  <2>2. Usage!NoUsage \in Report /\ ~MayRetry(FALSE, FALSE)
    BY DEF Report, MayRetry
  <2>3. QED
    BY <2>1, <2>2, FailsSound
<1>3. QED
  BY <1>1, <1>2

\* A tool effect: a delegating call hands back the ledger of its child run.
LEMMA RunToolSound ==
    ASSUME EffectSound, RunTool
    PROVE  EffectSound'
<1>1. PICK child \in ChildLedgers \cup {Usage!NewUsage} :
         /\ state' = CommitTool(state, NextEffect(state),
                                [calls |-> Len(child.model_calls), complete |-> child.complete])
         /\ ledger' = Usage!MergeChild(ledger, child)
         /\ told' = told \o child.model_calls
  BY DEF RunTool
<1> DEFINE e == NextEffect(state)
           share == [calls |-> Len(child.model_calls), complete |-> child.complete]
           t == CommitTool(state, e, share)
<1>2. /\ state' = t /\ stage = "idle" /\ stage' = "idle"
      /\ route' = route /\ needs' = needs /\ optOut' = optOut
      /\ attempt' = attempt /\ attempts' = attempts /\ visible' = visible
      /\ streamed' = streamed /\ leaving' = leaving /\ cancelled' = cancelled
      /\ result' = result /\ calls' = calls /\ shown' = shown
  BY <1>1 DEF RunTool, request, executing
<1>3. e.kind = "tool" /\ Expected(state, e) /\ state \in AgentRunState
  BY DEF RunTool, Expected, NoEffect, EffectSound, TypeOK
<1>4. child \in Usage!RunUsage /\ AccountsFor(child, child.model_calls)
  BY EffectAssumption, NewUsageAccounts
<1>5. share \in RunUsage
  BY <1>4 DEF RunUsage, Usage!RunUsage
<1>6. child.model_calls \in Seq(Report)
  BY <1>4 DEF Report, Usage!RunUsage
<1> HIDE DEF e, share, t
<1>7. /\ t \in AgentRunState
      /\ t.plan = state.plan
      /\ t.model_calls = state.model_calls
      /\ t.provider_calls_started = state.provider_calls_started
      /\ t.usage = MergeChild(state.usage, share)
      /\ t.reserved_tokens >= state.reserved_tokens
      /\ WithinCalls(state) => WithinCalls(t)
  BY <1>3, <1>5, ToolFields DEF t
<1>8. /\ ledger \in Usage!RunUsage /\ AccountsFor(ledger, told) /\ told \in Seq(Report)
      /\ state.usage = [calls |-> Len(ledger.model_calls), complete |-> ledger.complete]
  BY DEF EffectSound, TypeOK, PendingLedger, LedgerTrue
<1>9. /\ ledger' \in Usage!RunUsage
      /\ ledger'.complete = (ledger.complete /\ child.complete)
      /\ ledger'.model_calls = ledger.model_calls \o child.model_calls
      /\ AccountsFor(ledger', told')
  BY <1>1, <1>4, <1>8, MergeFields, MergeChildAccounts
<1>10. told' \in Seq(Report)
  BY <1>1, <1>6, <1>8
<1>11. ~Executing'
  BY <1>2 DEF Executing
<1>12. TypeOK'
  BY <1>2, <1>7, <1>9 DEF EffectSound, TypeOK
<1>13. EffectUnderWay'
  BY <1>2, <1>11 DEF EffectSound, EffectUnderWay
<1>14. CallsCharged'
  <2>1. /\ state.model_calls <= state.provider_calls_started
        /\ Len(calls) + state.reserved_child_model_calls <= state.plan.model_call_limit
        /\ Len(calls) = state.provider_calls_started
    BY <1>2 DEF EffectSound, CallsCharged
  <2>2. /\ state.model_calls \in Nat /\ state.provider_calls_started \in Nat
        /\ state.reserved_child_model_calls \in Nat
        /\ t.reserved_child_model_calls \in Nat
    BY <1>3, <1>7 DEF AgentRunState
  <2>3. /\ ChargedCalls(state) = state.provider_calls_started + state.reserved_child_model_calls
        /\ ChargedCalls(t) = state.provider_calls_started + t.reserved_child_model_calls
    BY <1>7, <2>1, <2>2 DEF ChargedCalls, MaxOf
  <2>4. WithinCalls(t)
    BY <1>7, <2>1, <2>3 DEF WithinCalls
  <2>5. Len(calls) + t.reserved_child_model_calls <= state.plan.model_call_limit
    BY <1>7, <2>1, <2>3, <2>4 DEF WithinCalls
  <2>6. QED
    BY <1>2, <1>7, <1>11, <2>1, <2>5 DEF CallsCharged
<1>15. CallsFit'
  BY <1>2 DEF EffectSound, CallsFit, CallFits
<1>16. TokensCharged'
  <2>1. SUFFICES ASSUME state.plan.token_limit # Unset
                 PROVE  /\ \A i \in DOMAIN calls : calls[i].prompt \in Nat
                        /\ WorstCaseTokens <= state.plan.token_limit
                        /\ WorstCaseTokens <= t.reserved_tokens
    <3>1. WorstCaseTokens' = WorstCaseTokens
      BY <1>2 DEF WorstCaseTokens
    <3>2. QED
      BY <1>2, <1>7, <1>11, <2>1, <3>1 DEF TokensCharged
  <2>2. /\ \A i \in DOMAIN calls : calls[i].prompt \in Nat
        /\ WorstCaseTokens <= state.plan.token_limit
        /\ WorstCaseTokens <= state.reserved_tokens
    BY <1>2, <2>1 DEF EffectSound, TokensCharged
  <2>3. WorstCaseTokens \in Nat /\ t.reserved_tokens \in Nat /\ state.reserved_tokens \in Nat
    BY <1>3, <1>7, <2>2, WorstCaseType DEF AgentRunState
  <2>4. WorstCaseTokens <= t.reserved_tokens
    BY <1>7, <2>2, <2>3
  <2>5. QED
    BY <2>2, <2>4
<1>17. CallsInRounds' /\ CalledIsRecorded'
  BY <1>2, <1>7, <1>11 DEF EffectSound, CallsInRounds, CalledIsRecorded
<1>18. ShownInRounds' /\ OutputShownOnce'
  BY <1>2, <1>11 DEF EffectSound, ShownInRounds, OutputShownOnce
<1>19. PendingLedger'
  BY <1>10, <1>11 DEF PendingLedger
<1>20. LedgerTrue'
  <2>1. Len(calls') = state'.provider_calls_started
    BY <1>2, <1>7 DEF EffectSound, CallsCharged
  <2>2. Len(ledger'.model_calls) = Len(ledger.model_calls) + Len(child.model_calls)
    BY <1>4, <1>8, <1>9 DEF Usage!RunUsage
  <2>3. /\ state.usage.calls = Len(ledger.model_calls)
        /\ state.usage.complete = ledger.complete
        /\ share.calls = Len(child.model_calls) /\ share.complete = child.complete
    BY <1>8 DEF share
  <2>4. t.usage = [calls |-> Len(ledger'.model_calls), complete |-> ledger'.complete]
    BY <1>7, <1>9, <2>2, <2>3, Zenon DEF MergeChild
  <2>5. QED
    BY <1>2, <1>9, <2>1, <2>4, Zenon DEF LedgerTrue
<1>21. QED
  BY <1>12, <1>13, <1>14, <1>15, <1>16, <1>17, <1>18, <1>19, <1>20 DEF EffectSound

-----------------------------------------------------------------------------
(* The invariant is inductive, and what follows from it.                   *)

LEMMA NextSound ==
    ASSUME EffectSound, [Next]_vars
    PROVE  EffectSound'
<1>1. CASE RequestCancel \/ StreamUsage \/ SeeCancel \/ TimeOut \/ UNCHANGED vars
  BY <1>1, WaitingSteps, WaitsSound
<1>2. CASE \/ StopCancelled \/ StopExhausted \/ StopIdle
           \/ Refuse \/ Exhaust
           \/ AnswerInvalid \/ AnswerTooLate
           \/ Leave \/ StopBackoff
  BY <1>2, StoppingSteps, StopsSound
<1>3. CASE RunTool
  BY <1>3, RunToolSound
<1>4. CASE Admit
  BY <1>4, AdmitSound
<1>5. CASE CallAdapter
  BY <1>5, CallSound
<1>6. CASE Chunk
  BY <1>6, ChunkSound
<1>7. CASE Answer
  BY <1>7, AnswerSound
<1>8. CASE AdapterFails \/ StreamBreaks
  BY <1>8, FailureSound
<1>9. CASE RetryNow
  BY <1>9, RetrySound
<1>10. CASE Rest
  BY <1>1, <1>10 DEF Rest
<1>11. QED
  BY <1>1, <1>2, <1>3, <1>4, <1>5, <1>6, <1>7, <1>8, <1>9, <1>10 DEF Next

THEOREM EffectStaysSound == Spec => []EffectSound
<1>1. Init => EffectSound
  BY InitSound
<1>2. EffectSound /\ [Next]_vars => EffectSound'
  BY NextSound
<1>3. QED
  BY <1>1, <1>2, PTL DEF Spec

\* Whatever the adapters answer, and whenever a cancellation or the deadline
\* cuts in, the run's state stays an AgentRunState, its ledger a RunUsage and
\* the attempt within the plan's provider_max_attempts (execute_provider).
THEOREM EffectIsTyped == Spec => []TypeOK
<1>1. EffectSound => TypeOK
  BY DEF EffectSound
<1>2. QED
  BY <1>1, EffectStaysSound, PTL

\* For every route, plan and behaviour of the adapters: once an attempt of a
\* provider effect has shown output, no later attempt of that effect calls an
\* adapter (visible_delta in execute_provider).
THEOREM NoAnswerBegunTwice == Spec => []OutputShownOnce
<1>1. EffectSound => OutputShownOnce
  BY DEF EffectSound
<1>2. QED
  BY <1>1, EffectStaysSound, PTL

\* For every route of one or two adapters and every plan: each adapter that is
\* called offers what the request needs and can hold its own rendering of it,
\* and all the calls made, those of failed, abandoned and cancelled attempts
\* included, stay within the model-call limit and, in the worst case, within
\* the hard token limit (validate_context, FallbackProvider, and the
\* allowed_attempts of execute_provider).
THEOREM EveryCallIsAdmitted == Spec => []CallsAdmitted
<1>1. EffectSound => CallsAdmitted
  BY SoundAdmits
<1>2. QED
  BY <1>1, EffectStaysSound, PTL

\* Whatever the adapters and the child runs report, in any order: the ledger
\* has an entry for every committed attempt, its known totals are sums that
\* leave no measured call out, a ledger called complete leaves nothing out,
\* and the run state's summary agrees with it (RunUsage::add_call, merge_child,
\* record_provider_attempts).
THEOREM LedgerTellsTheTruth == Spec => []LedgerTrue
<1>1. EffectSound => LedgerTrue
  BY DEF EffectSound
<1>2. QED
  BY <1>1, EffectStaysSound, PTL

\* What a run's ledger accounts for, its own list of calls shows as well.
LEMMA LedgerShowsItself ==
    ASSUME NEW l \in Usage!RunUsage, NEW t \in Seq(Report), AccountsFor(l, t)
    PROVE  AccountsFor(l, l.model_calls)
<1> DEFINE mc == l.model_calls
<1>1. DOMAIN t = 1..Len(t) /\ Len(t) \in Nat /\ \A i \in DOMAIN t : t[i] \in Report
  OBVIOUS
<1>2. mc = [i \in DOMAIN t |-> Entry(t[i])] /\ \A f \in Field : CountsFor(l, t, f)
  BY AccountsIs
<1> HIDE DEF mc
<1>3. DOMAIN mc = DOMAIN t /\ \A i \in DOMAIN t : mc[i] = Entry(t[i])
  BY <1>2
<1>4. \A x \in Report : Entry(Entry(x)) = Entry(x)
  BY DEF Entry
<1>5. mc = [i \in DOMAIN mc |-> Entry(mc[i])]
  <2>1. \A i \in DOMAIN mc : Entry(mc[i]) = mc[i]
    BY <1>1, <1>3, <1>4
  <2>2. QED
    BY <1>2, <2>1, <1>3
<1>6. ASSUME NEW f \in Field, NEW x \in Report
      PROVE  Measures(Entry(x), f) <=> Measures(x, f)
  BY DEF Measures, Entry, Usage!UnknownUsage
<1>7. ASSUME NEW f \in Field
      PROVE  CountsFor(l, mc, f)
  <2>1. CountsFor(l, t, f)
    BY <1>2
  <2>2. \A i \in DOMAIN t : Measures(mc[i], f) <=> Measures(t[i], f)
    BY <1>1, <1>3, <1>6
  <2>3. \A i \in DOMAIN t : t[i] \in Unmeasured => mc[i] \in Unmeasured
    BY <1>3 DEF Unmeasured, Entry
  <2>4. Total(f, mc) = Total(f, t)
    <3>1. Known(f, mc) = Known(f, t)
      BY <1>3, <2>2, KnownIs
    <3>2. \A i \in Known(f, t) : mc[i][f] = t[i][f]
      BY <1>3, KnownIs DEF Entry, Measures
    <3>3. [i \in Known(f, mc) |-> mc[i][f]] = [i \in Known(f, t) |-> t[i][f]]
      BY <3>1, <3>2
    <3>4. QED
      BY <3>1, <3>3, Zenon DEF Total
  <2>5. mc # << >> => t # << >>
    BY <1>3
  <2>6. QED
    BY <1>3, <2>1, <2>2, <2>3, <2>4, <2>5 DEF CountsFor
<1>8. AccountsFor(l, mc)
  BY <1>5, <1>7, AccountsIs DEF mc
<1>9. QED
  BY <1>8 DEF mc

\* What is assumed of the ledgers of the children is what a run keeps of its
\* own, so it holds at every depth of a delegation: a run hands back a ledger
\* that accounts for the calls it lists (RunUsage::merge_child, called by
\* commit_tool_result_with_usage).
THEOREM LedgerMayBeMerged == Spec => [](/\ ledger \in Usage!RunUsage
                                        /\ AccountsFor(ledger, ledger.model_calls))
<1>1. EffectSound => ledger \in Usage!RunUsage /\ AccountsFor(ledger, ledger.model_calls)
  BY LedgerShowsItself DEF EffectSound, TypeOK, PendingLedger, LedgerTrue
<1>2. QED
  BY <1>1, EffectStaysSound, PTL
=============================================================================
