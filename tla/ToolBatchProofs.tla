--------------------------- MODULE ToolBatchProofs ---------------------------
(***************************************************************************)
(* Proofs about ToolBatch for every catalog, policy answer, batch size,    *)
(* number of turns and retry bound.                                        *)
(***************************************************************************)
EXTENDS ToolBatch, TLAPS, SequenceTheorems, FiniteSetTheorems

-----------------------------------------------------------------------------
(* The inductive invariant. *)

BatchPhases == {"idle", "open", "edit", "hooks", "running", "answering", "aborted"}
ExecPhases == {"waiting", "running", "backoff", "ended", "dropped"}
Outcome == AttemptOutcome \cup {"rejected", "interrupted"}
Exec == [phase : ExecPhases, attempts : Nat, outcome : Outcome]
ToolResult == [order : Orders, outcome : Outcome]
SomeInput == Inputs \cup {NoInput}

TypeInv ==
  /\ pc \in BatchPhases
  /\ turn \in Nat
  /\ calls \in Seq(ToolCall) /\ Len(calls) <= MaxCalls
  /\ validated \subseteq Orders
  /\ confirm \in Seq(Orders)
  /\ edit \in SomeInput /\ (pc = "edit" => edit \in Inputs)
  /\ input \in [Orders -> SomeInput]
  /\ \A o \in Calls : input[o] \in Inputs
  /\ planned \in Seq(Orders)
  /\ parallel \subseteq Orders
  /\ active \subseteq Orders
  /\ exec \in [Orders -> Exec]
  /\ results \in Seq(ToolResult)
  /\ answered \in Nat
  /\ grants \subseteq SessionGrant
  /\ cancelled \in BOOLEAN
  /\ verdict \in [Orders -> [input : SomeInput, status : PolicyStatus]]
  /\ consent \in [Orders -> SomeInput]
  /\ asked \subseteq Orders
  /\ forever \subseteq Pairs

\* Calls that have a result, and that they have one each.
OrdersOf(rs) == {r.order : r \in Range(rs)}
OncePerOrder(rs) == \A i, j \in DOMAIN rs : rs[i].order = rs[j].order => i = j
Done == OrdersOf(results)

\* Where a call is.
Confirming == Range(confirm)
Planned == Range(planned)
Pending == validated \cup Confirming \cup Planned \cup parallel \cup active

\* Every call of the batch is in one place, once.
PlaceInv ==
  /\ Calls = Pending \cup Done
  /\ Pending \cap Done = {}
  /\ validated \cap (Confirming \cup Planned \cup parallel \cup active) = {}
  /\ Confirming \cap (Planned \cup parallel \cup active) = {}
  /\ Planned \cap (parallel \cup active) = {}
  /\ parallel \cap active = {}
  /\ IsInjective(confirm)
  /\ IsInjective(planned)
  /\ OncePerOrder(results)

\* Nothing begins before every call is judged and every question answered.
PhaseInv ==
  /\ pc \in {"idle", "answering"} =>
       validated = {} /\ confirm = <<>> /\ planned = <<>> /\ parallel = {} /\ active = {}
  /\ pc \in {"hooks", "running"} => validated = {} /\ confirm = <<>>
  /\ pc = "edit" => validated = {} /\ confirm # <<>>
  /\ pc = "hooks" => planned # <<>>
  /\ pc = "hooks" /\ ~CanRunInParallel(Head(planned)) => parallel = {}
  /\ active # {} => pc \in {"running", "aborted"}
  /\ validated # {} => asked = {}
  /\ validated # {} \/ confirm # <<>> =>
       parallel = {} /\ active = {} /\ \A o \in Orders : ~Ran(o)

\* What is planned, held back, executing or over was admitted with its input.
Cleared(o) ==
  /\ verdict[o].input = input[o]
  /\ \/ verdict[o].status = "Allowed"
     \/ verdict[o].status = "Confirm" /\ (consent[o] = input[o] \/ Pair(o) \in forever)

ClearedInv ==
  /\ \A o \in Planned \cup parallel \cup active : Cleared(o)
  /\ \A o \in Calls : Ran(o) => Cleared(o)
  /\ \A o \in Confirming : verdict[o] = [input |-> input[o], status |-> "Confirm"]
  /\ \A g \in grants : <<g.tool, g.input>> \in forever

\* What executes, and what its result says.
ExecInv ==
  /\ \A o \in Pending : Valid(calls, o)
  /\ \A o \in Orders : Ran(o) => o \in active \cup Done /\ Valid(calls, o)
  /\ \A o \in active : Ran(o)
  /\ \A o \in Orders : exec[o].phase \in {"running", "backoff"} => pc = "running" /\ o \in active
  /\ \A o \in Orders : exec[o].phase = "ended" => exec[o].outcome # "rejected"
  /\ \A o \in Calls : Ran(o) =>
       exec[o].attempts = 1 \/ (calls[o].tool \in Retryable /\ exec[o].attempts <= MaxRetries + 1)
  /\ \A o \in Calls : exec[o].phase = "backoff" =>
       calls[o].tool \in Retryable /\ exec[o].attempts <= MaxRetries
  /\ \A r \in Range(results) : (r.outcome = "rejected") = ~Ran(r.order)

\* What runs together, and what is planned before what.
OrderInv ==
  /\ \A o \in parallel : CanRunInParallel(o)
  /\ \A i, j \in active : i # j => CanRunInParallel(i)
  /\ \A i, j \in DOMAIN planned : i < j => Precedes(planned[i], planned[j])
  /\ \A i, j \in DOMAIN confirm : i < j => confirm[i] < confirm[j]
  /\ \A i \in Planned \cup Confirming, j \in validated : i < j
  /\ Confirming \cap asked = {}
  /\ \A i \in Planned \cap asked, j \in Confirming : i < j
  /\ \A i \in parallel, j \in Planned : Precedes(i, j)
  /\ \A i, j \in Calls :
       Ran(j) /\ Precedes(i, j) /\ {Pair(i), Pair(j)} \cap Exclusive # {} => i \in Done

BatchInv ==
  /\ TypeInv /\ PlaceInv /\ PhaseInv /\ ClearedInv /\ ExecInv /\ OrderInv
  /\ EveryCallAnswered

-----------------------------------------------------------------------------
(* The sequences of a batch. *)

\* A function on 1..n is a sequence.
LEMMA FunctionIsSeq ==
  ASSUME NEW T, NEW n \in Nat, NEW s \in [1..n -> T]
  PROVE  s \in Seq(T) /\ Len(s) = n
<1>1. s \in Seq(T)
  <2>1. Seq(T) = UNION {[1..m -> T] : m \in Nat}
    BY SeqDef
  <2> QED
    BY <2>1, Zenon
<1>2. Len(s) \in Nat /\ DOMAIN s = 1..Len(s)
  BY <1>1, LenProperties
<1>3. 1..Len(s) = 1..n
  BY <1>2
<1> QED
  BY <1>1, <1>2, <1>3

\* A sequence without repetitions that loses its head, or gains an element at its end.
LEMMA TailOf ==
  ASSUME NEW S, NEW s \in Seq(S), s # <<>>, IsInjective(s)
  PROVE  /\ Head(s) = s[1] /\ Head(s) \in S /\ Head(s) \in Range(s)
         /\ Tail(s) \in Seq(S)
         /\ IsInjective(Tail(s))
         /\ Range(Tail(s)) = Range(s) \ {Head(s)}
         /\ Len(Tail(s)) = Len(s) - 1
         /\ DOMAIN Tail(s) = 1..(Len(s) - 1)
         /\ \A i \in DOMAIN Tail(s) : Tail(s)[i] = s[i + 1] /\ i + 1 \in DOMAIN s
<1>1. /\ Head(s) \in S /\ Tail(s) \in Seq(S) /\ Len(Tail(s)) = Len(s) - 1
      /\ \A i \in 1..Len(Tail(s)) : Tail(s)[i] = s[i + 1]
  BY HeadTailProperties
<1>2. Len(s) \in Nat \ {0} /\ DOMAIN s = 1..Len(s)
  BY EmptySeq, LenProperties
<1>3. DOMAIN Tail(s) = 1..(Len(s) - 1)
  BY <1>1, LenProperties
<1>4. \A i \in DOMAIN Tail(s) : Tail(s)[i] = s[i + 1] /\ i + 1 \in DOMAIN s
  BY <1>1, <1>2, <1>3
<1>5. Head(s) = s[1]
  OBVIOUS
<1>6. IsInjective(Tail(s))
  BY <1>2, <1>3, <1>4 DEF IsInjective
<1>7. Range(Tail(s)) = Range(s) \ {s[1]}
  <2>1. ASSUME NEW x \in Range(Tail(s)) PROVE x \in Range(s) \ {s[1]}
    BY <1>2, <1>3, <1>4 DEF Range, IsInjective
  <2>2. ASSUME NEW x \in Range(s), x # s[1] PROVE x \in Range(Tail(s))
    <3>1. PICK i \in DOMAIN s : x = s[i]
      BY DEF Range
    <3>2. i - 1 \in DOMAIN Tail(s) /\ (i - 1) + 1 = i
      BY <1>2, <1>3, <2>2, <3>1
    <3> QED
      BY <1>4, <3>1, <3>2 DEF Range
  <2> QED
    BY <2>1, <2>2
<1>8. Head(s) \in Range(s)
  BY <1>2, <1>5 DEF Range
<1> QED
  BY <1>1, <1>3, <1>4, <1>5, <1>6, <1>7, <1>8

LEMMA AppendOf ==
  ASSUME NEW S, NEW s \in Seq(S), NEW e \in S
  PROVE  /\ Append(s, e) \in Seq(S)
         /\ Range(Append(s, e)) = Range(s) \cup {e}
         /\ DOMAIN Append(s, e) = DOMAIN s \cup {Len(s) + 1}
         /\ \A i \in DOMAIN s : Append(s, e)[i] = s[i] /\ i < Len(s) + 1
         /\ Append(s, e)[Len(s) + 1] = e
         /\ IsInjective(s) /\ e \notin Range(s) => IsInjective(Append(s, e))
         /\ \A i, j \in DOMAIN Append(s, e) : i < j =>
              /\ i \in DOMAIN s /\ Append(s, e)[i] = s[i]
              /\ \/ j \in DOMAIN s /\ Append(s, e)[j] = s[j]
                 \/ Append(s, e)[j] = e
<1>1. /\ Append(s, e) \in Seq(S)
      /\ Len(Append(s, e)) = Len(s) + 1
      /\ Append(s, e)[Len(s) + 1] = e
      /\ \A i \in 1..Len(s) : Append(s, e)[i] = s[i]
  OBVIOUS
<1>2. Len(s) \in Nat /\ DOMAIN s = 1..Len(s)
  BY LenProperties
<1>3. DOMAIN Append(s, e) = DOMAIN s \cup {Len(s) + 1}
  BY <1>1, <1>2, LenProperties
<1>4. Range(Append(s, e)) = Range(s) \cup {e}
  BY <1>1, <1>2, <1>3 DEF Range
<1>5. IsInjective(s) /\ e \notin Range(s) => IsInjective(Append(s, e))
  BY <1>1, <1>2, <1>3 DEF IsInjective, Range
<1>6. \A i, j \in DOMAIN Append(s, e) : i < j =>
        /\ i \in DOMAIN s /\ Append(s, e)[i] = s[i]
        /\ (j \in DOMAIN s /\ Append(s, e)[j] = s[j]) \/ Append(s, e)[j] = e
  BY <1>1, <1>2, <1>3
<1> QED
  BY <1>1, <1>2, <1>3, <1>4, <1>5, <1>6

\* SetToSeq enumerates a finite set.
LEMMA SetToSeqOf ==
  ASSUME NEW S, IsFiniteSet(S)
  PROVE  /\ Cardinality(S) \in Nat
         /\ SetToSeq(S) \in [1..Cardinality(S) -> S]
         /\ IsInjective(SetToSeq(S))
         /\ Range(SetToSeq(S)) = S
<1> DEFINE n == Cardinality(S)
<1>1. n \in Nat /\ ExistsBijection(1..n, S)
  BY FS_CardinalityType
<1>2. \E f \in [1..n -> S] : IsInjective(f)
  BY <1>1 DEF ExistsBijection, Bijection, Injection
<1>3. SetToSeq(S) \in [1..n -> S] /\ IsInjective(SetToSeq(S))
  BY <1>2 DEF SetToSeq
<1>4. SetToSeq(S) \in Injection(1..n, S)
  BY <1>3 DEF Injection
<1>5. Cardinality(1..n) = n
  BY <1>1, FS_Interval
<1>6. SetToSeq(S) \in Surjection(1..n, S)
  BY <1>4, <1>5, FS_Injection
<1> QED
  BY <1>1, <1>3, <1>6 DEF Surjection, Range

\* The outcomes of some calls are one result for each.
LEMMA OutcomesOf ==
  ASSUME NEW os \in SUBSET Orders, NEW ends \in [Orders -> Exec]
  PROVE  LET rs == Outcomes(os, ends) IN
         /\ rs \in Seq(ToolResult)
         /\ OrdersOf(rs) = os
         /\ OncePerOrder(rs)
         /\ \A r \in Range(rs) : r.outcome = ends[r.order].outcome
<1> DEFINE s == SetToSeq(os)
           rs == Outcomes(os, ends)
<1>1. IsFiniteSet(os)
  <2>1. IsFiniteSet(Orders)
    BY ToolBatchAssumption, FS_Interval DEF Orders
  <2> QED
    BY <2>1, FS_Subset
<1>2. /\ Cardinality(os) \in Nat /\ s \in [1..Cardinality(os) -> os]
      /\ IsInjective(s) /\ Range(s) = os
  BY <1>1, SetToSeqOf
<1>3. /\ DOMAIN rs = 1..Cardinality(os)
      /\ \A k \in DOMAIN rs : rs[k] = [order |-> s[k], outcome |-> ends[s[k]].outcome]
  BY <1>2 DEF Outcomes, Result
<1>4. \A k \in DOMAIN rs : /\ rs[k] \in ToolResult
                           /\ rs[k].order = s[k]
                           /\ rs[k].outcome = ends[rs[k].order].outcome
  BY <1>2, <1>3 DEF Exec, ToolResult
<1>5. rs \in [1..Cardinality(os) -> ToolResult]
  BY <1>3, <1>4 DEF Outcomes
<1>6. rs \in Seq(ToolResult)
  <2> HIDE DEF rs
  <2> QED
    BY <1>2, <1>5, FunctionIsSeq
<1>7. OrdersOf(rs) = os
  BY <1>2, <1>3, <1>4 DEF Range, OrdersOf
<1>8. OncePerOrder(rs)
  BY <1>2, <1>3, <1>4 DEF IsInjective, OncePerOrder
<1>9. \A r \in Range(rs) : r.outcome = ends[r.order].outcome
  BY <1>4 DEF Range
<1> QED
  BY <1>6, <1>7, <1>8, <1>9

\* Results that are pushed behind others.
LEMMA PushOf ==
  ASSUME NEW rs \in Seq(ToolResult), NEW ts \in Seq(ToolResult)
  PROVE  /\ rs \o ts \in Seq(ToolResult)
         /\ Range(rs \o ts) = Range(rs) \cup Range(ts)
         /\ OrdersOf(rs \o ts) = OrdersOf(rs) \cup OrdersOf(ts)
         /\ OncePerOrder(rs) /\ OncePerOrder(ts) /\ OrdersOf(rs) \cap OrdersOf(ts) = {}
              => OncePerOrder(rs \o ts)
<1> DEFINE us == rs \o ts
<1>1. /\ us \in Seq(ToolResult) /\ Len(us) = Len(rs) + Len(ts)
      /\ \A i \in 1..(Len(rs) + Len(ts)) :
           us[i] = IF i <= Len(rs) THEN rs[i] ELSE ts[i - Len(rs)]
  BY ConcatProperties
<1>2. /\ Len(rs) \in Nat /\ DOMAIN rs = 1..Len(rs)
      /\ Len(ts) \in Nat /\ DOMAIN ts = 1..Len(ts)
      /\ DOMAIN us = 1..(Len(rs) + Len(ts))
  BY <1>1, LenProperties
<1> HIDE DEF us
<1>3. \A i \in DOMAIN us : \/ i \in DOMAIN rs /\ us[i] = rs[i]
                           \/ i - Len(rs) \in DOMAIN ts /\ us[i] = ts[i - Len(rs)]
  BY <1>1, <1>2
<1>4. \A i \in DOMAIN rs : i \in DOMAIN us /\ us[i] = rs[i]
  BY <1>1, <1>2
<1>5. \A i \in DOMAIN ts : Len(rs) + i \in DOMAIN us /\ us[Len(rs) + i] = ts[i]
  BY <1>1, <1>2
<1>6. Range(us) = Range(rs) \cup Range(ts)
  <2>1. Range(us) \subseteq Range(rs) \cup Range(ts)
    BY <1>3 DEF Range
  <2>2. Range(rs) \subseteq Range(us)
    BY <1>4 DEF Range
  <2>3. Range(ts) \subseteq Range(us)
    BY <1>5 DEF Range
  <2> QED
    BY <2>1, <2>2, <2>3
<1>7. OrdersOf(us) = OrdersOf(rs) \cup OrdersOf(ts)
  BY <1>6 DEF OrdersOf
<1>8. ASSUME OncePerOrder(rs), OncePerOrder(ts), OrdersOf(rs) \cap OrdersOf(ts) = {}
      PROVE  OncePerOrder(us)
  <2> SUFFICES ASSUME NEW i \in DOMAIN us, NEW j \in DOMAIN us, us[i].order = us[j].order
               PROVE  i = j
    BY DEF OncePerOrder
  <2>1. \A m \in DOMAIN rs, n \in DOMAIN ts : rs[m].order # ts[n].order
    BY <1>8 DEF OrdersOf, Range
  <2>2. i \in DOMAIN rs => j \in DOMAIN rs
    BY <1>2, <1>3, <2>1
  <2>3. j \in DOMAIN rs => i \in DOMAIN rs
    BY <1>2, <1>3, <2>1
  <2>4. CASE i \in DOMAIN rs /\ j \in DOMAIN rs
    BY <1>4, <1>8, <2>4 DEF OncePerOrder
  <2>5. CASE i \notin DOMAIN rs /\ j \notin DOMAIN rs
    <3>1. /\ i - Len(rs) \in DOMAIN ts /\ us[i] = ts[i - Len(rs)]
          /\ j - Len(rs) \in DOMAIN ts /\ us[j] = ts[j - Len(rs)]
      BY <1>3, <2>5
    <3>2. i - Len(rs) = j - Len(rs)
      BY <1>8, <3>1 DEF OncePerOrder
    <3> QED
      BY <1>2, <3>2
  <2> QED
    BY <2>2, <2>3, <2>4, <2>5
<1> QED
  BY <1>1, <1>6, <1>7, <1>8 DEF us

LEMMA PushOne ==
  ASSUME NEW rs \in Seq(ToolResult), NEW r \in ToolResult
  PROVE  /\ Append(rs, r) \in Seq(ToolResult)
         /\ Range(Append(rs, r)) = Range(rs) \cup {r}
         /\ OrdersOf(Append(rs, r)) = OrdersOf(rs) \cup {r.order}
         /\ OncePerOrder(rs) /\ r.order \notin OrdersOf(rs) => OncePerOrder(Append(rs, r))
<1>1. Append(rs, r) = rs \o <<r>> /\ <<r>> \in Seq(ToolResult)
  OBVIOUS
<1>2. Range(<<r>>) = {r}
  BY DEF Range
<1>3. OrdersOf(<<r>>) = {r.order}
  BY <1>2 DEF OrdersOf
<1>4. OncePerOrder(<<r>>)
  BY DEF OncePerOrder
<1>5. /\ rs \o <<r>> \in Seq(ToolResult)
      /\ Range(rs \o <<r>>) = Range(rs) \cup Range(<<r>>)
      /\ OrdersOf(rs \o <<r>>) = OrdersOf(rs) \cup OrdersOf(<<r>>)
      /\ OncePerOrder(rs) /\ OncePerOrder(<<r>>) /\ OrdersOf(rs) \cap OrdersOf(<<r>>) = {}
           => OncePerOrder(rs \o <<r>>)
  BY <1>1, PushOf
<1> QED
  BY <1>1, <1>2, <1>3, <1>4, <1>5

\* How many numbers an interval has, and that bijections preserve it.
LEMMA IntervalOf ==
  ASSUME NEW n \in Nat
  PROVE  IsFiniteSet(1..n) /\ Cardinality(1..n) = n
<1>1. Cardinality(1..n) = IF 1 > n THEN 0 ELSE n - 1 + 1
  BY FS_Interval
<1>2. IsFiniteSet(1..n)
  BY FS_Interval
<1> QED
  BY <1>1, <1>2

LEMMA SameLength ==
  ASSUME NEW m \in Nat, NEW n \in Nat, NEW f \in Bijection(1..m, 1..n)
  PROVE  m = n
<1>1. IsFiniteSet(1..m) /\ Cardinality(1..m) = m /\ Cardinality(1..n) = n
  BY IntervalOf
<1>2. Cardinality(1..n) = Cardinality(1..m)
  BY <1>1, FS_Bijection DEF ExistsBijection
<1> QED
  BY <1>1, <1>2

\* In a permutation of 1 to n, f[k] elements are not greater than f[k].
NotAfter(f, n, k) == {i \in 1..n : f[i] < f[k] \/ (f[i] = f[k] /\ i <= k)}

LEMMA PlaceOf ==
  ASSUME NEW n \in Nat, NEW f \in Bijection(1..n, 1..n), NEW k \in 1..n
  PROVE  Cardinality(NotAfter(f, n, k)) = f[k]
<1> DEFINE B == {i \in 1..n : f[i] <= f[k]}
           g == [i \in B |-> f[i]]
<1>1. /\ f \in [1..n -> 1..n]
      /\ \A i, j \in 1..n : f[i] = f[j] => i = j
      /\ \A m \in 1..n : \E i \in 1..n : f[i] = m
  BY DEF Bijection, Injection, Surjection, IsInjective
<1>2. NotAfter(f, n, k) = B
  <2>1. \A i \in 1..n : f[i] \in Nat
    BY <1>1
  <2>2. ASSUME NEW i \in 1..n
        PROVE  (f[i] < f[k] \/ (f[i] = f[k] /\ i <= k)) <=> f[i] <= f[k]
    <3>1. f[i] \in Nat /\ f[k] \in Nat /\ (f[i] = f[k] => i = k) /\ i \in Nat
      BY <1>1, <2>1
    <3> QED
      BY <3>1
  <2> QED
    BY <2>2 DEF NotAfter
<1>3. f[k] \in 1..n /\ f[k] \in Nat
  BY <1>1
<1>4. g \in [B -> 1..f[k]]
  BY <1>1
<1>5. \A i, j \in B : g[i] = g[j] => i = j
  BY <1>1
<1>6. ASSUME NEW m \in 1..f[k] PROVE \E i \in B : g[i] = m
  <2>1. m \in 1..n /\ m <= f[k]
    BY <1>3
  <2>2. PICK i \in 1..n : f[i] = m
    BY <1>1, <2>1
  <2> QED
    BY <2>1, <2>2
<1>7. g \in Bijection(B, 1..f[k])
  BY <1>4, <1>5, <1>6 DEF Bijection, Injection, Surjection, IsInjective
<1>8. IsFiniteSet(B)
  <2>1. IsFiniteSet(1..n)
    BY FS_Interval
  <2> QED
    BY <2>1, FS_Subset
<1>9. Cardinality(1..f[k]) = Cardinality(B)
  BY <1>7, <1>8, FS_Bijection DEF ExistsBijection
<1>10. Cardinality(1..f[k]) = f[k]
  BY <1>3, IntervalOf
<1> QED
  BY <1>2, <1>9, <1>10

\* Results with the orders 1 to n, one each, are sorted into their places.
LEMMA SortedOf ==
  ASSUME NEW n \in Nat, NEW rs \in Seq(ToolResult),
         OrdersOf(rs) = 1..n, OncePerOrder(rs)
  PROVE  /\ DOMAIN Sorted(rs) = 1..n /\ Sorted(rs) \in Seq(ToolResult) /\ Len(Sorted(rs)) = n
         /\ \A k \in 1..n : Sorted(rs)[k] \in Range(rs) /\ Sorted(rs)[k].order = k
         /\ Range(Sorted(rs)) = Range(rs)
<1> DEFINE f == [k \in DOMAIN rs |-> rs[k].order]
           L == Len(rs)
<1>1. L \in Nat /\ DOMAIN rs = 1..L /\ \A k \in 1..L : rs[k] \in ToolResult
  BY LenProperties
<1>2. f \in Bijection(1..L, 1..n)
  BY <1>1, SMTT(30) DEF OrdersOf, OncePerOrder, Range, Bijection, Injection, Surjection, IsInjective
<1>4. L = n
  <2> HIDE DEF f, L
  <2> QED
    BY <1>1, <1>2, SameLength
<1>5. ASSUME NEW k \in 1..n PROVE Place(rs, k) = rs[k].order
  <2>1. {i \in DOMAIN rs : rs[i].order < rs[k].order \/ (rs[i].order = rs[k].order /\ i <= k)}
          = NotAfter(f, n, k)
    BY <1>1, <1>4 DEF NotAfter
  <2>2. f \in Bijection(1..n, 1..n)
    BY <1>2, <1>4
  <2>3. f[k] = rs[k].order
    BY <1>1, <1>4
  <2> HIDE DEF f
  <2>4. Cardinality(NotAfter(f, n, k)) = f[k]
    BY <2>2, PlaceOf
  <2> QED
    BY <2>1, <2>3, <2>4 DEF Place
<1>6. ASSUME NEW k \in 1..n
      PROVE  \E i \in DOMAIN rs : Sorted(rs)[k] = rs[i] /\ rs[i].order = k
  <2>1. PICK j \in DOMAIN rs : rs[j].order = k
    BY DEF OrdersOf, Range
  <2>2. \E j2 \in DOMAIN rs : Place(rs, j2) = k
    BY <1>1, <1>4, <1>5, <2>1
  <2> DEFINE c == CHOOSE j2 \in DOMAIN rs : Place(rs, j2) = k
  <2>3. c \in DOMAIN rs /\ Place(rs, c) = k
    BY <2>2
  <2>4. Sorted(rs)[k] = rs[c]
    BY <1>1, <1>4 DEF Sorted
  <2> QED
    BY <1>1, <1>4, <1>5, <2>3, <2>4
<1>7. DOMAIN Sorted(rs) = 1..n
  BY <1>1, <1>4 DEF Sorted
<1>8. Sorted(rs) \in [1..n -> ToolResult]
  <2>1. \A k \in 1..n : Sorted(rs)[k] \in ToolResult
    BY <1>1, <1>6
  <2>2. Sorted(rs) = [k \in 1..n |-> Sorted(rs)[k]]
    BY <1>1, <1>4 DEF Sorted
  <2> QED
    BY <2>1, <2>2
<1>9. Sorted(rs) \in Seq(ToolResult) /\ Len(Sorted(rs)) = n
  BY <1>8, FunctionIsSeq
<1>10. Range(rs) \subseteq Range(Sorted(rs))
  <2> SUFFICES ASSUME NEW j \in DOMAIN rs PROVE rs[j] \in Range(Sorted(rs))
    BY DEF Range
  <2>1. rs[j].order \in 1..n
    BY DEF OrdersOf, Range
  <2>2. Sorted(rs)[rs[j].order] = rs[j]
    BY <1>6, <2>1 DEF OncePerOrder
  <2> QED
    BY <1>7, <2>1, <2>2 DEF Range
<1>11. \A k \in 1..n : Sorted(rs)[k] \in Range(rs) /\ Sorted(rs)[k].order = k
  BY <1>6 DEF Range
<1>12. Range(Sorted(rs)) \subseteq Range(rs)
  BY <1>7, <1>11 DEF Range
<1> QED
  BY <1>7, <1>9, <1>10, <1>11, <1>12

-----------------------------------------------------------------------------
(* Every step keeps the invariant. *)

USE DEF deciding, executing, ghosts, Calls, Ran, Pair

LEMMA InitBatchInv == BatchInit => BatchInv
<1> SUFFICES ASSUME BatchInit PROVE BatchInv
  OBVIOUS
<1> USE DEF BatchInit
<1>1. TypeInv
  <2>1. exec \in [Orders -> Exec]
    BY DEF NotRun, Exec, ExecPhases, Outcome
  <2>2. verdict \in [Orders -> [input : SomeInput, status : PolicyStatus]]
    BY DEF NoVerdict, SomeInput, PolicyStatus
  <2>3. input \in [Orders -> SomeInput] /\ consent \in [Orders -> SomeInput]
    BY DEF SomeInput
  <2>4. calls \in Seq(ToolCall) /\ Len(calls) <= MaxCalls /\ Calls = {}
    <3>1. Len(calls) = 0 /\ calls \in Seq(ToolCall)
      BY EmptySeq
    <3>2. DOMAIN calls = 1..0
      BY <3>1, LenProperties
    <3> QED
      BY <3>1, <3>2, ToolBatchAssumption
  <2>5. confirm \in Seq(Orders) /\ planned \in Seq(Orders) /\ results \in Seq(ToolResult)
    BY EmptySeq
  <2>6. edit \in SomeInput /\ pc \in BatchPhases /\ pc # "edit" /\ cancelled \in BOOLEAN
    BY DEF BatchPhases, SomeInput
  <2> QED
    BY <2>1, <2>2, <2>3, <2>4, <2>5, <2>6 DEF TypeInv
<1>2. Range(<<>>) = {} /\ OrdersOf(results) = {}
  BY DEF Range, OrdersOf
<1>3. PlaceInv
  BY <1>2 DEF PlaceInv, Pending, Confirming, Planned, Done, IsInjective, OncePerOrder
<1>4. PhaseInv
  BY DEF PhaseInv
<1>5. ClearedInv
  BY <1>2 DEF ClearedInv, Planned, Confirming
<1>6. ExecInv
  BY <1>2 DEF ExecInv, Pending, Confirming, Planned, NotRun
<1>7. OrderInv
  BY <1>2 DEF OrderInv, Planned, Confirming
<1> QED
  BY <1>1, <1>3, <1>4, <1>5, <1>6, <1>7 DEF BatchInv, EveryCallAnswered

\* StartBatch: every call is rejected or waits to be judged.
LEMMA StartBatchKeeps ==
  ASSUME BatchInv, NEW cs \in Batches, StartBatch(cs)
  PROVE  BatchInv'
<1> DEFINE valid == {o \in 1..Len(cs) : Valid(cs, o)}
           fresh == [o \in Orders |-> NotRun]
<1>1. cs \in Seq(ToolCall) /\ Len(cs) <= MaxCalls /\ Len(cs) \in Nat /\ DOMAIN cs = 1..Len(cs)
  <2>1. PICK n \in 1..MaxCalls : cs \in [1..n -> ToolCall]
    BY DEF Batches
  <2>2. n \in Nat /\ n <= MaxCalls
    BY <2>1, ToolBatchAssumption
  <2>3. cs \in Seq(ToolCall) /\ Len(cs) = n
    BY <2>1, <2>2, FunctionIsSeq
  <2> QED
    BY <2>2, <2>3, LenProperties
<1>2. 1..Len(cs) \subseteq Orders
  BY <1>1, ToolBatchAssumption DEF Orders
<1>3. fresh \in [Orders -> Exec]
  BY ToolBatchAssumption DEF Exec, NotRun, ExecPhases, Outcome
<1>4. /\ pc = "idle" /\ pc' = "open" /\ calls' = cs /\ validated' = valid
      /\ results' = Outcomes(1..Len(cs) \ valid, fresh)
      /\ turn' = turn + 1 /\ exec' = fresh /\ asked' = {} /\ answered' = 0
      /\ input' = [o \in Orders |-> IF o <= Len(cs) THEN cs[o].input ELSE NoInput]
      /\ verdict' = [o \in Orders |-> NoVerdict] /\ consent' = [o \in Orders |-> NoInput]
      /\ UNCHANGED <<confirm, edit, planned, parallel, active, grants, cancelled, forever>>
  BY DEF StartBatch
<1>5. /\ results' \in Seq(ToolResult)
      /\ Done' = 1..Len(cs) \ valid
      /\ OncePerOrder(results')
      /\ \A r \in Range(results') : r.outcome = fresh[r.order].outcome
  <2> HIDE DEF valid, fresh
  <2> QED
    BY <1>2, <1>3, <1>4, OutcomesOf DEF Done
<1>6. /\ confirm' = <<>> /\ planned' = <<>> /\ parallel' = {} /\ active' = {}
      /\ Confirming' = {} /\ Planned' = {} /\ Pending' = valid
  BY <1>4 DEF BatchInv, PhaseInv, Confirming, Planned, Pending, Range
<1>7. \A o \in Orders : exec'[o] = NotRun /\ ~Ran(o)'
  BY <1>4 DEF NotRun
<1>8. TypeInv'
  <2> HIDE DEF valid, fresh
  <2>1. \A o \in 1..Len(cs) : cs[o] \in ToolCall
    BY <1>1, ElementOfSeq
  <2>2. \A o \in 1..Len(cs) : cs[o].input \in Inputs
    BY <2>1 DEF ToolCall
  <2>3. \A o \in Orders : o \in Nat /\ 1 <= o
    BY ToolBatchAssumption DEF Orders
  <2>4. \A o \in Orders : input'[o] \in SomeInput /\ (o <= Len(cs) => input'[o] \in Inputs)
    BY <1>1, <1>4, <2>2, <2>3 DEF SomeInput
  <2>5. input' \in [Orders -> SomeInput]
    BY <1>4, <2>4
  <2>6. \A o \in Calls' : input'[o] \in Inputs
    BY <1>1, <1>2, <1>4, <2>4
  <2>7. verdict' \in [Orders -> [input : SomeInput, status : PolicyStatus]]
    BY <1>4 DEF NoVerdict, SomeInput, PolicyStatus
  <2>8. consent' \in [Orders -> SomeInput]
    BY <1>4 DEF SomeInput
  <2>9. valid \subseteq Orders
    BY <1>2 DEF valid
  <2> QED
    BY <1>1, <1>3, <1>4, <1>5, <2>5, <2>6, <2>7, <2>8, <2>9
       DEF BatchInv, TypeInv, BatchPhases
<1>9. PlaceInv'
  <2>1. Calls' = 1..Len(cs)
    BY <1>1, <1>4
  <2> QED
    BY <1>4, <1>5, <1>6, <2>1 DEF PlaceInv, IsInjective
<1>10. PhaseInv'
  BY <1>4, <1>6, <1>7 DEF PhaseInv
<1>11. ClearedInv'
  <2>1. \A o \in Calls' : ~Ran(o)'
    BY <1>1, <1>2, <1>4, <1>7
  <2> QED
    BY <1>4, <1>6, <2>1 DEF BatchInv, ClearedInv
<1>12. ExecInv'
  <2>1. \A o \in Calls' : ~Ran(o)' /\ exec'[o].phase = "waiting"
    BY <1>1, <1>2, <1>4, <1>7 DEF NotRun
  <2>2. \A r \in Range(results') : r.order \in Orders
    BY <1>2, <1>5 DEF Done, OrdersOf
  <2>3. \A r \in Range(results') : r.outcome = "rejected" /\ ~Ran(r.order)'
    BY <1>5, <1>7, <2>2 DEF NotRun
  <2> QED
    BY <1>4, <1>6, <1>7, <2>1, <2>3 DEF ExecInv, NotRun
<1>13. OrderInv'
  <2>1. \A o \in Calls' : ~Ran(o)'
    BY <1>1, <1>2, <1>4, <1>7
  <2> QED
    BY <1>4, <1>6, <2>1 DEF OrderInv
<1>14. EveryCallAnswered'
  BY <1>4 DEF EveryCallAnswered
<1> QED
  BY <1>8, <1>9, <1>10, <1>11, <1>12, <1>13, <1>14 DEF BatchInv

\* What the grants of the session make of the policy's answer.
LEMMA GrantCases ==
  ASSUME ClearedInv, NEW o, NEW status \in PolicyStatus
  PROVE  /\ WithGrant(o, status) \in PolicyStatus
         /\ WithGrant(o, status) = "Denied" => status = "Denied"
         /\ WithGrant(o, status) = "Confirm" => status = "Confirm"
         /\ WithGrant(o, status) = "Allowed" =>
              status = "Allowed" \/ (status = "Confirm" /\ Pair(o) \in forever)
BY DEF WithGrant, Covers, ClearedInv, PolicyStatus

LEMMA OrdersAreNumbers == \A o \in Orders : o \in Nat
BY ToolBatchAssumption DEF Orders

LEMMA CallsAreOrders == TypeInv => Calls \subseteq Orders
<1> SUFFICES ASSUME TypeInv PROVE Calls \subseteq Orders
  OBVIOUS
<1>1. Len(calls) \in Nat /\ Calls = 1..Len(calls) /\ Len(calls) <= MaxCalls
  BY LenProperties DEF TypeInv
<1> QED
  BY <1>1, ToolBatchAssumption DEF Orders

\* EvaluatePolicy: the call is planned, waits for the user, or is rejected.
LEMMA EvaluatePolicyKeeps ==
  ASSUME BatchInv, NEW o \in Orders, NEW status \in PolicyStatus, EvaluatePolicy(o, status)
  PROVE  BatchInv'
<1> DEFINE final == WithGrant(o, status)
           rejection == Result(o, "rejected")
<1> USE DEF BatchInv
<1>1. /\ pc = "open" /\ o \in validated /\ \A k \in validated : o <= k
      /\ validated' = validated \ {o}
      /\ verdict' = [verdict EXCEPT ![o] = [input |-> input[o], status |-> status]]
      /\ planned' = IF final = "Allowed" THEN Append(planned, o) ELSE planned
      /\ confirm' = IF final = "Confirm" THEN Append(confirm, o) ELSE confirm
      /\ results' = IF final = "Denied" THEN Append(results, rejection) ELSE results
      /\ UNCHANGED <<pc, turn, calls, edit, input, parallel, active, exec, answered, grants,
                     cancelled, consent, asked, forever>>
  BY DEF EvaluatePolicy, Judging
<1>2. /\ asked = {} /\ parallel = {} /\ active = {}
      /\ \A k \in Orders : ~Ran(k)
  BY <1>1 DEF PhaseInv
<1>3. o \notin Confirming /\ o \notin Planned /\ o \notin Done
  BY <1>1 DEF PlaceInv, Pending
<1>4. rejection \in ToolResult /\ rejection.order = o
  BY DEF Result, ToolResult, Outcome
<1>5. /\ final \in PolicyStatus
      /\ final = "Confirm" => status = "Confirm"
      /\ final = "Allowed" =>
           status = "Allowed" \/ (status = "Confirm" /\ Pair(o) \in forever)
  BY GrantCases
<1>6. /\ planned' \in Seq(Orders) /\ IsInjective(planned')
      /\ Planned' = IF final = "Allowed" THEN Planned \cup {o} ELSE Planned
      /\ \A i, j \in DOMAIN planned' : i < j =>
           /\ i \in DOMAIN planned /\ planned'[i] = planned[i]
           /\ (j \in DOMAIN planned /\ planned'[j] = planned[j]) \/ planned'[j] = o
  <2>1. planned \in Seq(Orders) /\ IsInjective(planned)
    BY DEF TypeInv, PlaceInv
  <2>2. DOMAIN planned = 1..Len(planned)
    BY <2>1, LenProperties
  <2>3. CASE final = "Allowed"
    BY <1>1, <1>3, <2>1, <2>3, AppendOf DEF Planned
  <2>4. CASE final # "Allowed"
    BY <1>1, <2>1, <2>4 DEF Planned
  <2> QED
    BY <2>3, <2>4
<1>7. /\ confirm' \in Seq(Orders) /\ IsInjective(confirm')
      /\ Confirming' = IF final = "Confirm" THEN Confirming \cup {o} ELSE Confirming
      /\ \A i, j \in DOMAIN confirm' : i < j =>
           /\ i \in DOMAIN confirm /\ confirm'[i] = confirm[i]
           /\ (j \in DOMAIN confirm /\ confirm'[j] = confirm[j]) \/ confirm'[j] = o
  <2>1. confirm \in Seq(Orders) /\ IsInjective(confirm)
    BY DEF TypeInv, PlaceInv
  <2>2. CASE final = "Confirm"
    BY <1>1, <1>3, <2>1, <2>2, AppendOf DEF Confirming
  <2>3. CASE final # "Confirm"
    BY <1>1, <2>1, <2>3 DEF Confirming
  <2> QED
    BY <2>2, <2>3
<1>8. /\ results' \in Seq(ToolResult) /\ OncePerOrder(results')
      /\ Done' = IF final = "Denied" THEN Done \cup {o} ELSE Done
      /\ Range(results') \subseteq Range(results) \cup {rejection}
  <2>1. results \in Seq(ToolResult) /\ OncePerOrder(results)
    BY DEF TypeInv, PlaceInv
  <2> HIDE DEF rejection
  <2>2. CASE final = "Denied"
    BY <1>1, <1>3, <1>4, <2>1, <2>2, PushOne DEF Done
  <2>3. CASE final # "Denied"
    BY <1>1, <2>1, <2>3 DEF Done
  <2> QED
    BY <2>2, <2>3
<1> HIDE DEF final, rejection
<1>9. TypeInv'
  <2>1. verdict' \in [Orders -> [input : SomeInput, status : PolicyStatus]]
    BY <1>1 DEF TypeInv
  <2> QED
    BY <1>1, <1>6, <1>7, <1>8, <2>1 DEF TypeInv
<1>10. PlaceInv'
  BY <1>1, <1>2, <1>3, <1>5, <1>6, <1>7, <1>8 DEF PlaceInv, Pending, PolicyStatus
<1>11. PhaseInv'
  BY <1>1, <1>2 DEF PhaseInv
<1>12. ClearedInv'
  <2>1. \A k \in Orders : k # o => verdict'[k] = verdict[k]
    BY <1>1 DEF TypeInv
  <2>2. verdict'[o] = [input |-> input[o], status |-> status]
    BY <1>1 DEF TypeInv
  <2>3. Planned \subseteq Orders /\ Confirming \subseteq Orders
    BY DEF TypeInv, Planned, Confirming, Range
  <2>4. ASSUME NEW k \in Planned' PROVE Cleared(k)'
    <3>1. CASE k = o
      <4>1. final = "Allowed"
        BY <1>3, <1>6, <3>1
      <4> QED
        BY <1>1, <1>5, <2>2, <3>1, <4>1 DEF Cleared
    <3>2. CASE k # o
      <4>1. k \in Planned /\ verdict'[k] = verdict[k]
        BY <1>6, <2>1, <2>3, <3>2
      <4> QED
        BY <1>1, <4>1 DEF ClearedInv, Cleared
    <3> QED
      BY <3>1, <3>2
  <2>5. ASSUME NEW k \in Confirming'
        PROVE  verdict'[k] = [input |-> input'[k], status |-> "Confirm"]
    BY <1>1, <1>3, <1>5, <1>7, <2>1, <2>2, <2>3 DEF ClearedInv
  <2>6. \A k \in Calls' : ~Ran(k)'
    BY <1>1, <1>2, CallsAreOrders
  <2> QED
    BY <1>1, <1>2, <2>4, <2>5, <2>6 DEF ClearedInv
<1>13. ExecInv'
  <2>1. Pending' \subseteq Pending
    BY <1>1, <1>6, <1>7 DEF Pending
  <2>2. \A r \in Range(results') : (r.outcome = "rejected") = ~Ran(r.order)'
    BY <1>1, <1>2, <1>8 DEF ExecInv, rejection, Result
  <2> QED
    BY <1>1, <1>2, <2>1, <2>2 DEF ExecInv, Valid
<1>14. OrderInv'
  <2>1. \A i \in Planned \cup Confirming : i < o
    BY <1>1 DEF OrderInv
  <2>2. \A j \in validated' : o < j
    BY <1>1, OrdersAreNumbers DEF TypeInv
  <2>3. \A i, j \in DOMAIN planned' : i < j => Precedes(planned[i], planned[j])'
    <3>1. \A i \in DOMAIN planned : planned[i] \in Planned
      BY DEF Planned, Range
    <3> QED
      BY <1>1, <1>2, <1>6, <2>1, <3>1 DEF OrderInv, Precedes
  <2>4. \A i, j \in DOMAIN confirm' : i < j => confirm'[i] < confirm'[j]
    <3>1. \A i \in DOMAIN confirm : confirm[i] \in Confirming
      BY DEF Confirming, Range
    <3> QED
      BY <1>1, <1>7, <2>1, <3>1 DEF OrderInv
  <2>5. \A i \in (Planned \cup Confirming)', j \in validated' : i < j
    BY <1>1, <1>6, <1>7, <2>2 DEF OrderInv
  <2>6. \A k \in Calls' : ~Ran(k)'
    BY <1>1, <1>2, CallsAreOrders
  <2> QED
    BY <1>1, <1>2, <2>3, <2>4, <2>5, <2>6 DEF OrderInv
<1>15. EveryCallAnswered'
  BY <1>1 DEF EveryCallAnswered
<1> QED
  BY <1>9, <1>10, <1>11, <1>12, <1>13, <1>14, <1>15

\* The user answered, or an edited call was judged: the call leaves the queue for the
\* plan, with a leave for its input, or for the results.
LEMMA AnsweredKeeps ==
  ASSUME BatchInv, validated = {}, confirm # <<>>, pc \in {"open", "edit"},
         NEW o, o = Head(confirm),
         confirm' = Tail(confirm), asked' = asked \cup {o}, pc' = "open",
         UNCHANGED <<turn, calls, validated, parallel, active, exec, answered, cancelled>>,
         edit' \in SomeInput,
         verdict' \in [Orders -> [input : SomeInput, status : PolicyStatus]],
         input' \in [Orders -> SomeInput], input'[o] \in Inputs,
         consent' \in [Orders -> SomeInput],
         grants' \subseteq SessionGrant, forever' \subseteq Pairs,
         \A k \in Orders : k # o =>
           verdict'[k] = verdict[k] /\ input'[k] = input[k] /\ consent'[k] = consent[k],
         forever \subseteq forever',
         \A g \in grants' : <<g.tool, g.input>> \in forever',
         \/ planned' = Append(planned, o) /\ results' = results /\ Cleared(o)'
         \/ planned' = planned /\ results' = Append(results, Result(o, "rejected"))
  PROVE  BatchInv'
<1> DEFINE rejection == Result(o, "rejected")
           runs == planned' = Append(planned, o) /\ results' = results /\ Cleared(o)'
<1> USE DEF BatchInv
<1>1. /\ confirm \in Seq(Orders) /\ IsInjective(confirm)
      /\ planned \in Seq(Orders) /\ IsInjective(planned)
      /\ results \in Seq(ToolResult) /\ OncePerOrder(results)
  BY DEF TypeInv, PlaceInv
<1>2. /\ o = confirm[1] /\ o \in Orders /\ o \in Confirming
      /\ confirm' \in Seq(Orders) /\ IsInjective(confirm')
      /\ Confirming' = Confirming \ {o}
      /\ \A i \in DOMAIN confirm' : confirm'[i] = confirm[i + 1] /\ i + 1 \in DOMAIN confirm
      /\ DOMAIN confirm' = 1..(Len(confirm) - 1)
  BY <1>1, TailOf DEF Confirming
<1>3. /\ parallel = {} /\ active = {} /\ \A k \in Orders : ~Ran(k)
  BY DEF PhaseInv
<1>4. o \notin Planned /\ o \notin Done
  BY <1>2 DEF PlaceInv, Pending
<1>5. rejection \in ToolResult /\ rejection.order = o
  BY <1>2 DEF Result, ToolResult, Outcome
<1> HIDE DEF rejection
<1>6. /\ planned' \in Seq(Orders) /\ IsInjective(planned')
      /\ Planned' = IF runs THEN Planned \cup {o} ELSE Planned
      /\ \A i, j \in DOMAIN planned' : i < j =>
           /\ i \in DOMAIN planned /\ planned'[i] = planned[i]
           /\ (j \in DOMAIN planned /\ planned'[j] = planned[j]) \/ planned'[j] = o
  <2>1. DOMAIN planned = 1..Len(planned)
    BY <1>1, LenProperties
  <2>2. CASE runs
    <3>1. planned' = Append(planned, o)
      BY <2>2
    <3>2. o \in Orders /\ o \notin Range(planned)
      BY <1>2, <1>4 DEF Planned
    <3> HIDE DEF runs
    <3> QED
      BY <1>1, <2>2, <3>1, <3>2, AppendOf DEF Planned
  <2>3. CASE ~runs
    BY <1>1, <2>3 DEF Planned
  <2> QED
    BY <2>2, <2>3
<1>7. /\ results' \in Seq(ToolResult) /\ OncePerOrder(results')
      /\ Done' = IF runs THEN Done ELSE Done \cup {o}
      /\ Range(results') \subseteq Range(results) \cup {rejection}
  <2>1. CASE runs
    BY <1>1, <2>1 DEF Done
  <2>2. CASE ~runs
    <3>1. results' = Append(results, rejection)
      BY <2>2 DEF rejection
    <3> QED
      BY <1>1, <1>4, <1>5, <2>2, <3>1, PushOne DEF Done
  <2> QED
    BY <2>1, <2>2
<1>8. Calls \subseteq Orders
  BY CallsAreOrders
<1>9. runs => Cleared(o)'
  OBVIOUS
<1> HIDE DEF runs
<1>10. TypeInv'
  BY <1>2, <1>6, <1>7, <1>8 DEF TypeInv, BatchPhases
<1>11. PlaceInv'
  BY <1>2, <1>3, <1>4, <1>6, <1>7 DEF PlaceInv, Pending
<1>12. PhaseInv'
  BY <1>3 DEF PhaseInv
<1>13. ClearedInv'
  <2>1. Planned \subseteq Orders /\ Confirming \subseteq Orders
    BY <1>1 DEF Planned, Confirming, Range
  <2>2. ASSUME NEW k \in Planned' PROVE Cleared(k)'
    <3>1. CASE k = o
      BY <1>4, <1>6, <1>9, <3>1
    <3>2. CASE k # o
      <4>1. k \in Planned /\ verdict'[k] = verdict[k] /\ input'[k] = input[k]
            /\ consent'[k] = consent[k]
        BY <1>6, <2>1, <3>2
      <4> QED
        BY <4>1 DEF ClearedInv, Cleared
    <3> QED
      BY <3>1, <3>2
  <2>3. ASSUME NEW k \in Confirming'
        PROVE  verdict'[k] = [input |-> input'[k], status |-> "Confirm"]
    <3>1. k \in Confirming /\ verdict'[k] = verdict[k] /\ input'[k] = input[k]
      BY <1>2, <2>1
    <3> QED
      BY <3>1 DEF ClearedInv
  <2> QED
    BY <1>3, <1>8, <2>2, <2>3 DEF ClearedInv
<1>14. ExecInv'
  <2>1. Pending' \subseteq Pending
    BY <1>2, <1>6 DEF Pending
  <2>2. \A r \in Range(results') : (r.outcome = "rejected") = ~Ran(r.order)'
    BY <1>2, <1>3, <1>7 DEF ExecInv, rejection, Result
  <2> QED
    BY <1>3, <1>8, <2>1, <2>2 DEF ExecInv, Valid
<1>15. OrderInv'
  <2>1. \A i, j \in DOMAIN planned' : i < j => Precedes(planned[i], planned[j])'
    <3>1. \A i \in DOMAIN planned : planned[i] \in Planned
      BY DEF Planned, Range
    <3>2. \A p \in Planned : Precedes(p, o)'
      BY <1>2, <1>4 DEF OrderInv, Precedes
    <3>3. \A p, q \in Planned : Precedes(p, q) => Precedes(p, q)'
      BY <1>4 DEF Precedes
    <3> SUFFICES ASSUME NEW i \in DOMAIN planned', NEW j \in DOMAIN planned', i < j
                 PROVE  Precedes(planned[i], planned[j])'
      OBVIOUS
    <3>4. i \in DOMAIN planned /\ planned'[i] = planned[i]
      BY <1>6
    <3>5. CASE j \in DOMAIN planned /\ planned'[j] = planned[j]
      <4>1. Precedes(planned[i], planned[j])
        BY <3>4, <3>5 DEF OrderInv
      <4> QED
        BY <3>1, <3>3, <3>4, <3>5, <4>1 DEF Precedes
    <3>6. CASE planned'[j] = o
      BY <3>1, <3>2, <3>4, <3>6 DEF Precedes
    <3> QED
      BY <1>6, <3>5, <3>6
  <2>2. Len(confirm) \in Nat /\ DOMAIN confirm = 1..Len(confirm)
    BY <1>1, LenProperties
  <2>3. \A i, j \in DOMAIN confirm' : i < j => confirm'[i] < confirm'[j]
    BY <1>2, <2>2 DEF OrderInv
  <2>4. \A j \in Confirming' : o < j
    <3> SUFFICES ASSUME NEW i \in DOMAIN confirm' PROVE o < confirm'[i]
      BY DEF Confirming, Range
    <3>1. 1 \in DOMAIN confirm /\ 1 < i + 1
      BY <1>2, <2>2
    <3> QED
      BY <1>2, <3>1 DEF OrderInv
  <2>5. (Confirming \cap asked)' = {}
    BY <1>2 DEF OrderInv
  <2>6. ASSUME NEW i \in (Planned \cap asked)', NEW j \in Confirming' PROVE i < j
    BY <1>2, <1>4, <1>6, <2>4 DEF OrderInv
  <2> QED
    BY <1>3, <1>8, <2>1, <2>3, <2>5, <2>6 DEF OrderInv
<1>16. EveryCallAnswered'
  BY DEF EveryCallAnswered
<1> QED
  BY <1>10, <1>11, <1>12, <1>13, <1>14, <1>15, <1>16

\* Approve, Deny, AlwaysAllowForSession: the call the user is asked about is judged
\* with its input, and the policy wants it confirmed.
LEMMA AskedFacts ==
  ASSUME BatchInv, Asking
  PROVE  /\ validated = {} /\ confirm # <<>> /\ pc = "open"
         /\ Head(confirm) \in Orders /\ Head(confirm) \in Calls
         /\ verdict[Head(confirm)] = [input |-> input[Head(confirm)], status |-> "Confirm"]
         /\ input[Head(confirm)] \in Inputs
<1>1. validated = {} /\ confirm # <<>> /\ pc = "open"
  BY DEF Asking
<1>2. confirm \in Seq(Orders) /\ IsInjective(confirm)
  BY DEF BatchInv, TypeInv, PlaceInv
<1>3. Head(confirm) \in Orders /\ Head(confirm) \in Confirming
  BY <1>1, <1>2, TailOf DEF Confirming
<1>4. Head(confirm) \in Calls
  BY <1>3 DEF BatchInv, PlaceInv, Pending
<1>5. input[Head(confirm)] \in Inputs
  BY <1>4 DEF BatchInv, TypeInv
<1> QED
  BY <1>1, <1>3, <1>4, <1>5 DEF BatchInv, ClearedInv

LEMMA AnswerKeeps ==
  ASSUME BatchInv, Approve \/ Deny \/ AlwaysAllowForSession
  PROVE  BatchInv'
<1> PICK o : o = Head(confirm)
  OBVIOUS
<1>1. Asking /\ Answered(o)
  BY DEF Approve, Deny, AlwaysAllowForSession
<1>2. /\ validated = {} /\ confirm # <<>> /\ pc = "open"
      /\ o \in Orders /\ o \in Calls
      /\ verdict[o] = [input |-> input[o], status |-> "Confirm"] /\ input[o] \in Inputs
  BY <1>1, AskedFacts
<1>3. /\ confirm' = Tail(confirm) /\ asked' = asked \cup {o} /\ pc' = "open"
      /\ UNCHANGED <<turn, calls, validated, parallel, active, exec, answered, cancelled,
                     edit, verdict, input>>
  BY <1>1, <1>2 DEF Answered
<1>4. /\ edit' \in SomeInput
      /\ verdict' \in [Orders -> [input : SomeInput, status : PolicyStatus]]
      /\ input' \in [Orders -> SomeInput] /\ input'[o] \in Inputs
  BY <1>2, <1>3 DEF BatchInv, TypeInv
<1>5. CASE Approve
  <2>1. /\ planned' = Append(planned, o) /\ results' = results
        /\ consent' = [consent EXCEPT ![o] = input[o]] /\ UNCHANGED <<grants, forever>>
    BY <1>5 DEF Approve
  <2>2. /\ consent' \in [Orders -> SomeInput] /\ consent'[o] = input[o]
        /\ \A k \in Orders : k # o => consent'[k] = consent[k]
    BY <1>2, <2>1 DEF BatchInv, TypeInv, SomeInput
  <2>3. Cleared(o)'
    BY <1>2, <1>3, <2>2 DEF Cleared
  <2>4. /\ grants' \subseteq SessionGrant /\ forever' \subseteq Pairs
        /\ \A g \in grants' : <<g.tool, g.input>> \in forever'
    BY <2>1 DEF BatchInv, TypeInv, ClearedInv
  <2> QED
    BY <1>2, <1>3, <1>4, <2>1, <2>2, <2>3, <2>4, AnsweredKeeps
<1>6. CASE Deny
  <2>1. /\ planned' = planned /\ results' = Append(results, Result(o, "rejected"))
        /\ UNCHANGED <<grants, consent, forever>>
    BY <1>6 DEF Deny
  <2>2. /\ grants' \subseteq SessionGrant /\ forever' \subseteq Pairs
        /\ consent' \in [Orders -> SomeInput]
        /\ \A g \in grants' : <<g.tool, g.input>> \in forever'
    BY <2>1 DEF BatchInv, TypeInv, ClearedInv
  <2> QED
    BY <1>2, <1>3, <1>4, <2>1, <2>2, AnsweredKeeps
<1>7. CASE AlwaysAllowForSession
  <2> DEFINE grant == [tool |-> calls[o].tool, input |-> input[o],
                       risk_ceiling |-> Risk[Pair(o)], granted_at_turn |-> turn]
  <2>1. /\ planned' = Append(planned, o) /\ results' = results
        /\ consent' = [consent EXCEPT ![o] = input[o]]
        /\ grants' = grants \cup {grant} /\ forever' = forever \cup {Pair(o)}
    BY <1>7 DEF AlwaysAllowForSession
  <2>2. /\ consent' \in [Orders -> SomeInput] /\ consent'[o] = input[o]
        /\ \A k \in Orders : k # o => consent'[k] = consent[k]
    BY <1>2, <2>1 DEF BatchInv, TypeInv, SomeInput
  <2>3. Cleared(o)'
    BY <1>2, <1>3, <2>2 DEF Cleared
  <2>4. Pair(o) \in Pairs /\ calls[o].tool \in Tools
    <3>1. calls[o] \in ToolCall
      BY <1>2, LenProperties, ElementOfSeq DEF BatchInv, TypeInv
    <3> QED
      BY <1>2, <3>1 DEF ToolCall, Pairs
  <2>5. grant \in SessionGrant
    BY <1>2, <2>4, ToolBatchAssumption DEF SessionGrant, BatchInv, TypeInv
  <2>6. <<grant.tool, grant.input>> = Pair(o)
    OBVIOUS
  <2> HIDE DEF grant
  <2>7. grants' \subseteq SessionGrant /\ forever' \subseteq Pairs
    BY <2>1, <2>4, <2>5 DEF BatchInv, TypeInv
  <2>8. \A g \in grants' : <<g.tool, g.input>> \in forever'
    <3> SUFFICES ASSUME NEW g \in grants' PROVE <<g.tool, g.input>> \in forever'
      OBVIOUS
    <3>1. CASE g = grant
      BY <2>1, <2>6, <3>1
    <3>2. CASE g \in grants
      BY <2>1, <3>2 DEF BatchInv, ClearedInv
    <3> QED
      BY <2>1, <3>1, <3>2
  <2> QED
    BY <1>2, <1>3, <1>4, <2>1, <2>2, <2>3, <2>7, <2>8, AnsweredKeeps
<1> QED
  BY <1>5, <1>6, <1>7

\* JudgeEdit: the call runs with the new input if the policy allows that one.
LEMMA JudgeEditKeeps ==
  ASSUME BatchInv, NEW status \in PolicyStatus, JudgeEdit(status)
  PROVE  BatchInv'
<1> PICK o : o = Head(confirm)
  OBVIOUS
<1>1. /\ pc = "edit" /\ pc' = "open" /\ edit' = NoInput
      /\ confirm' = Tail(confirm) /\ asked' = asked \cup {o}
      /\ verdict' = [verdict EXCEPT ![o] = [input |-> edit, status |-> status]]
      /\ \/ /\ status = "Allowed" /\ planned' = Append(planned, o)
            /\ input' = [input EXCEPT ![o] = edit] /\ results' = results
         \/ /\ results' = Append(results, Result(o, "rejected"))
            /\ planned' = planned /\ input' = input
      /\ UNCHANGED <<turn, calls, validated, parallel, active, exec, answered, grants,
                     cancelled, consent, forever>>
  BY DEF JudgeEdit, EditRuns
<1>2. validated = {} /\ confirm # <<>>
  BY <1>1 DEF BatchInv, PhaseInv
<1>3. confirm \in Seq(Orders) /\ IsInjective(confirm)
  BY DEF BatchInv, TypeInv, PlaceInv
<1>4. o \in Orders /\ o \in Confirming
  BY <1>2, <1>3, TailOf DEF Confirming
<1>5. o \in Calls /\ input[o] \in Inputs /\ edit \in Inputs
  BY <1>1, <1>4 DEF BatchInv, PlaceInv, Pending, TypeInv
<1>6. /\ edit' \in SomeInput
      /\ verdict' \in [Orders -> [input : SomeInput, status : PolicyStatus]]
      /\ verdict'[o] = [input |-> edit, status |-> status]
      /\ input' \in [Orders -> SomeInput] /\ input'[o] \in Inputs
      /\ consent' \in [Orders -> SomeInput]
      /\ grants' \subseteq SessionGrant /\ forever' \subseteq Pairs
      /\ \A k \in Orders : k # o =>
           verdict'[k] = verdict[k] /\ input'[k] = input[k] /\ consent'[k] = consent[k]
  BY <1>1, <1>4, <1>5 DEF BatchInv, TypeInv, SomeInput
<1>7. \A g \in grants' : <<g.tool, g.input>> \in forever'
  BY <1>1 DEF BatchInv, ClearedInv
<1>8. \/ planned' = Append(planned, o) /\ results' = results /\ Cleared(o)'
      \/ planned' = planned /\ results' = Append(results, Result(o, "rejected"))
  <2>1. CASE /\ status = "Allowed" /\ planned' = Append(planned, o)
             /\ input' = [input EXCEPT ![o] = edit] /\ results' = results
    <3>1. input'[o] = edit
      BY <1>4, <2>1 DEF BatchInv, TypeInv
    <3> QED
      BY <1>6, <2>1, <3>1 DEF Cleared
  <2> QED
    BY <1>1, <2>1
<1> QED
  BY <1>1, <1>2, <1>6, <1>7, <1>8, AnsweredKeeps

\* Edit: the new input waits to be judged.
LEMMA EditKeeps ==
  ASSUME BatchInv, NEW new \in Inputs, Edit(new)
  PROVE  BatchInv'
<1>1. /\ pc = "open" /\ validated = {} /\ confirm # <<>> /\ pc' = "edit" /\ edit' = new
      /\ UNCHANGED <<turn, calls, validated, confirm, input, planned, parallel, active, exec,
                     results, answered, grants, cancelled, verdict, consent, asked, forever>>
  BY DEF Edit, Asking
<1> USE DEF BatchInv
<1>2. TypeInv'
  BY <1>1 DEF TypeInv, BatchPhases, SomeInput
<1>3. PlaceInv'
  BY <1>1 DEF PlaceInv, Pending, Planned, Confirming, Done
<1>4. PhaseInv'
  BY <1>1 DEF PhaseInv
<1>5. ClearedInv'
  BY <1>1 DEF ClearedInv, Cleared, Planned, Confirming
<1>6. ExecInv'
  BY <1>1 DEF ExecInv, Pending, Planned, Confirming, Done, Valid, PhaseInv
<1>7. OrderInv'
  BY <1>1 DEF OrderInv, Planned, Confirming, Done, Precedes, CanRunInParallel
<1> QED
  BY <1>1, <1>2, <1>3, <1>4, <1>5, <1>6, <1>7 DEF EveryCallAnswered

\* Calls that begin together leave the plan or the collected group; nothing that still
\* waits has to be over before one of them.
LEMMA BeginKeeps ==
  ASSUME BatchInv, NEW os \in SUBSET Orders, Begin(os),
         validated = {}, confirm = <<>>, active = {},
         os \subseteq Planned \cup parallel,
         parallel' = {}, Planned' \cup os = Planned \cup parallel, Planned' \cap os = {},
         planned' \in Seq(Orders), IsInjective(planned'),
         \A i, j \in DOMAIN planned' : i < j => Precedes(planned'[i], planned'[j]),
         \A i, j \in os : i # j => CanRunInParallel(i),
         \A i \in Planned \cup parallel, j \in os :
           Precedes(i, j) => {Pair(i), Pair(j)} \cap Exclusive = {},
         UNCHANGED <<turn, calls, validated, confirm, edit, input, results, answered, grants,
                     cancelled, verdict, consent, asked, forever>>
  PROVE  BatchInv'
<1> USE DEF BatchInv
<1>1. /\ pc' = "running" /\ active' = os
      /\ exec' = [o \in Orders |->
                    IF o \in os THEN [exec[o] EXCEPT !.phase = "running", !.attempts = 1]
                    ELSE exec[o]]
  BY DEF Begin
<1>2. /\ \A o \in os : o \notin Done /\ o \in Pending /\ o \in Calls
      /\ Pending' = Pending /\ Done' = Done /\ Confirming = {} /\ Confirming' = {}
  <2>1. Confirming = {} /\ Confirming' = {}
    BY DEF Confirming, Range
  <2>2. Done' = Done
    BY DEF Done
  <2>3. Pending' = Pending
    BY <1>1, <2>1 DEF Pending
  <2>4. os \subseteq Pending
    BY DEF Pending
  <2> QED
    BY <2>1, <2>2, <2>3, <2>4 DEF PlaceInv
<1>3. \A o \in Orders : exec[o] \in Exec
  BY DEF TypeInv
<1>4. \A o \in os : /\ exec'[o].phase = "running" /\ exec'[o].attempts = 1
                    /\ exec'[o] \in Exec
  BY <1>1, <1>3 DEF Exec, ExecPhases
<1>5. \A o \in Orders : o \notin os => exec'[o] = exec[o]
  BY <1>1
<1>6. \A o \in os : Ran(o)'
  BY <1>4
<1>7. \A o \in Orders : Ran(o)' => o \in os \/ (Ran(o) /\ o \in Done)
  BY <1>5 DEF ExecInv
<1>8. Calls \subseteq Orders
  BY CallsAreOrders
<1>9. TypeInv'
  <2>1. exec' \in [Orders -> Exec]
    BY <1>1, <1>3, <1>4, <1>5
  <2> QED
    BY <1>1, <2>1 DEF TypeInv, BatchPhases
<1>10. PlaceInv'
  BY <1>1, <1>2 DEF PlaceInv, Done
<1>11. PhaseInv'
  BY <1>1 DEF PhaseInv
<1>12. ClearedInv'
  <2>1. \A o : Cleared(o) => Cleared(o)'
    BY DEF Cleared
  <2>2. \A o \in Calls : Ran(o)' => Cleared(o)
    BY <1>7, <1>8 DEF ClearedInv
  <2> QED
    BY <1>1, <1>2, <2>1, <2>2 DEF ClearedInv
<1>13. ExecInv'
  <2>1. \A o \in Orders : Valid(calls, o)' = Valid(calls, o)
    BY DEF Valid
  <2>2. \A o \in Orders : Ran(o)' => o \in (active \cup Done)' /\ Valid(calls, o)
    BY <1>1, <1>2, <1>7 DEF ExecInv
  <2>3. \A o \in Orders : exec'[o].phase \in {"running", "backoff"} => o \in os
    BY <1>5 DEF ExecInv
  <2>4. \A o \in Orders : exec'[o].phase = "ended" => exec'[o].outcome # "rejected"
    BY <1>4, <1>5 DEF ExecInv
  <2>5. ASSUME NEW o \in Calls, Ran(o)'
        PROVE  exec'[o].attempts = 1
                 \/ (calls[o].tool \in Retryable /\ exec'[o].attempts <= MaxRetries + 1)
    BY <1>4, <1>5, <1>8, <2>5 DEF ExecInv
  <2>6. \A o \in Calls : exec'[o].phase # "backoff"
    BY <1>4, <1>5, <1>8, <2>3 DEF ExecInv
  <2>7. ASSUME NEW r \in Range(results) PROVE (r.outcome = "rejected") = ~Ran(r.order)'
    <3>1. r.order \in Done
      BY DEF Done, OrdersOf
    <3>2. r.order \in Orders /\ r.order \notin os
      BY <1>2, <1>8, <3>1 DEF PlaceInv
    <3> QED
      BY <1>5, <3>2 DEF ExecInv
  <2> QED
    BY <1>1, <1>2, <1>6, <2>1, <2>2, <2>3, <2>4, <2>5, <2>6, <2>7 DEF ExecInv
<1>14. OrderInv'
  <2>1. \A i, j : Precedes(i, j)' = Precedes(i, j)
    BY DEF Precedes
  <2>2. \A o : CanRunInParallel(o)' = CanRunInParallel(o)
    BY DEF CanRunInParallel
  <2>3. ASSUME NEW i \in Calls, NEW j \in Calls, Ran(j)', Precedes(i, j),
               {Pair(i), Pair(j)} \cap Exclusive # {}
        PROVE  i \in Done
    <3>1. CASE j \in os
      BY <1>2, <2>3, <3>1 DEF PlaceInv, Pending
    <3>2. CASE j \notin os
      BY <1>7, <1>8, <2>3, <3>2 DEF OrderInv
    <3> QED
      BY <3>1, <3>2
  <2>4. \A i, j \in DOMAIN planned' : i < j => Precedes(planned[i], planned[j])'
    BY <2>1 DEF Precedes
  <2> QED
    BY <1>1, <1>2, <2>1, <2>2, <2>3, <2>4 DEF OrderInv
<1> QED
  BY <1>1, <1>9, <1>10, <1>11, <1>12, <1>13, <1>14 DEF EveryCallAnswered

\* The order of the plan is strict.
LEMMA PrecedesIsStrict ==
  ASSUME NEW i \in Orders, NEW j \in Orders, Precedes(i, j)
  PROVE  ~Precedes(j, i)
BY OrdersAreNumbers DEF Precedes

\* StartGroup: the collected calls run together.
LEMMA StartGroupKeeps ==
  ASSUME BatchInv, StartGroup
  PROVE  BatchInv'
<1>1. /\ pc = "open" /\ validated = {} /\ confirm = <<>> /\ Begin(parallel) /\ parallel' = {}
      /\ UNCHANGED <<turn, calls, validated, confirm, edit, input, planned, results, answered,
                     grants, cancelled, verdict, consent, asked, forever>>
  BY DEF StartGroup, Planning
<1> USE DEF BatchInv
<1>2. /\ active = {} /\ parallel \in SUBSET Orders /\ parallel \subseteq Orders
      /\ planned \in Seq(Orders) /\ IsInjective(planned)
      /\ Planned \cap parallel = {} /\ Planned' = Planned
  BY <1>1 DEF PhaseInv, TypeInv, PlaceInv, Planned
<1>3. Planned \subseteq Orders
  BY <1>2 DEF Planned, Range
<1>4. \A i, j \in DOMAIN planned' : i < j => Precedes(planned'[i], planned'[j])
  BY <1>1 DEF OrderInv
<1>5. \A i, j \in parallel : i # j => CanRunInParallel(i)
  BY DEF OrderInv
<1>6. ASSUME NEW i \in Planned \cup parallel, NEW j \in parallel, Precedes(i, j)
      PROVE  {Pair(i), Pair(j)} \cap Exclusive = {}
  <2>1. i \notin Planned
    BY <1>2, <1>3, <1>6, PrecedesIsStrict DEF OrderInv
  <2>2. CanRunInParallel(i) /\ CanRunInParallel(j)
    BY <2>1 DEF OrderInv
  <2> QED
    BY <2>2 DEF CanRunInParallel
<1> QED
  BY <1>1, <1>2, <1>4, <1>5, <1>6, BeginKeeps

\* CallHooks: the hooks of an exclusive call are awaited when no group is left.
LEMMA CallHooksKeeps ==
  ASSUME BatchInv, CallHooks
  PROVE  BatchInv'
<1>1. /\ pc = "open" /\ validated = {} /\ confirm = <<>> /\ planned # <<>> /\ pc' = "hooks"
      /\ parallel = {} \/ CanRunInParallel(Head(planned))
      /\ UNCHANGED <<turn, calls, validated, confirm, edit, input, planned, parallel, active,
                     exec, results, answered, grants, cancelled, verdict, consent, asked, forever>>
  BY DEF CallHooks, Planning, GroupIsDue
<1> USE DEF BatchInv
<1>2. TypeInv'
  BY <1>1 DEF TypeInv, BatchPhases
<1>3. PlaceInv'
  BY <1>1 DEF PlaceInv, Pending, Planned, Confirming, Done
<1>4. PhaseInv'
  BY <1>1 DEF PhaseInv, CanRunInParallel
<1>5. ClearedInv'
  BY <1>1 DEF ClearedInv, Cleared, Planned, Confirming
<1>6. ExecInv'
  BY <1>1 DEF ExecInv, Pending, Planned, Confirming, Done, Valid, PhaseInv
<1>7. OrderInv'
  BY <1>1 DEF OrderInv, Planned, Confirming, Done, Precedes, CanRunInParallel
<1> QED
  BY <1>1, <1>2, <1>3, <1>4, <1>5, <1>6, <1>7 DEF EveryCallAnswered
\* AfterHooks: the head of the plan joins the collected group, or runs alone.
LEMMA AfterHooksKeeps ==
  ASSUME BatchInv, AfterHooks
  PROVE  BatchInv'
<1> PICK o : o = Head(planned)
  OBVIOUS
<1>1. /\ pc = "hooks" /\ planned' = Tail(planned)
      /\ \/ /\ CanRunInParallel(o) /\ parallel' = parallel \cup {o} /\ pc' = "open"
            /\ UNCHANGED <<active, exec>>
         \/ ~CanRunInParallel(o) /\ Begin({o}) /\ parallel' = parallel
      /\ UNCHANGED <<turn, calls, validated, confirm, edit, input, results, answered, grants,
                     cancelled, verdict, consent, asked, forever>>
  BY DEF AfterHooks
<1> USE DEF BatchInv
<1>2. validated = {} /\ confirm = <<>> /\ planned # <<>> /\ active = {}
  BY <1>1 DEF PhaseInv
<1>3. planned \in Seq(Orders) /\ IsInjective(planned)
  BY DEF TypeInv, PlaceInv
<1>4. /\ o = planned[1] /\ o \in Orders /\ o \in Planned
      /\ planned' \in Seq(Orders) /\ IsInjective(planned')
      /\ Planned' = Planned \ {o}
      /\ DOMAIN planned' = 1..(Len(planned) - 1)
      /\ \A i \in DOMAIN planned' : planned'[i] = planned[i + 1] /\ i + 1 \in DOMAIN planned
  BY <1>1, <1>2, <1>3, TailOf DEF Planned
<1>5. Len(planned) \in Nat /\ DOMAIN planned = 1..Len(planned)
  BY <1>3, LenProperties
<1>6. \A i, j \in DOMAIN planned' : i < j => Precedes(planned'[i], planned'[j])
  <2> SUFFICES ASSUME NEW i \in DOMAIN planned', NEW j \in DOMAIN planned', i < j
               PROVE  Precedes(planned'[i], planned'[j])
    OBVIOUS
  <2>1. i + 1 < j + 1 /\ i + 1 \in DOMAIN planned /\ j + 1 \in DOMAIN planned
    BY <1>4, <1>5
  <2>2. Precedes(planned[i + 1], planned[j + 1])
    BY <2>1 DEF OrderInv
  <2>3. planned'[i] = planned[i + 1] /\ planned'[j] = planned[j + 1]
    BY <1>4
  <2> QED
    BY <2>2, <2>3
<1>7. \A p \in Planned' : Precedes(o, p)
  <2> SUFFICES ASSUME NEW i \in DOMAIN planned' PROVE Precedes(o, planned'[i])
    BY DEF Planned, Range
  <2>1. 1 \in DOMAIN planned /\ i + 1 \in DOMAIN planned /\ 1 < i + 1
    BY <1>4, <1>5
  <2>2. Precedes(planned[1], planned[i + 1])
    BY <2>1 DEF OrderInv
  <2> QED
    BY <1>4, <2>2
<1>8. Planned \subseteq Orders
  BY <1>3 DEF Planned, Range
<1>9. CASE /\ CanRunInParallel(o) /\ parallel' = parallel \cup {o} /\ pc' = "open"
           /\ UNCHANGED <<active, exec>>
  <2>1. Pending' = Pending /\ Done' = Done /\ Confirming = {} /\ Confirming' = {}
    <3>1. Confirming = {} /\ Confirming' = {}
      BY <1>1, <1>2 DEF Confirming, Range
    <3>2. Done' = Done
      BY <1>1 DEF Done
    <3> QED
      BY <1>1, <1>4, <1>9, <3>1, <3>2 DEF Pending
  <2>2. TypeInv'
    BY <1>1, <1>4, <1>9 DEF TypeInv, BatchPhases
  <2>3. PlaceInv'
    BY <1>1, <1>2, <1>4, <1>9, <2>1 DEF PlaceInv
  <2>4. PhaseInv'
    BY <1>1, <1>2, <1>9 DEF PhaseInv
  <2>5. ClearedInv'
    <3>1. \A k : Cleared(k) => Cleared(k)'
      BY <1>1 DEF Cleared
    <3> QED
      BY <1>1, <1>2, <1>4, <1>9, <2>1, <3>1 DEF ClearedInv
  <2>6. ExecInv'
    BY <1>1, <1>2, <1>9, <2>1 DEF ExecInv, Valid
  <2>7. OrderInv'
    <3>1. \A i, j : Precedes(i, j)' = Precedes(i, j)
      BY <1>1 DEF Precedes
    <3>2. \A k : CanRunInParallel(k)' = CanRunInParallel(k)
      BY <1>1 DEF CanRunInParallel
    <3>3. \A i \in parallel', j \in Planned' : Precedes(i, j)
      BY <1>4, <1>7, <1>9 DEF OrderInv
    <3>4. \A i, j \in DOMAIN planned' : i < j => Precedes(planned[i], planned[j])'
      BY <1>1, <1>6 DEF Precedes
    <3>5. \A i, j \in Calls' :
            Ran(j)' /\ Precedes(i, j)' /\ ({Pair(i), Pair(j)} \cap Exclusive # {})' => i \in Done'
      BY <1>1, <1>9, <2>1, <3>1 DEF OrderInv
    <3> QED
      BY <1>1, <1>2, <1>4, <1>9, <2>1, <3>1, <3>2, <3>3, <3>4, <3>5 DEF OrderInv
  <2> QED
    BY <1>9, <2>2, <2>3, <2>4, <2>5, <2>6, <2>7 DEF EveryCallAnswered
<1>10. CASE ~CanRunInParallel(o) /\ Begin({o}) /\ parallel' = parallel
  <2>1. parallel = {}
    BY <1>1, <1>10 DEF PhaseInv
  <2>2. {o} \in SUBSET Orders
    BY <1>4
  <2>3. ASSUME NEW i \in Planned \cup parallel, NEW j \in {o}, Precedes(i, j)
        PROVE  FALSE
    BY <1>4, <1>7, <1>8, <2>1, <2>3, PrecedesIsStrict
  <2>4. /\ {o} \subseteq Planned \cup parallel /\ parallel' = {}
        /\ Planned' \cup {o} = Planned \cup parallel /\ Planned' \cap {o} = {}
        /\ \A i, j \in {o} : i # j => CanRunInParallel(i)
    BY <1>4, <1>10, <2>1
  <2> QED
    BY <1>1, <1>2, <1>4, <1>6, <1>10, <2>2, <2>3, <2>4, BeginKeeps
<1> QED
  BY <1>1, <1>9, <1>10

\* AttemptEnds, BackoffEnds, Interrupted: one execution moves on.
LEMMA MovesKeeps ==
  ASSUME BatchInv, NEW o \in Orders, NEW e \in Exec, Executing(o), Moves(o, e),
         e.phase \in {"running", "backoff", "ended"}, e.attempts > 0,
         e.phase = "ended" => e.outcome # "rejected",
         e.attempts = 1 \/ (calls[o].tool \in Retryable /\ e.attempts <= MaxRetries + 1),
         e.phase = "backoff" => calls[o].tool \in Retryable /\ e.attempts <= MaxRetries
  PROVE  BatchInv'
<1> USE DEF BatchInv
<1>1. /\ pc = "running" /\ o \in active /\ exec' = [exec EXCEPT ![o] = e]
      /\ UNCHANGED <<pc, turn, calls, validated, confirm, edit, input, planned, parallel, active,
                     results, answered, grants, cancelled, verdict, consent, asked, forever>>
  BY DEF Executing, Moves
<1>2. /\ exec' \in [Orders -> Exec] /\ exec'[o] = e
      /\ \A k \in Orders : k # o => exec'[k] = exec[k]
  BY <1>1 DEF TypeInv
<1>3. /\ Pending' = Pending /\ Done' = Done /\ Planned' = Planned /\ Confirming' = Confirming
  BY <1>1 DEF Pending, Done, Planned, Confirming
<1>4. Ran(o) /\ Ran(o)' /\ \A k \in Orders : Ran(k)' = Ran(k)
  BY <1>1, <1>2 DEF ExecInv
<1>5. Calls \subseteq Orders
  BY CallsAreOrders
<1>6. TypeInv'
  BY <1>1, <1>2 DEF TypeInv
<1>7. PlaceInv'
  BY <1>1, <1>3 DEF PlaceInv
<1>8. PhaseInv'
  BY <1>1 DEF PhaseInv
<1>9. ClearedInv'
  BY <1>1, <1>3, <1>4, <1>5 DEF ClearedInv, Cleared
<1>10. ExecInv'
  <2>1. \A k \in Orders : Valid(calls, k)' = Valid(calls, k)
    BY <1>1 DEF Valid
  <2>2. \A k \in Orders : exec'[k].phase \in {"running", "backoff"} => pc = "running" /\ k \in active
    BY <1>1, <1>2 DEF ExecInv
  <2>3. \A k \in Orders : exec'[k].phase = "ended" => exec'[k].outcome # "rejected"
    BY <1>2 DEF ExecInv
  <2>4. ASSUME NEW k \in Calls, Ran(k)'
        PROVE  exec'[k].attempts = 1
                 \/ (calls[k].tool \in Retryable /\ exec'[k].attempts <= MaxRetries + 1)
    BY <1>2, <1>4, <1>5, <2>4 DEF ExecInv
  <2>5. \A k \in Calls : exec'[k].phase = "backoff" =>
          calls[k].tool \in Retryable /\ exec'[k].attempts <= MaxRetries
    BY <1>2, <1>5 DEF ExecInv
  <2>6. ASSUME NEW r \in Range(results) PROVE (r.outcome = "rejected") = ~Ran(r.order)'
    <3>1. r.order \in Done
      BY DEF Done, OrdersOf
    <3> QED
      BY <1>4, <1>5, <3>1 DEF PlaceInv, ExecInv
  <2>7. \A k \in Pending : Valid(calls, k)'
    BY <1>1 DEF ExecInv, Valid
  <2>8. \A k \in Orders : Ran(k)' => k \in active \cup Done /\ Valid(calls, k)
    BY <1>4 DEF ExecInv
  <2>9. \A k \in active : Ran(k)'
    BY <1>4 DEF ExecInv, TypeInv
  <2> QED
    BY <1>1, <1>3, <2>1, <2>2, <2>3, <2>4, <2>5, <2>6, <2>7, <2>8, <2>9 DEF ExecInv
<1>11. OrderInv'
  <2>1. \A i, j : Precedes(i, j)' = Precedes(i, j)
    BY <1>1 DEF Precedes
  <2>2. \A k : CanRunInParallel(k)' = CanRunInParallel(k)
    BY <1>1 DEF CanRunInParallel
  <2>3. \A i, j \in DOMAIN planned' : i < j => Precedes(planned[i], planned[j])'
    BY <1>1 DEF OrderInv, Precedes
  <2> QED
    BY <1>1, <1>3, <1>4, <1>5, <2>1, <2>2, <2>3 DEF OrderInv
<1> QED
  BY <1>1, <1>6, <1>7, <1>8, <1>9, <1>10, <1>11 DEF EveryCallAnswered

LEMMA ExecutionKeeps ==
  ASSUME BatchInv, NEW o \in Orders,
         (\E outcome \in AttemptOutcome : AttemptEnds(o, outcome)) \/ BackoffEnds(o) \/ Interrupted(o)
  PROVE  BatchInv'
<1> USE DEF BatchInv
<1>1. Executing(o) /\ exec[o] \in Exec
  BY DEF AttemptEnds, BackoffEnds, Interrupted, InFlight, TypeInv
<1>2. exec[o].attempts \in Nat /\ exec[o].outcome \in Outcome /\ o \in active /\ Ran(o)
  BY <1>1 DEF Exec, Executing, ExecInv
<1>3. o \in Calls
  BY <1>2 DEF PlaceInv, Pending
<1>4. exec[o].attempts = 1 \/ (calls[o].tool \in Retryable /\ exec[o].attempts <= MaxRetries + 1)
  BY <1>2, <1>3 DEF ExecInv
<1>5. CASE \E outcome \in AttemptOutcome : AttemptEnds(o, outcome)
  <2> PICK outcome \in AttemptOutcome : AttemptEnds(o, outcome)
    BY <1>5
  <2> PICK e : e = [phase |-> IF CanRetry(o, outcome) THEN "backoff" ELSE "ended",
                    attempts |-> exec[o].attempts, outcome |-> outcome]
    OBVIOUS
  <2>1. Moves(o, e)
    BY DEF AttemptEnds
  <2>2. e \in Exec /\ e.attempts = exec[o].attempts /\ e.outcome # "rejected"
    BY <1>2 DEF Exec, ExecPhases, Outcome, AttemptOutcome
  <2>3. /\ e.phase \in {"backoff", "ended"}
        /\ e.phase = "backoff" => calls[o].tool \in Retryable /\ e.attempts <= MaxRetries
    BY DEF CanRetry
  <2> QED
    BY <1>1, <1>2, <1>4, <2>1, <2>2, <2>3, MovesKeeps
<1>6. CASE BackoffEnds(o)
  <2> PICK e : e = [exec[o] EXCEPT !.phase = "running", !.attempts = @ + 1]
    OBVIOUS
  <2>1. Moves(o, e) /\ exec[o].phase = "backoff"
    BY <1>6 DEF BackoffEnds
  <2>2. e \in Exec /\ e.phase = "running" /\ e.attempts = exec[o].attempts + 1
    <3>1. e = [phase |-> "running", attempts |-> exec[o].attempts + 1, outcome |-> exec[o].outcome]
      BY <1>1 DEF Exec
    <3>2. exec[o].attempts + 1 \in Nat
      BY <1>2
    <3> QED
      BY <1>2, <3>1, <3>2 DEF Exec, ExecPhases
  <2>3. calls[o].tool \in Retryable /\ exec[o].attempts <= MaxRetries
    BY <1>3, <2>1 DEF ExecInv
  <2>4. e.attempts > 0 /\ e.attempts <= MaxRetries + 1 /\ e.phase \notin {"ended", "backoff"}
    BY <1>2, <2>2, <2>3, ToolBatchAssumption
  <2> QED
    BY <1>1, <2>1, <2>2, <2>3, <2>4, MovesKeeps
<1>7. CASE Interrupted(o)
  <2> PICK e : e = [exec[o] EXCEPT !.phase = "ended", !.outcome = "interrupted"]
    OBVIOUS
  <2>1. Moves(o, e)
    BY <1>7 DEF Interrupted
  <2>2. e \in Exec /\ e.phase = "ended" /\ e.attempts = exec[o].attempts /\ e.outcome # "rejected"
    BY <1>1, <1>2 DEF Exec, ExecPhases, Outcome
  <2> QED
    BY <1>1, <1>2, <1>4, <2>1, <2>2, MovesKeeps
<1> QED
  BY <1>5, <1>6, <1>7
\* Collect: the calls that executed have their results.
LEMMA CollectKeeps ==
  ASSUME BatchInv, Collect
  PROVE  BatchInv'
<1> USE DEF BatchInv
<1>1. /\ pc = "running" /\ \A o \in active : exec[o].phase = "ended"
      /\ results' = results \o Outcomes(active, exec) /\ pc' = "open" /\ active' = {}
      /\ UNCHANGED <<turn, calls, validated, confirm, edit, input, planned, parallel, exec,
                     answered, grants, cancelled, verdict, consent, asked, forever>>
  BY DEF Collect, AllEnded
<1>2. PICK rs : rs = Outcomes(active, exec)
  OBVIOUS
<1>3. /\ rs \in Seq(ToolResult) /\ OrdersOf(rs) = active /\ OncePerOrder(rs)
      /\ \A r \in Range(rs) : r.outcome = exec[r.order].outcome
  <2>1. active \in SUBSET Orders /\ exec \in [Orders -> Exec]
    BY DEF TypeInv
  <2> QED
    BY <1>2, <2>1, OutcomesOf
<1>4. /\ results \in Seq(ToolResult) /\ OncePerOrder(results) /\ active \cap Done = {}
      /\ active \subseteq Orders
  BY DEF TypeInv, PlaceInv, Pending
<1>5. /\ results' \in Seq(ToolResult) /\ Range(results') = Range(results) \cup Range(rs)
      /\ Done' = Done \cup active /\ OncePerOrder(results')
  BY <1>1, <1>2, <1>3, <1>4, PushOf DEF Done
<1>6. /\ Planned' = Planned /\ Confirming' = Confirming
      /\ Pending = Pending' \cup active /\ Pending' \cap active = {}
  BY <1>1 DEF Planned, Confirming, Pending, PlaceInv
<1>7. Calls \subseteq Orders
  BY CallsAreOrders
<1>8. TypeInv'
  BY <1>1, <1>5 DEF TypeInv, BatchPhases
<1>9. PlaceInv'
  BY <1>1, <1>5, <1>6 DEF PlaceInv
<1>10. PhaseInv'
  BY <1>1 DEF PhaseInv
<1>11. ClearedInv'
  BY <1>1, <1>6 DEF ClearedInv, Cleared
<1>12. ExecInv'
  <2>1. \A o \in Orders : exec[o].phase \notin {"running", "backoff"}
    BY <1>1 DEF ExecInv
  <2>2. ASSUME NEW r \in Range(rs) PROVE (r.outcome = "rejected") = ~Ran(r.order)
    <3>1. r.order \in active
      BY <1>3 DEF OrdersOf
    <3>2. r.outcome # "rejected" /\ Ran(r.order)
      BY <1>1, <1>3, <1>4, <3>1 DEF ExecInv
    <3> QED
      BY <3>2
  <2>3. \A r \in Range(results') : (r.outcome = "rejected") = ~Ran(r.order)
    BY <1>5, <2>2 DEF ExecInv
  <2>4. \A o \in Orders : Ran(o) => o \in Done \cup active /\ Valid(calls, o)
    BY DEF ExecInv
  <2>5. \A o \in Pending' : Valid(calls, o)
    BY <1>6 DEF ExecInv
  <2>6. \A o \in Orders : exec[o].phase = "ended" => exec[o].outcome # "rejected"
    BY DEF ExecInv
  <2>7. /\ \A o \in Calls : Ran(o) =>
            exec[o].attempts = 1 \/ (calls[o].tool \in Retryable /\ exec[o].attempts <= MaxRetries + 1)
        /\ \A o \in Calls : exec[o].phase = "backoff" =>
            calls[o].tool \in Retryable /\ exec[o].attempts <= MaxRetries
    BY DEF ExecInv
  <2> QED
    BY <1>1, <1>5, <2>1, <2>3, <2>4, <2>5, <2>6, <2>7 DEF ExecInv, Valid
<1>13. OrderInv'
  BY <1>1, <1>5, <1>6 DEF OrderInv, Precedes, CanRunInParallel
<1> QED
  BY <1>1, <1>8, <1>9, <1>10, <1>11, <1>12, <1>13 DEF EveryCallAnswered

\* ReturnResults: every call has one result, and sorting puts it in its place.
LEMMA ReturnResultsKeeps ==
  ASSUME BatchInv, ReturnResults
  PROVE  BatchInv'
<1> USE DEF BatchInv
<1>1. /\ pc = "open" /\ validated = {} /\ confirm = <<>> /\ planned = <<>> /\ parallel = {}
      /\ results' = Sorted(results) /\ pc' = "answering"
      /\ UNCHANGED <<turn, calls, validated, confirm, edit, input, planned, parallel, active,
                     exec, answered, grants, cancelled, verdict, consent, asked, forever>>
  BY DEF ReturnResults, Planning
<1>2. active = {}
  BY <1>1 DEF PhaseInv
<1>3. Pending = {} /\ Pending' = {}
  BY <1>1, <1>2 DEF Pending, Planned, Confirming, Range
<1>4. Done = 1..Len(calls) /\ Calls = 1..Len(calls) /\ Len(calls) \in Nat
  BY <1>3, LenProperties DEF PlaceInv, TypeInv
<1>5. results \in Seq(ToolResult) /\ OncePerOrder(results)
  BY DEF TypeInv, PlaceInv
<1>6. /\ DOMAIN results' = 1..Len(calls) /\ results' \in Seq(ToolResult)
      /\ Len(results') = Len(calls)
      /\ \A k \in 1..Len(calls) : results'[k] \in Range(results) /\ results'[k].order = k
      /\ Range(results') = Range(results)
  BY <1>1, <1>4, <1>5, SortedOf DEF Done
<1>7. Done' = Done
  BY <1>6 DEF Done, OrdersOf
<1>8. OncePerOrder(results')
  BY <1>6 DEF OncePerOrder
<1>9. TypeInv'
  BY <1>1, <1>6 DEF TypeInv, BatchPhases
<1>10. PlaceInv'
  BY <1>1, <1>2, <1>3, <1>7, <1>8 DEF PlaceInv, Planned, Confirming
<1>11. PhaseInv'
  BY <1>1, <1>2 DEF PhaseInv
<1>12. ClearedInv'
  BY <1>1, <1>2 DEF ClearedInv, Cleared, Planned, Confirming
<1>13. ExecInv'
  BY <1>1, <1>2, <1>3, <1>6, <1>7 DEF ExecInv, Valid
<1>14. OrderInv'
  BY <1>1, <1>2, <1>7 DEF OrderInv, Precedes, CanRunInParallel, Planned, Confirming
<1>15. EveryCallAnswered'
  <2>1. \A k \in 1..Len(calls) : (results'[k].outcome = "rejected") = ~Ran(results'[k].order)
    BY <1>6 DEF ExecInv
  <2> QED
    BY <1>1, <1>6, <2>1 DEF EveryCallAnswered
<1> QED
  BY <1>9, <1>10, <1>11, <1>12, <1>13, <1>14, <1>15

\* Abort: what executes is dropped, and nothing begins any more.
LEMMA AbortKeeps ==
  ASSUME BatchInv, Abort
  PROVE  BatchInv'
<1> USE DEF BatchInv
<1>1. /\ pc' = "aborted"
      /\ exec' = [o \in Orders |->
                    IF InFlight(o) THEN [exec[o] EXCEPT !.phase = "dropped"] ELSE exec[o]]
      /\ UNCHANGED <<turn, calls, validated, confirm, edit, input, planned, parallel, active,
                     results, answered, grants, cancelled, verdict, consent, asked, forever>>
  BY DEF Abort
<1>2. \A o \in Orders : exec[o] \in Exec
  BY DEF TypeInv
<1>3. \A o \in Orders : /\ exec'[o] \in Exec /\ exec'[o].attempts = exec[o].attempts
                        /\ exec'[o].outcome = exec[o].outcome
                        /\ exec'[o].phase = IF InFlight(o) THEN "dropped" ELSE exec[o].phase
  BY <1>1, <1>2 DEF Exec, ExecPhases
<1>4. \A o \in Orders : exec'[o].phase \notin {"running", "backoff"}
  BY <1>3 DEF InFlight, Executing, ExecInv
<1>5. /\ Pending' = Pending /\ Done' = Done /\ Planned' = Planned /\ Confirming' = Confirming
  BY <1>1 DEF Pending, Done, Planned, Confirming
<1>6. Calls \subseteq Orders /\ Done \subseteq Orders /\ active \subseteq Orders
  BY CallsAreOrders DEF PlaceInv, Pending
<1>7. TypeInv'
  <2>1. exec' \in [Orders -> Exec]
    BY <1>1, <1>3
  <2> QED
    BY <1>1, <2>1 DEF TypeInv, BatchPhases
<1>8. PlaceInv'
  BY <1>1, <1>5 DEF PlaceInv
<1>9. PhaseInv'
  BY <1>1, <1>3 DEF PhaseInv
<1>10. ClearedInv'
  BY <1>1, <1>3, <1>5, <1>6 DEF ClearedInv, Cleared
<1>11. ExecInv'
  <2>1. \A o : Valid(calls, o)' = Valid(calls, o)
    BY <1>1 DEF Valid
  <2>2. \A r \in Range(results) : r.order \in Orders
    BY <1>6 DEF Done, OrdersOf
  <2>3. \A o \in Orders : exec'[o].phase = "ended" => exec'[o].outcome # "rejected"
    BY <1>3 DEF ExecInv
  <2>4. ASSUME NEW o \in Calls, Ran(o)'
        PROVE  exec'[o].attempts = 1
                 \/ (calls[o].tool \in Retryable /\ exec'[o].attempts <= MaxRetries + 1)
    BY <1>3, <1>6, <2>4 DEF ExecInv
  <2>5. \A o \in Orders : Ran(o)' => o \in active \cup Done /\ Valid(calls, o)
    BY <1>3 DEF ExecInv
  <2>6. \A o \in active : Ran(o)'
    BY <1>3, <1>6 DEF ExecInv
  <2>7. \A r \in Range(results) : (r.outcome = "rejected") = ~Ran(r.order)'
    BY <1>3, <2>2 DEF ExecInv
  <2>8. \A o \in Pending : Valid(calls, o)
    BY DEF ExecInv
  <2> QED
    BY <1>1, <1>4, <1>5, <1>6, <2>1, <2>3, <2>4, <2>5, <2>6, <2>7, <2>8 DEF ExecInv
<1>12. OrderInv'
  BY <1>1, <1>3, <1>5, <1>6 DEF OrderInv, Precedes, CanRunInParallel
<1> QED
  BY <1>1, <1>7, <1>8, <1>9, <1>10, <1>11, <1>12 DEF EveryCallAnswered

\* AnswerCall and CancelToken touch nothing that the batch decides with.
LEMMA OutsideKeeps ==
  ASSUME BatchInv, AnswerCall \/ CancelToken \/ UNCHANGED batchVars
  PROVE  BatchInv'
<1> USE DEF BatchInv
<1>1. /\ pc' \in BatchPhases /\ answered' \in Nat /\ cancelled' \in BOOLEAN
      /\ pc' = pc \/ (pc = "answering" /\ pc' = "idle")
      /\ UNCHANGED <<turn, calls, validated, confirm, edit, input, planned, parallel, active,
                     exec, results, grants, verdict, consent, asked, forever>>
  <2>1. pc \in BatchPhases /\ answered \in Nat /\ cancelled \in BOOLEAN
    BY DEF TypeInv
  <2>2. CASE AnswerCall
    <3>1. pc = "answering" /\ pc' \in {"idle", "answering"} /\ answered' = answered + 1
      BY <2>2 DEF AnswerCall
    <3> QED
      BY <2>1, <2>2, <3>1 DEF AnswerCall, BatchPhases
  <2>3. CASE CancelToken
    BY <2>1, <2>3 DEF CancelToken
  <2>4. CASE UNCHANGED batchVars
    BY <2>1, <2>4 DEF batchVars
  <2> QED
    BY <2>2, <2>3, <2>4
<1>2. TypeInv'
  BY <1>1 DEF TypeInv
<1>3. PlaceInv'
  BY <1>1 DEF PlaceInv, Pending, Planned, Confirming, Done
<1>4. PhaseInv'
  BY <1>1 DEF PhaseInv, CanRunInParallel
<1>5. ClearedInv'
  BY <1>1 DEF ClearedInv, Cleared, Planned, Confirming
<1>6. ExecInv'
  BY <1>1 DEF ExecInv, Pending, Planned, Confirming, Done, Valid, PhaseInv
<1>7. OrderInv'
  BY <1>1 DEF OrderInv, Planned, Confirming, Done, Precedes, CanRunInParallel
<1> QED
  BY <1>1, <1>2, <1>3, <1>4, <1>5, <1>6, <1>7 DEF EveryCallAnswered

-----------------------------------------------------------------------------
(* The theorems. *)

\* The places of the calls, what they were admitted with, and what executes and is
\* over, in every state of a run's batches.
THEOREM BatchInvariant == BatchSpec => []BatchInv
<1>1. ASSUME BatchInv, [BatchNext]_batchVars
      PROVE  BatchInv'
  <2>1. CASE \E cs \in Batches : StartBatch(cs)
    BY <1>1, <2>1, StartBatchKeeps
  <2>2. CASE \E status \in PolicyStatus, o \in Orders : EvaluatePolicy(o, status)
    BY <1>1, <2>2, EvaluatePolicyKeeps
  <2>3. CASE \E status \in PolicyStatus : JudgeEdit(status)
    BY <1>1, <2>3, JudgeEditKeeps
  <2>4. CASE Approve \/ Deny \/ AlwaysAllowForSession
    BY <1>1, <2>4, AnswerKeeps
  <2>5. CASE \E new \in Inputs : Edit(new)
    BY <1>1, <2>5, EditKeeps
  <2>6. CASE AfterHooks
    BY <1>1, <2>6, AfterHooksKeeps
  <2>7. CASE \E o \in Orders : \/ \E outcome \in AttemptOutcome : AttemptEnds(o, outcome)
                               \/ BackoffEnds(o) \/ Interrupted(o)
    BY <1>1, <2>7, ExecutionKeeps
  <2>8. CASE LocalStep
    BY <1>1, <2>8, StartGroupKeeps, CallHooksKeeps, CollectKeeps, ReturnResultsKeeps
       DEF LocalStep
  <2>9. CASE ReturnCancelled \/ ReturnError
    BY <1>1, <2>9, AbortKeeps DEF ReturnCancelled, ReturnError
  <2>10. CASE AnswerCall \/ CancelToken \/ UNCHANGED batchVars
    BY <1>1, <2>10, OutsideKeeps
  <2> QED
    BY <1>1, <2>1, <2>2, <2>3, <2>4, <2>5, <2>6, <2>7, <2>8, <2>9, <2>10 DEF BatchNext
<1> QED
  BY <1>1, InitBatchInv, PTL DEF BatchSpec

\* No call runs without the policy's leave, or the user's, for the very input it runs
\* with: neither a grant nor an edited input gets around the policy (agent/executor.rs).
THEOREM AuthorisedOnly == BatchSpec => []NothingRunsUnauthorised
<1>1. BatchInv => NothingRunsUnauthorised
  BY DEF BatchInv, ClearedInv, Cleared, NothingRunsUnauthorised
<1> QED
  BY <1>1, BatchInvariant, PTL

\* Effects come once, alone where they must, and in the order of the plan, whatever
\* runs in parallel and is tried again (agent/executor.rs).
THEOREM EffectsAreInOrder == BatchSpec => []EffectsInOrder
<1>1. ASSUME BatchInv PROVE SideEffectsOnce
  <2> SUFFICES ASSUME NEW o \in Calls, Ran(o)
               PROVE  /\ \A k \in Calls : calls[k].id = calls[o].id /\ Ran(k) => k = o
                      /\ exec[o].attempts = 1
                           \/ (calls[o].tool \in Retryable /\ exec[o].attempts <= MaxRetries + 1)
    BY DEF SideEffectsOnce
  <2>1. Calls \subseteq Orders
    BY <1>1, CallsAreOrders DEF BatchInv
  <2>2. ASSUME NEW k \in Calls, calls[k].id = calls[o].id, Ran(k) PROVE k = o
    <3>1. Valid(calls, k) /\ Valid(calls, o)
      BY <1>1, <2>1, <2>2 DEF BatchInv, ExecInv
    <3>2. k \in Nat /\ o \in Nat /\ k >= 1 /\ o >= 1
      BY <2>1, ToolBatchAssumption DEF Orders
    <3>3. k \notin 1..(o - 1) /\ o \notin 1..(k - 1)
      BY <2>2, <3>1 DEF Valid
    <3> QED
      BY <3>2, <3>3
  <2> QED
    BY <1>1, <2>2 DEF BatchInv, ExecInv
<1>2. ASSUME BatchInv PROVE RunsAlone
  <2>1. Calls \subseteq Orders
    BY <1>2, CallsAreOrders DEF BatchInv
  <2>2. \A o, k \in Calls :
          exec[o].phase \in {"running", "backoff"} /\ exec[k].phase \in {"running", "backoff"}
            => o \in active /\ k \in active
    BY <1>2, <2>1 DEF BatchInv, ExecInv
  <2> QED
    BY <1>2, <2>2 DEF BatchInv, OrderInv, RunsAlone, CanRunInParallel
<1>3. ASSUME BatchInv PROVE RunsInOrder
  <2>1. \A i \in Done : \E k \in DOMAIN results : results[k].order = i
    BY DEF Done, OrdersOf, Range
  <2> QED
    BY <1>3, <2>1 DEF BatchInv, OrderInv, RunsInOrder
<1>4. BatchInv => EffectsInOrder
  BY <1>1, <1>2, <1>3 DEF EffectsInOrder
<1> QED
  BY <1>4, BatchInvariant, PTL

\* A batch answers every call of the model once, in its place, and tells it apart
\* whether the call ran (agent/executor.rs).
THEOREM CallsAreAnswered == BatchSpec => []EveryCallAnswered
<1>1. BatchInv => EveryCallAnswered
  BY DEF BatchInv
<1> QED
  BY <1>1, BatchInvariant, PTL
=============================================================================
