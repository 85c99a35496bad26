------------------------- MODULE FileParsingProofs -------------------------
(***************************************************************************)
(* What FileParsing proves for every number of rows, of workers and of     *)
(* rows in a chunk.  A row is followed through the pool: it is held by one *)
(* worker, or is one result that waits, or has been returned, and a row    *)
(* that has been returned is one invoice, one error, or empty.             *)
(***************************************************************************)
EXTENDS FileParsing, FiniteSetTheorems, SequenceTheorems, TLAPS

-----------------------------------------------------------------------------
(* The inductive invariant *)

\* TypeOK without its bound on the results, which needs PlaceInv.
Typed ==
  /\ format \in {"csv", "excel"}
  /\ file \in BoundedSeq(Kinds, MaxRows)
  /\ pc \in {"count", "sequential", "start", "collect", "done", "refused"}
  /\ strategy \in {"none", "sequential", "concurrent", "chunked"}
  /\ last \in 0..Len(file) /\ first \in 1..last + 1
  /\ sent \in first - 1..last /\ taken \in first - 1..sent
  /\ jobsClosed \in BOOLEAN /\ resultsClosed \in BOOLEAN
  /\ worker \in [Workers -> -1..last]
  /\ results \in Seq(Rows \X Nat)
  /\ kept \subseteq Rows
  /\ invoices \in Seq(Rows)
  /\ errors \in Seq(Nat)
  /\ total \in 0..MaxRows

\* Where the task is, and with which strategy.
StageInv ==
  /\ pc \in {"count", "refused"} <=> strategy = "none"
  /\ pc = "sequential" => strategy = "sequential"
  /\ pc \in {"start", "collect"} => strategy \in {"concurrent", "chunked"}
  /\ strategy = "none" => total = 0
  /\ strategy # "none" => total = Counted

\* The channels of a pool are closed in order, and between two pools nobody
\* works: every row that was sent has been taken, and every result collected.
PoolInv ==
  /\ jobsClosed => sent = last
  /\ pc = "collect" => \A w \in Workers : worker[w] = -1 => Exhausted
  /\ pc = "collect" /\ resultsClosed => Waited
  /\ pc # "collect" => /\ Waited /\ results = <<>> /\ kept = {}
                       /\ taken = last

Whole(n) == n = (n \div ChunkSize) * ChunkSize

\* The pools follow each other: one for the file, or one for each chunk.
ChunkInv ==
  /\ strategy = "chunked" =>
       /\ Whole(first - 1)
       /\ last <= first - 1 + ChunkSize
       /\ pc = "start" => Whole(last)
       /\ pc = "collect" => last = Len(file) \/ last = first - 1 + ChunkSize
  /\ strategy # "chunked" => first = 1
  /\ strategy = "concurrent" => /\ pc = "start" => last = 0
                                /\ pc = "collect" => last = Len(file)
  /\ strategy \in {"none", "sequential"} => last = 0
  /\ pc = "done" /\ strategy # "sequential" => last = Len(file)

\* The rows that are on their way lie in the pool, each in one place, and carry
\* the numbers of their lines.
PlaceInv ==
  /\ \A w \in Workers : worker[w] > 0 => worker[w] \in first..taken
  /\ \A j \in DOMAIN results : /\ results[j][1] \in first..taken
                               /\ results[j][2] = Line(results[j][1])
  /\ \A v, w \in Workers : worker[v] > 0 /\ worker[v] = worker[w] => v = w
  /\ \A j, k \in DOMAIN results : results[j][1] = results[k][1] => j = k
  /\ \A w \in Workers, j \in DOMAIN results : worker[w] # results[j][1]

\* The rows that are through.
Waiting(i) == \/ \E w \in Workers : worker[w] = i
              \/ \E j \in DOMAIN results : results[j][1] = i
Through == IF strategy = "sequential" /\ pc = "done" THEN Rows
           ELSE {i \in 1..taken : ~Waiting(i)}

\* Each of them is one invoice, one error, or empty.
ReturnInv ==
  /\ IsInjective(invoices) /\ IsInjective(errors)
  /\ kept \cap Range(invoices) = {}
  /\ kept \cup Range(invoices) = {i \in Through : file[i] = "valid"}
  /\ Range(errors) = {Line(i) : i \in {j \in Through : file[j] = "invalid"}}

\* By index nothing is returned before the end, in chunks nothing is kept.
OrderInv ==
  /\ strategy # "chunked" /\ pc # "done" => invoices = <<>>
  /\ strategy = "chunked" => kept = {}
  /\ InFileOrder

ParsingInv ==
  Typed /\ StageInv /\ PoolInv /\ ChunkInv /\ PlaceInv /\ ReturnInv /\ OrderInv

-----------------------------------------------------------------------------
(* Numbers, files, and rows in order *)

\* A number in the kth block of c numbers has the quotient k.
LEMMA QuotientIs ==
  ASSUME NEW c \in Nat \ {0}, NEW k \in Nat, NEW x \in Int,
         k * c <= x, x < k * c + c
  PROVE  x \div c = k
  OBVIOUS

\* A file is a sequence of kinds within the bound.
LEMMA FileIsSeq ==
  ASSUME file \in BoundedSeq(Kinds, MaxRows)
  PROVE  /\ Len(file) \in 0..MaxRows /\ file \in [Rows -> Kinds]
         /\ IsFiniteSet(Rows) /\ Cardinality(Rows) = Len(file)
  <1>1. PICK n \in 0..MaxRows : file \in [1..n -> Kinds]
    BY DEF BoundedSeq, SeqOf
  <1>2. n \in Nat
    BY SizesAssumption
  <1>3. Len(file) = n
    BY <1>1, <1>2
  <1>4. QED
    BY <1>1, <1>2, <1>3, FS_Interval DEF Rows

\* The rank of a row among some rows: how many of them do not come after it.
UpTo(rows, i) == {j \in rows : j <= i}

LEMMA RankGrows ==
  ASSUME NEW rows \in SUBSET Int, IsFiniteSet(rows), NEW i \in rows, NEW k \in rows,
         i < k
  PROVE  Cardinality(UpTo(rows, i)) < Cardinality(UpTo(rows, k))
  <1>0. i \in Int /\ k \in Int
    OBVIOUS
  <1>1. UpTo(rows, k) \in SUBSET rows /\ UpTo(rows, i) \in SUBSET UpTo(rows, k)
    <2>1. \A j \in rows : j <= i => j <= k
      BY <1>0
    <2> QED
      BY <2>1 DEF UpTo
  <1>2. IsFiniteSet(UpTo(rows, k)) /\ IsFiniteSet(UpTo(rows, i))
        /\ Cardinality(UpTo(rows, k)) <= Cardinality(rows)
        /\ Cardinality(UpTo(rows, i)) <= Cardinality(UpTo(rows, k))
        /\ (Cardinality(UpTo(rows, k)) = Cardinality(UpTo(rows, i))
              => UpTo(rows, k) = UpTo(rows, i))
    BY <1>1, FS_Subset
  <1>3. Cardinality(UpTo(rows, k)) \in Nat /\ Cardinality(UpTo(rows, i)) \in Nat
    BY <1>2, FS_CardinalityType
  <1>4. k \in UpTo(rows, k) /\ k \notin UpTo(rows, i)
    BY <1>0 DEF UpTo
  <1>5. QED
    BY <1>2, <1>3, <1>4

LEMMA RankInRange ==
  ASSUME NEW rows \in SUBSET Int, IsFiniteSet(rows), NEW i \in rows
  PROVE  Cardinality(UpTo(rows, i)) \in 1..Cardinality(rows)
  <1>1. UpTo(rows, i) \in SUBSET rows /\ i \in UpTo(rows, i)
    BY DEF UpTo
  <1>2. IsFiniteSet(UpTo(rows, i)) /\ Cardinality(UpTo(rows, i)) <= Cardinality(rows)
    BY <1>1, FS_Subset
  <1>3. Cardinality(UpTo(rows, i)) \in Nat /\ Cardinality(rows) \in Nat
    BY <1>2, FS_CardinalityType
  <1>4. Cardinality(UpTo(rows, i)) # 0
    BY <1>1, <1>2, FS_EmptySet
  <1>5. QED
    BY <1>2, <1>3, <1>4

\* Increasing s: every row comes before every later one.
Increasing(s) == \A j, k \in DOMAIN s : j < k => s[j] < s[k]

\* A finite set of rows has an order, the inverse of the rank: no induction is
\* needed, since an injection into as many numbers as there are rows is onto.
LEMMA OrderExists ==
  ASSUME NEW rows \in SUBSET Int, IsFiniteSet(rows)
  PROVE  \E s \in SetToSeqs(rows) : Increasing(s)
  <1> DEFINE n == Cardinality(rows)
             rank == [i \in rows |-> Cardinality(UpTo(rows, i))]
             s == [m \in 1..n |-> CHOOSE i \in rows : rank[i] = m]
  <1>1. n \in Nat /\ IsFiniteSet(1..n) /\ Cardinality(1..n) = n
    BY FS_CardinalityType, FS_Interval
  <1>2. rank \in [rows -> 1..n]
    BY RankInRange
  <1>3. \A i, k \in rows : i < k => rank[i] < rank[k]
    BY RankGrows
  <1>4. \A i, k \in rows : rank[i] = rank[k] => i = k
    <2> SUFFICES ASSUME NEW i \in rows, NEW k \in rows, rank[i] = rank[k], i # k
                 PROVE  FALSE
      OBVIOUS
    <2>1. i \in Int /\ k \in Int /\ rank[i] \in Int /\ rank[k] \in Int
      BY <1>1, <1>2
    <2>2. i < k \/ k < i
      BY <2>1
    <2> QED
      BY <1>3, <2>1, <2>2
  <1>5. rank \in Surjection(rows, 1..n)
    <2>1. rank \in Injection(rows, 1..n)
      BY <1>2, <1>4 DEF Injection, IsInjective
    <2> HIDE DEF rank
    <2> QED
      BY <1>1, <2>1, FS_Injection
  <1>6. \A m \in 1..n : s[m] \in rows /\ rank[s[m]] = m
    <2> TAKE m \in 1..n
    <2>1. \E i \in rows : rank[i] = m
      BY <1>5 DEF Surjection
    <2> HIDE DEF rank
    <2> QED
      BY <2>1
  <1>7. DOMAIN s = 1..n /\ s \in [1..n -> rows]
    BY <1>6
  <1> HIDE DEF s, rank
  <1>8. s \in SetToSeqs(rows)
    BY <1>6, <1>7 DEF SetToSeqs
  <1>9. Increasing(s)
    <2> SUFFICES ASSUME NEW j \in 1..n, NEW k \in 1..n, j < k, ~(s[j] < s[k])
                 PROVE  FALSE
      BY <1>7 DEF Increasing
    <2>1. /\ s[j] \in rows /\ s[k] \in rows /\ s[j] \in Int /\ s[k] \in Int
          /\ rank[s[j]] = j /\ rank[s[k]] = k
      BY <1>6
    <2>2. s[k] < s[j] \/ s[k] = s[j]
      BY <2>1
    <2> QED
      BY <1>1, <1>3, <2>1, <2>2
  <1> QED
    BY <1>8, <1>9

\* InOrder returns each of the rows once, the smaller ones first.
LEMMA OrderOf ==
  ASSUME NEW rows \in SUBSET Int, IsFiniteSet(rows)
  PROVE  /\ InOrder(rows) \in Seq(rows)
         /\ Len(InOrder(rows)) = Cardinality(rows)
         /\ IsInjective(InOrder(rows)) /\ Range(InOrder(rows)) = rows
         /\ Increasing(InOrder(rows))
  <1> DEFINE n == Cardinality(rows)
             s == InOrder(rows)
  <1>1. n \in Nat /\ IsFiniteSet(1..n) /\ Cardinality(1..n) = n
    BY FS_CardinalityType, FS_Interval
  <1>2. s \in SetToSeqs(rows) /\ Increasing(s)
    BY OrderExists DEF InOrder, Increasing
  <1> HIDE DEF s
  <1>3. s \in [1..n -> rows] /\ \A i, j \in 1..n : i # j => s[i] # s[j]
    BY <1>2 DEF SetToSeqs
  <1>4. s \in Seq(rows) /\ Len(s) = n
    BY <1>1, <1>3
  <1>5. IsInjective(s)
    BY <1>3 DEF IsInjective
  <1>6. s \in Injection(1..n, rows)
    BY <1>3, <1>5 DEF Injection
  <1>7. s \in Surjection(1..n, rows)
    <2>1. Cardinality(1..n) = Cardinality(rows)
      BY <1>1
    <2> QED
      BY <1>6, <2>1, FS_Injection
  <1>8. Range(s) = rows
    <2>1. \A i \in rows : \E m \in DOMAIN s : s[m] = i
      BY <1>3, <1>7 DEF Surjection
    <2>2. \A m \in DOMAIN s : s[m] \in rows
      BY <1>3
    <2> QED
      BY <2>1, <2>2 DEF Range
  <1>9. /\ s \in Seq(rows) /\ Len(s) = Cardinality(rows)
        /\ IsInjective(s) /\ Range(s) = rows /\ Increasing(s)
    BY <1>2, <1>4, <1>5, <1>8
  <1> HIDE DEF n
  <1> QED
    BY <1>9 DEF s

-----------------------------------------------------------------------------
(* Sequences that return each element once *)

LEMMA AppendElements ==
  ASSUME NEW S, NEW s \in Seq(S), NEW x \in S
  PROVE  /\ Append(s, x) \in Seq(S) /\ Len(Append(s, x)) = Len(s) + 1
         /\ Len(s) \in Nat
         /\ DOMAIN s = 1..Len(s) /\ DOMAIN Append(s, x) = 1..Len(s) + 1
         /\ \A j \in DOMAIN Append(s, x) :
              Append(s, x)[j] = IF j = Len(s) + 1 THEN x ELSE s[j]
  <1>1. /\ Append(s, x) \in Seq(S) /\ Len(Append(s, x)) = Len(s) + 1
        /\ Len(s) \in Nat
    OBVIOUS
  <1>2. DOMAIN s = 1..Len(s) /\ DOMAIN Append(s, x) = 1..Len(s) + 1
    BY <1>1, LenProperties
  <1>3. Append(s, x)[Len(s) + 1] = x /\ \A j \in 1..Len(s) : Append(s, x)[j] = s[j]
    OBVIOUS
  <1> DEFINE t == Append(s, x)
  <1> HIDE DEF t
  <1>4. \A j \in DOMAIN t : t[j] = IF j = Len(s) + 1 THEN x ELSE s[j]
    BY <1>1, <1>2, <1>3 DEF t
  <1> QED
    BY <1>1, <1>2, <1>4 DEF t

LEMMA AppendOnce ==
  ASSUME NEW S, NEW s \in Seq(S), NEW x \in S
  PROVE  /\ Range(Append(s, x)) = Range(s) \cup {x}
         /\ IsInjective(s) /\ x \notin Range(s) => IsInjective(Append(s, x))
  <1> DEFINE t == Append(s, x)
  <1>1. /\ Len(s) \in Nat /\ DOMAIN s = 1..Len(s) /\ DOMAIN t = 1..Len(s) + 1
        /\ \A j \in 1..Len(s) : t[j] = s[j]
        /\ t[Len(s) + 1] = x
    BY AppendElements
  <1> HIDE DEF t
  <1>2. Range(t) = Range(s) \cup {x}
    <2>1. ASSUME NEW y \in Range(t) PROVE y \in Range(s) \cup {x}
      BY <1>1, <2>1 DEF Range
    <2>2. x \in Range(t)
      BY <1>1 DEF Range
    <2>3. ASSUME NEW y \in Range(s) PROVE y \in Range(t)
      BY <1>1, <2>3 DEF Range
    <2> QED
      BY <2>1, <2>2, <2>3
  <1>3. IsInjective(s) /\ x \notin Range(s) => IsInjective(t)
    BY <1>1 DEF IsInjective, Range
  <1> QED
    BY <1>2, <1>3 DEF t

LEMMA LengthOfOnce ==
  ASSUME NEW S, NEW s \in Seq(S), IsInjective(s)
  PROVE  IsFiniteSet(Range(s)) /\ Cardinality(Range(s)) = Len(s)
  <1>1. Len(s) \in Nat /\ DOMAIN s = 1..Len(s) /\ s \in [1..Len(s) -> Range(s)]
    BY DEF Range
  <1>2. s \in Bijection(1..Len(s), Range(s))
    BY <1>1 DEF Bijection, Injection, Surjection, IsInjective, Range
  <1>3. ExistsBijection(1..Len(s), Range(s))
    BY <1>2 DEF ExistsBijection
  <1>4. QED
    BY <1>1, <1>3, FS_CountingElements, FS_NatBijection

LEMMA NoneInOrder == InOrder({}) = <<>>
  <1>1. {} \in SUBSET Int /\ IsFiniteSet({}) /\ Cardinality({}) = 0
    BY FS_EmptySet
  <1>2. InOrder({}) \in Seq({}) /\ Len(InOrder({})) = 0
    BY <1>1, OrderOf
  <1>3. QED
    BY <1>2, EmptySeq

\* The rows of a file are numbers, and as many as it has.
LEMMA SomeRows ==
  ASSUME Typed, NEW rows \in SUBSET Rows
  PROVE  rows \in SUBSET Int /\ IsFiniteSet(rows) /\ Cardinality(rows) \in 0..Len(file)
  <1>1. Len(file) \in Nat /\ IsFiniteSet(Rows) /\ Cardinality(Rows) = Len(file)
    BY FileIsSeq DEF Typed
  <1>2. IsFiniteSet(rows) /\ Cardinality(rows) <= Len(file)
    BY <1>1, FS_Subset
  <1>3. Cardinality(rows) \in Nat
    BY <1>2, FS_CardinalityType
  <1>4. rows \in SUBSET Int
    BY DEF Rows
  <1>5. QED
    BY <1>1, <1>2, <1>3, <1>4

\* What a pool of rows in order adds to a sequence of rows.
LEMMA InOrderOfRows ==
  ASSUME Typed, NEW rows \in SUBSET Rows
  PROVE  InOrder(rows) \in Seq(Rows)
  BY SomeRows, OrderOf, SeqMonotonic

-----------------------------------------------------------------------------
(* Chunks *)

\* The next chunk begins where a whole number of chunks ends.
LEMMA NextChunk ==
  ASSUME NEW n \in Nat, Whole(n)
  PROVE  Whole(n + ChunkSize) /\ n \div ChunkSize \in Nat
  <1> DEFINE k == n \div ChunkSize
  <1>1. ChunkSize \in Nat \ {0}
    BY SizesAssumption
  <1>2. k \in Nat /\ n = k * ChunkSize
    BY <1>1 DEF Whole
  <1> HIDE DEF k
  <1>3. n + ChunkSize = (k + 1) * ChunkSize
    BY <1>1, <1>2
  <1>4. (n + ChunkSize) \div ChunkSize = k + 1
    BY <1>1, <1>2, <1>3, QuotientIs
  <1>5. QED
    BY <1>2, <1>3, <1>4 DEF Whole, k

\* All rows of a chunk have its number.
LEMMA RowInChunk ==
  ASSUME Typed, ChunkInv, strategy = "chunked", NEW i \in first..last
  PROVE  (i - 1) \div ChunkSize = (first - 1) \div ChunkSize
  <1> DEFINE k == (first - 1) \div ChunkSize
  <1>1. ChunkSize \in Nat \ {0} /\ first \in Nat \ {0} /\ last \in Nat /\ i \in Nat
    BY SizesAssumption, FileIsSeq DEF Typed
  <1>2. Whole(first - 1) /\ last <= first - 1 + ChunkSize
    BY DEF ChunkInv
  <1>3. k \in Nat /\ first - 1 = k * ChunkSize
    BY <1>1, <1>2, NextChunk DEF Whole
  <1> HIDE DEF k
  <1>4. i - 1 \in Int /\ first - 1 <= i - 1 /\ i - 1 < first - 1 + ChunkSize
    BY <1>1, <1>2
  <1>5. k * ChunkSize <= i - 1 /\ i - 1 < k * ChunkSize + ChunkSize
    BY <1>3, <1>4
  <1>6. (i - 1) \div ChunkSize = k
    BY <1>1, <1>3, <1>4, <1>5, QuotientIs
  <1> QED
    BY <1>6 DEF k

\* The number of a row in an error is that of its line, in a chunk too.
LEMMA NumberIsLine ==
  ASSUME Typed, ChunkInv, NEW i \in first..last
  PROVE  Number(i) = Line(i)
  <1>1. ChunkSize \in Nat \ {0} /\ first \in Nat \ {0} /\ last \in Nat /\ i \in Nat
    BY SizesAssumption, FileIsSeq DEF Typed
  <1>2. CASE strategy = "chunked"
    <2> DEFINE k == (first - 1) \div ChunkSize
    <2>1. k \in Nat /\ first - 1 = k * ChunkSize
      BY <1>1, <1>2, NextChunk DEF ChunkInv, Whole
    <2>2. Number(i) = ((k + 1) - 1) * ChunkSize + (i - first) + 2
      BY <1>2 DEF Number
    <2> HIDE DEF k
    <2>3. ((k + 1) - 1) * ChunkSize = k * ChunkSize
      BY <2>1
    <2> QED
      BY <1>1, <2>1, <2>2, <2>3 DEF Line
  <1>3. CASE strategy # "chunked"
    BY <1>1, <1>3 DEF ChunkInv, Number, Line
  <1>4. QED
    BY <1>2, <1>3

-----------------------------------------------------------------------------
(* Typed *)

\* The bounds of the pool as integers, for the arithmetic of the steps.
LEMMA Bounds ==
  ASSUME Typed
  PROVE  /\ Len(file) \in Nat /\ Len(file) <= MaxRows /\ MaxRows \in Nat
         /\ last \in Nat /\ last <= Len(file)
         /\ first \in Nat \ {0} /\ first <= last + 1
         /\ sent \in Nat /\ first - 1 <= sent /\ sent <= last
         /\ taken \in Nat /\ first - 1 <= taken /\ taken <= sent
         /\ ChunkSize \in Nat \ {0}
  BY FileIsSeq, SizesAssumption DEF Typed

LEMMA WorkerBounds ==
  ASSUME Typed, NEW w \in Workers
  PROVE  worker[w] \in Int /\ -1 <= worker[w] /\ worker[w] <= last
  BY Bounds DEF Typed

\* What no action changes.
LEMMA SameFile ==
  ASSUME [Next]_vars
  PROVE  file' = file /\ format' = format /\ Rows' = Rows
  BY DEF Next, vars, pool, Task, Work, ChooseStrategy, Refuse, ProcessSequentially,
         StartPool, SendJob, CloseJobs, TakeJob, SendResult, EndWorker, CloseResults,
         CollectResult, EndPool, Rows

LEMMA TypedInit == Init => Typed
  <1> SUFFICES ASSUME Init PROVE Typed
    OBVIOUS
  <1>1. Len(file) \in Nat
    BY FileIsSeq, SizesAssumption DEF Init
  <1>2. results \in Seq(Rows \X Nat) /\ invoices \in Seq(Rows) /\ errors \in Seq(Nat)
    BY EmptySeq DEF Init
  <1>3. /\ last \in 0..Len(file) /\ first \in 1..last + 1
        /\ sent \in first - 1..last /\ taken \in first - 1..sent
        /\ worker \in [Workers -> -1..last] /\ total \in 0..MaxRows
    BY <1>1, SizesAssumption DEF Init
  <1>4. QED
    BY <1>2, <1>3 DEF Init, Typed

LEMMA CountedBound ==
  ASSUME Typed
  PROVE  Counted \in 0..MaxRows
  <1>1. {i \in Rows : file[i] # "empty"} \in SUBSET Rows
    OBVIOUS
  <1>2. QED
    BY <1>1, SomeRows, Bounds DEF Counted

LEMMA TypedEnds ==
  ASSUME Typed, ChooseStrategy \/ Refuse \/ ProcessSequentially
  PROVE  Typed'
  <1>1. file' = file /\ Rows' = Rows
    BY DEF ChooseStrategy, Refuse, ProcessSequentially, Rows
  <1>2. CASE ChooseStrategy
    <2>1. total' \in 0..MaxRows
      BY <1>2, CountedBound DEF ChooseStrategy
    <2>2. strategy' \in {"sequential", "concurrent", "chunked"}
      BY <1>2 DEF ChooseStrategy, Strategy
    <2>3. pc' \in {"sequential", "start"}
      BY <1>2 DEF ChooseStrategy
    <2> QED
      BY <1>1, <1>2, <2>1, <2>2, <2>3 DEF ChooseStrategy, Typed, pool
  <1>3. CASE Refuse
    BY <1>1, <1>3 DEF Refuse, Typed, pool
  <1>4. CASE ProcessSequentially
    <2> DEFINE bad == InOrder(RowsOf("invalid"))
    <2>1. InOrder(RowsOf("valid")) \in Seq(Rows) /\ bad \in Seq(Rows)
      BY InOrderOfRows DEF RowsOf
    <2>2. invoices' \in Seq(Rows)
      BY <1>4, <2>1 DEF ProcessSequentially
    <2>3. errors' = [j \in DOMAIN bad |-> Line(bad[j])]
      BY <1>4 DEF ProcessSequentially
    <2> HIDE DEF bad
    <2>4. DOMAIN bad = 1..Len(bad) /\ Len(bad) \in Nat
          /\ \A j \in DOMAIN bad : bad[j] \in Rows
      BY <2>1
    <2>5. \A i \in Rows : Line(i) \in Nat
      BY Bounds DEF Rows, Line
    <2>6. errors' \in Seq(Nat)
      BY <2>3, <2>4, <2>5
    <2> QED
      BY <1>1, <1>4, <2>2, <2>6 DEF ProcessSequentially, Typed, pool
  <1> QED
    BY <1>2, <1>3, <1>4

LEMMA TypedPool ==
  ASSUME Typed, StartPool \/ SendJob \/ CloseJobs \/ CloseResults
  PROVE  Typed'
  <1>1. file' = file /\ Rows' = Rows
    BY DEF StartPool, SendJob, CloseJobs, CloseResults, Rows
  <1>2. CASE StartPool
    <2>1. last' \in Nat /\ last <= last' /\ last' <= Len(file)
      BY <1>2, Bounds DEF StartPool, EndOfPool
    <2>2. first' = last + 1 /\ sent' = last /\ taken' = last
          /\ worker' = [w \in Workers |-> 0]
      BY <1>2 DEF StartPool
    <2>3. last' \in 0..Len(file) /\ first' \in 1..last' + 1
          /\ sent' \in first' - 1..last' /\ taken' \in first' - 1..sent'
          /\ worker' \in [Workers -> -1..last']
      BY <2>1, <2>2, Bounds
    <2> QED
      BY <1>1, <1>2, <2>3 DEF StartPool, Typed
  <1>3. CASE SendJob
    <2>1. sent' \in first - 1..last /\ taken \in first - 1..sent'
      BY <1>3, Bounds DEF SendJob
    <2> QED
      BY <1>1, <1>3, <2>1 DEF SendJob, Typed
  <1>4. CASE CloseJobs
    BY <1>1, <1>4 DEF CloseJobs, Typed
  <1>5. CASE CloseResults
    BY <1>1, <1>5 DEF CloseResults, Typed
  <1> QED
    BY <1>2, <1>3, <1>4, <1>5

LEMMA TypedWork ==
  ASSUME Typed, ChunkInv, PlaceInv, NEW w \in Workers, Work(w)
  PROVE  Typed'
  <1>1. file' = file /\ Rows' = Rows
    BY DEF Work, TakeJob, SendResult, EndWorker, Rows
  <1>2. CASE TakeJob(w)
    <2>1. taken < sent
      BY <1>2, Bounds DEF TakeJob, Jobs
    <2>2. taken' \in first - 1..sent /\ taken' \in -1..last
      BY <1>2, <2>1, Bounds DEF TakeJob
    <2>3. worker' \in [Workers -> -1..last]
      BY <1>2, <2>2 DEF TakeJob, Typed
    <2> QED
      BY <1>1, <1>2, <2>2, <2>3 DEF TakeJob, Typed
  <1>3. CASE SendResult(w)
    <2>1. worker[w] \in first..last
      <3>1. worker[w] \in first..taken
        BY <1>3 DEF SendResult, PlaceInv
      <3> QED
        BY <3>1, Bounds
    <2>2. <<worker[w], Number(worker[w])>> \in Rows \X Nat
      BY <2>1, NumberIsLine, Bounds DEF Rows, Line
    <2>3. results' \in Seq(Rows \X Nat)
      BY <1>3, <2>2, AppendElements DEF SendResult, Typed
    <2>4. worker' \in [Workers -> -1..last]
      BY <1>3, Bounds DEF SendResult, Typed
    <2> QED
      BY <1>1, <1>3, <2>3, <2>4 DEF SendResult, Typed
  <1>4. CASE EndWorker(w)
    <2>1. worker' \in [Workers -> -1..last]
      BY <1>4, Bounds DEF EndWorker, Typed
    <2> QED
      BY <1>1, <1>4, <2>1 DEF EndWorker, Typed
  <1> QED
    BY <1>2, <1>3, <1>4 DEF Work

\* The result that is collected: a row of the file and a number.
LEMMA FirstResult ==
  ASSUME Typed, CollectResult
  PROVE  /\ results # <<>> /\ Head(results) = results[1] /\ 1 \in DOMAIN results
         /\ results[1][1] \in Rows /\ results[1][2] \in Nat
         /\ results' = Tail(results) /\ results' \in Seq(Rows \X Nat)
         /\ Len(results') = Len(results) - 1 /\ Len(results) \in Nat \ {0}
         /\ DOMAIN results = 1..Len(results) /\ DOMAIN results' = 1..Len(results')
         /\ \A j \in DOMAIN results' : j + 1 \in DOMAIN results /\ results'[j] = results[j + 1]
  <1>1. results # <<>> /\ results' = Tail(results) /\ results \in Seq(Rows \X Nat)
    BY DEF CollectResult, Typed
  <1>2. Len(results) \in Nat \ {0} /\ DOMAIN results = 1..Len(results)
    BY <1>1
  <1>3. results[1] \in Rows \X Nat /\ Head(results) = results[1]
    BY <1>1, <1>2
  <1>4. results' \in Seq(Rows \X Nat) /\ Len(results') = Len(results) - 1
        /\ \A j \in 1..Len(results') : results'[j] = results[j + 1]
    BY <1>1, HeadTailProperties
  <1> QED
    BY <1>1, <1>2, <1>3, <1>4

LEMMA TypedCollect ==
  ASSUME Typed, CollectResult \/ EndPool
  PROVE  Typed'
  <1>1. file' = file /\ Rows' = Rows
    BY DEF CollectResult, EndPool, Rows
  <1>2. CASE CollectResult
    <2>1. errors' \in Seq(Nat)
      BY <1>2, FirstResult, AppendElements DEF CollectResult, Typed
    <2>2. invoices' \in Seq(Rows)
      BY <1>2, FirstResult, AppendElements DEF CollectResult, Typed
    <2>3. kept' \subseteq Rows
      BY <1>2, FirstResult DEF CollectResult, Typed
    <2> QED
      BY <1>1, <1>2, <2>1, <2>2, <2>3, FirstResult DEF CollectResult, Typed, pool
  <1>3. CASE EndPool
    <2>1. invoices' \in Seq(Rows)
      BY <1>3, InOrderOfRows, ConcatProperties DEF EndPool, Typed
    <2>2. kept' \subseteq Rows /\ pc' \in {"done", "start"}
      BY <1>3 DEF EndPool
    <2> QED
      BY <1>1, <1>3, <2>1, <2>2 DEF EndPool, Typed, pool
  <1> QED
    BY <1>2, <1>3

LEMMA TypedStep ==
  ASSUME ParsingInv, [Next]_vars
  PROVE  Typed'
  <1> USE DEF ParsingInv
  <1>1. CASE Task
    BY <1>1, TypedEnds, TypedPool, TypedCollect DEF Task
  <1>2. CASE Refuse \/ SendJob \/ CloseJobs \/ CloseResults
    BY <1>2, TypedEnds, TypedPool
  <1>3. CASE \E w \in Workers : Work(w)
    BY <1>3, TypedWork
  <1>4. CASE UNCHANGED vars
    BY <1>4 DEF vars, pool, Typed, Rows
  <1> QED
    BY <1>1, <1>2, <1>3, <1>4 DEF Next

-----------------------------------------------------------------------------
(* StageInv, PoolInv and ChunkInv *)

LEMMA StageInit == Init => StageInv
  BY DEF Init, StageInv

LEMMA StageStep ==
  ASSUME Typed, StageInv, [Next]_vars
  PROVE  StageInv'
  <1>1. Counted' = Counted
    BY SameFile DEF Counted
  <1>2. CASE ChooseStrategy
    <2>1. strategy' = Strategy /\ total' = Counted
          /\ pc' = IF strategy' = "sequential" THEN "sequential" ELSE "start"
      BY <1>2 DEF ChooseStrategy
    <2>2. strategy' \in {"sequential", "concurrent", "chunked"}
      BY <2>1 DEF Strategy
    <2> QED
      BY <1>1, <2>1, <2>2 DEF StageInv
  <1>3. CASE Refuse \/ ProcessSequentially \/ StartPool \/ EndPool
    BY <1>1, <1>3 DEF Refuse, ProcessSequentially, StartPool, EndPool, StageInv, Typed
  <1>4. CASE SendJob \/ CloseJobs \/ CloseResults \/ CollectResult
    BY <1>1, <1>4 DEF SendJob, CloseJobs, CloseResults, CollectResult, StageInv
  <1>5. CASE \E w \in Workers : Work(w)
    BY <1>1, <1>5 DEF Work, TakeJob, SendResult, EndWorker, StageInv
  <1>6. CASE UNCHANGED vars
    BY <1>1, <1>6 DEF vars, StageInv
  <1> QED
    BY <1>2, <1>3, <1>4, <1>5, <1>6 DEF Next, Task

LEMMA PoolInit == Init => PoolInv
  BY DEF Init, PoolInv, Waited

\* No worker takes a row, and none sends a result, outside of a pool.
LEMMA OnlyInPool ==
  ASSUME Typed, PoolInv, NEW w \in Workers, TakeJob(w) \/ SendResult(w)
  PROVE  pc = "collect"
  BY Bounds DEF PoolInv, Waited, TakeJob, SendResult

LEMMA PoolByWork ==
  ASSUME Typed, PoolInv, NEW w \in Workers, Work(w)
  PROVE  PoolInv'
  <1>1. CASE TakeJob(w)
    <2>1. pc = "collect" /\ pc' = "collect" /\ worker[w] = 0 /\ Jobs # {}
          /\ jobsClosed' = jobsClosed /\ sent' = sent /\ last' = last
      BY <1>1, OnlyInPool DEF TakeJob
    <2>2. \A v \in Workers : worker[v] # -1
      BY <2>1 DEF PoolInv, Exhausted
    <2>3. \A v \in Workers : worker'[v] # -1
      <3>1. taken' # -1
        BY <1>1, Bounds DEF TakeJob
      <3> QED
        BY <1>1, <2>2, <3>1 DEF TakeJob, Typed
    <2>4. ~resultsClosed'
      <3>1. ~resultsClosed
        BY <2>1, <2>2 DEF PoolInv, Waited
      <3> QED
        BY <1>1, <3>1 DEF TakeJob
    <2> QED
      BY <2>1, <2>3, <2>4 DEF PoolInv, Typed
  <1>2. CASE SendResult(w)
    <2>1. pc = "collect" /\ pc' = "collect" /\ ~resultsClosed'
      BY <1>2, OnlyInPool DEF SendResult
    <2>2. \A v \in Workers : worker'[v] = -1 => worker[v] = -1
      BY <1>2 DEF SendResult, Typed
    <2>3. Exhausted' = Exhausted
      BY <1>2 DEF SendResult, Exhausted, Jobs
    <2> QED
      BY <1>2, <2>1, <2>2, <2>3 DEF SendResult, PoolInv
  <1>3. CASE EndWorker(w)
    <2>1. pc = "collect" /\ pc' = "collect" /\ Exhausted /\ Exhausted'
          /\ resultsClosed' = resultsClosed
      BY <1>3 DEF EndWorker, Exhausted, Jobs
    <2>2. Waited => Waited'
      BY <1>3 DEF EndWorker, Waited, Typed
    <2> QED
      BY <1>3, <2>1, <2>2 DEF EndWorker, PoolInv
  <1> QED
    BY <1>1, <1>2, <1>3 DEF Work

\* When the results are at their end every row of the pool has been taken.
LEMMA PoolEnds ==
  ASSUME Typed, PoolInv, pc = "collect", resultsClosed
  PROVE  Waited /\ taken = last /\ sent = last
  <1>1. Waited
    BY DEF PoolInv
  <1>2. PICK w \in Workers : worker[w] = -1
    BY <1>1, WorkersAssumption DEF Waited
  <1>3. jobsClosed /\ Jobs = {}
    BY <1>2 DEF PoolInv, Exhausted
  <1>4. sent = last
    BY <1>3 DEF PoolInv
  <1>5. taken = sent
    BY <1>3, Bounds DEF Jobs
  <1> QED
    BY <1>1, <1>4, <1>5

LEMMA PoolStep ==
  ASSUME Typed, StageInv, PoolInv, [Next]_vars
  PROVE  PoolInv'
  <1>1. CASE ChooseStrategy \/ Refuse \/ ProcessSequentially
    <2>1. pc # "collect" /\ pc' # "collect" /\ UNCHANGED <<pool, results, kept>>
      BY <1>1 DEF ChooseStrategy, Refuse, ProcessSequentially
    <2> QED
      BY <2>1 DEF PoolInv, Waited, pool
  <1>2. CASE StartPool
    <2>1. pc' = "collect" /\ jobsClosed' = FALSE /\ resultsClosed' = FALSE
          /\ \A w \in Workers : worker'[w] = 0
      BY <1>2 DEF StartPool
    <2> QED
      BY <2>1 DEF PoolInv
  <1>3. CASE SendJob
    <2>1. pc' = "collect" /\ pc = "collect" /\ sent < last
      BY <1>3 DEF SendJob
    <2>2. ~jobsClosed
      BY <2>1, Bounds DEF PoolInv
    <2>3. \A w \in Workers : worker[w] # -1
      BY <2>1, <2>2 DEF PoolInv, Exhausted
    <2>4. ~resultsClosed
      BY <2>1, <2>3, WorkersAssumption DEF PoolInv, Waited
    <2> QED
      BY <1>3, <2>1, <2>2, <2>3, <2>4 DEF SendJob, PoolInv
  <1>4. CASE CloseJobs
    <2>1. pc' = "collect" /\ pc = "collect" /\ sent' = last' /\ ~jobsClosed
      BY <1>4 DEF CloseJobs
    <2>2. \A w \in Workers : worker[w] # -1
      BY <2>1 DEF PoolInv, Exhausted
    <2> QED
      BY <1>4, <2>1, <2>2 DEF CloseJobs, PoolInv, Waited
  <1>5. CASE CloseResults
    BY <1>5 DEF CloseResults, PoolInv, Waited, Exhausted, Jobs
  <1>6. CASE CollectResult
    BY <1>6 DEF CollectResult, pool, PoolInv, Waited, Exhausted, Jobs
  <1>7. CASE EndPool
    <2>1. Waited /\ taken = last /\ sent = last
      BY <1>7, PoolEnds DEF EndPool
    <2> QED
      BY <1>7, <2>1 DEF EndPool, pool, PoolInv, Waited
  <1>8. CASE \E w \in Workers : Work(w)
    BY <1>8, PoolByWork
  <1>9. CASE UNCHANGED vars
    BY <1>9 DEF vars, pool, PoolInv, Waited, Exhausted, Jobs
  <1> QED
    BY <1>1, <1>2, <1>3, <1>4, <1>5, <1>6, <1>7, <1>8, <1>9 DEF Next, Task

LEMMA ChunkInit == Init => ChunkInv
  <1> SUFFICES ASSUME Init PROVE ChunkInv
    OBVIOUS
  <1> QED
    BY DEF Init, ChunkInv

LEMMA ChunkStep ==
  ASSUME Typed, StageInv, PoolInv, ChunkInv, [Next]_vars
  PROVE  ChunkInv'
  <1>1. CASE ChooseStrategy
    <2>1. pc = "count" /\ strategy = "none" /\ pc' \in {"sequential", "start"}
          /\ UNCHANGED <<file, first, last>>
      BY <1>1 DEF ChooseStrategy, StageInv, pool
    <2>2. first = 1 /\ last = 0
      BY <2>1 DEF ChunkInv
    <2>3. Whole(0)
      BY SizesAssumption, QuotientIs DEF Whole
    <2>4. Whole(first' - 1) /\ Whole(last') /\ last' <= first' - 1 + ChunkSize
      BY <2>1, <2>2, <2>3, SizesAssumption
    <2> QED
      BY <2>1, <2>2, <2>4 DEF ChunkInv
  <1>2. CASE Refuse \/ ProcessSequentially
    BY <1>2 DEF Refuse, ProcessSequentially, pool, ChunkInv, StageInv, Whole
  <1>3. CASE StartPool
    <2>1. pc = "start" /\ pc' = "collect" /\ UNCHANGED <<file, strategy>>
          /\ first' = last + 1 /\ last' = EndOfPool
      BY <1>3 DEF StartPool
    <2>2. strategy \in {"concurrent", "chunked"}
      BY <2>1 DEF StageInv
    <2>3. CASE strategy = "chunked"
      <3>1. Whole(first' - 1)
        <4>1. first' - 1 = last
          BY <2>1, Bounds
        <4> QED
          BY <2>1, <2>3, <4>1 DEF ChunkInv
      <3>2. last' <= first' - 1 + ChunkSize
            /\ (last' = Len(file) \/ last' = first' - 1 + ChunkSize)
        BY <2>1, <2>3, Bounds DEF EndOfPool
      <3> QED
        BY <2>1, <2>3, <3>1, <3>2 DEF ChunkInv
    <2>4. CASE strategy = "concurrent"
      BY <2>1, <2>4 DEF ChunkInv, EndOfPool
    <2> QED
      BY <2>2, <2>3, <2>4
  <1>4. CASE EndPool
    <2>1. pc = "collect" /\ UNCHANGED <<file, strategy, first, last>>
          /\ pc' = IF last = Len(file) THEN "done" ELSE "start"
      BY <1>4 DEF EndPool, pool
    <2>2. CASE strategy = "chunked"
      <3>1. pc' = "start" => Whole(last)
        <4>1. Whole(first - 1 + ChunkSize)
          BY <2>2, Bounds, NextChunk DEF ChunkInv
        <4> QED
          BY <2>1, <2>2, <4>1 DEF ChunkInv
      <3> QED
        BY <2>1, <2>2, <3>1 DEF ChunkInv, Whole
    <2>3. CASE strategy # "chunked"
      BY <2>1, <2>3 DEF ChunkInv, StageInv
    <2> QED
      BY <2>2, <2>3
  <1>5. CASE SendJob \/ CloseJobs \/ CloseResults \/ CollectResult
    BY <1>5 DEF SendJob, CloseJobs, CloseResults, CollectResult, pool, ChunkInv, Whole
  <1>6. CASE \E w \in Workers : Work(w)
    BY <1>6 DEF Work, TakeJob, SendResult, EndWorker, ChunkInv, Whole
  <1>7. CASE UNCHANGED vars
    BY <1>7 DEF vars, pool, ChunkInv, Whole
  <1> QED
    BY <1>1, <1>2, <1>3, <1>4, <1>5, <1>6, <1>7 DEF Next, Task

-----------------------------------------------------------------------------
(* PlaceInv *)

LEMMA PlaceInit == Init => PlaceInv
  <1> SUFFICES ASSUME Init PROVE PlaceInv
    OBVIOUS
  <1>1. results = <<>> /\ \A w \in Workers : worker[w] = -1
    BY DEF Init
  <1>2. DOMAIN results = {}
    BY <1>1
  <1> QED
    BY <1>1, <1>2 DEF PlaceInv

\* A worker takes the row after all those that are on their way.
LEMMA PlaceTake ==
  ASSUME Typed, PlaceInv, NEW w \in Workers, TakeJob(w)
  PROVE  PlaceInv'
  <1>1. /\ taken' = taken + 1 /\ results' = results /\ first' = first
        /\ worker' = [worker EXCEPT ![w] = taken'] /\ worker \in [Workers -> -1..last]
    BY DEF TakeJob, Typed
  <1>2. first \in Int /\ taken \in Int /\ first <= taken'
    BY <1>1, Bounds
  <1>3. \A v \in Workers : worker'[v] = IF v = w THEN taken' ELSE worker[v]
    BY <1>1
  <1>4. \A v \in Workers : worker'[v] > 0 => worker'[v] \in first..taken'
    BY <1>1, <1>2, <1>3 DEF PlaceInv
  <1>5. \A j \in DOMAIN results : /\ results[j][1] \in first..taken'
                                  /\ results[j][2] = Line(results[j][1])
    BY <1>1, <1>2 DEF PlaceInv
  <1>6. \A v \in Workers : worker[v] # taken'
    <2>1. \A v \in Workers : worker[v] > 0 => worker[v] \in first..taken
      BY DEF PlaceInv
    <2>2. taken' > 0 /\ \A v \in Workers : worker[v] \in Int
      BY <1>1, Bounds
    <2> QED
      BY <1>1, <1>2, <2>1, <2>2
  <1>7. \A u, v \in Workers : worker'[u] > 0 /\ worker'[u] = worker'[v] => u = v
    BY <1>3, <1>6 DEF PlaceInv
  <1>8. \A j \in DOMAIN results : results[j][1] # taken'
    BY <1>1, <1>2 DEF PlaceInv
  <1>9. \A v \in Workers, j \in DOMAIN results : worker'[v] # results[j][1]
    BY <1>3, <1>8 DEF PlaceInv
  <1> QED
    BY <1>1, <1>4, <1>5, <1>7, <1>9 DEF PlaceInv, Line

\* A row goes from its worker to the end of the results.
LEMMA PlaceSend ==
  ASSUME Typed, ChunkInv, PlaceInv, NEW w \in Workers, SendResult(w)
  PROVE  PlaceInv'
  <1> DEFINE r == <<worker[w], Number(worker[w])>>
  <1>1. /\ taken' = taken /\ first' = first /\ worker[w] > 0
        /\ results' = Append(results, r)
        /\ worker' = [worker EXCEPT ![w] = 0] /\ worker \in [Workers -> -1..last]
    BY DEF SendResult, Typed
  <1>2. worker[w] \in first..taken /\ worker[w] \in first..last
    BY <1>1, Bounds DEF PlaceInv
  <1>3. r[1] = worker[w] /\ r[2] = Line(worker[w])
    BY <1>2, NumberIsLine
  <1>4. /\ DOMAIN results = 1..Len(results) /\ DOMAIN results' = 1..Len(results) + 1
        /\ Len(results) \in Nat
        /\ \A j \in DOMAIN results' :
             results'[j] = IF j = Len(results) + 1 THEN r ELSE results[j]
    <2>1. r \in Rows \X Nat
      <3>1. worker[w] \in Nat \ {0} /\ worker[w] <= Len(file)
        BY <1>2, Bounds
      <3>2. worker[w] \in Rows
        BY <3>1, Bounds DEF Rows
      <3>3. Line(worker[w]) \in Nat
        BY <3>1 DEF Line
      <3>4. Number(worker[w]) = Line(worker[w])
        BY <1>2, NumberIsLine
      <3> QED
        BY <3>2, <3>3, <3>4
    <2>2. results \in Seq(Rows \X Nat)
      BY DEF Typed
    <2> HIDE DEF r
    <2> QED
      BY <1>1, <2>1, <2>2, AppendElements
  <1> HIDE DEF r
  <1>5. \A v \in Workers : worker'[v] = IF v = w THEN 0 ELSE worker[v]
    BY <1>1
  <1>6. \A v \in Workers : worker'[v] > 0 => worker'[v] \in first..taken
    BY <1>5 DEF PlaceInv
  <1>7. \A j \in DOMAIN results' : /\ results'[j][1] \in first..taken
                                   /\ results'[j][2] = Line(results'[j][1])
    BY <1>2, <1>3, <1>4 DEF PlaceInv
  <1>8. \A u, v \in Workers : worker'[u] > 0 /\ worker'[u] = worker'[v] => u = v
    BY <1>5 DEF PlaceInv
  <1>9. \A j, k \in DOMAIN results' : results'[j][1] = results'[k][1] => j = k
    BY <1>3, <1>4 DEF PlaceInv
  <1>10. \A v \in Workers, j \in DOMAIN results' : worker'[v] # results'[j][1]
    <2>1. first > 0
      BY Bounds
    <2>2. \A j \in DOMAIN results' : results'[j][1] # 0
      BY <1>7, <2>1, Bounds
    <2>3. \A v \in Workers : v # w => worker[v] # worker[w]
      BY <1>1 DEF PlaceInv
    <2>4. \A v \in Workers, j \in DOMAIN results : worker[v] # results[j][1]
      BY DEF PlaceInv
    <2>5. \A j \in DOMAIN results' : j = Len(results) + 1 \/ j \in DOMAIN results
      BY <1>4
    <2> QED
      BY <1>3, <1>4, <1>5, <2>2, <2>3, <2>4, <2>5
  <1> QED
    BY <1>1, <1>6, <1>7, <1>8, <1>9, <1>10 DEF PlaceInv, Line

LEMMA PlaceCollect ==
  ASSUME Typed, PlaceInv, CollectResult
  PROVE  PlaceInv'
  <1>1. UNCHANGED <<first, taken, worker>>
    BY DEF CollectResult, pool
  <1>2. DOMAIN results \subseteq Nat /\ DOMAIN results' \subseteq Nat
        /\ \A j \in DOMAIN results' : j + 1 \in DOMAIN results /\ results'[j] = results[j + 1]
    BY FirstResult
  <1>3. \A j \in DOMAIN results' : /\ results'[j][1] \in first..taken
                                   /\ results'[j][2] = Line(results'[j][1])
    BY <1>2 DEF PlaceInv
  <1>4. \A j, k \in DOMAIN results' : results'[j][1] = results'[k][1] => j = k
    BY <1>2 DEF PlaceInv
  <1>5. \A w \in Workers, j \in DOMAIN results' : worker[w] # results'[j][1]
    BY <1>2 DEF PlaceInv
  <1> QED
    BY <1>1, <1>3, <1>4, <1>5 DEF PlaceInv, Line

LEMMA PlaceStep ==
  ASSUME Typed, PoolInv, ChunkInv, PlaceInv, [Next]_vars
  PROVE  PlaceInv'
  <1>1. CASE StartPool
    <2>1. results = <<>> /\ results' = results
      BY <1>1 DEF StartPool, PoolInv
    <2>2. DOMAIN results' = {}
      BY <2>1
    <2>3. \A w \in Workers : worker'[w] = 0
      BY <1>1 DEF StartPool
    <2> QED
      BY <2>2, <2>3 DEF PlaceInv
  <1>2. CASE ChooseStrategy \/ Refuse \/ ProcessSequentially \/ EndPool \/ SendJob
             \/ CloseJobs \/ CloseResults \/ UNCHANGED vars
    <2>1. UNCHANGED <<first, taken, worker, results>>
      BY <1>2 DEF ChooseStrategy, Refuse, ProcessSequentially, EndPool, SendJob,
                  CloseJobs, CloseResults, vars, pool
    <2> QED
      BY <2>1 DEF PlaceInv, Line
  <1>3. CASE CollectResult
    BY <1>3, PlaceCollect
  <1>4. ASSUME NEW w \in Workers, Work(w) PROVE PlaceInv'
    <2>1. CASE EndWorker(w)
      <3>1. /\ UNCHANGED <<first, taken, results>>
            /\ \A v \in Workers : worker'[v] = IF v = w THEN -1 ELSE worker[v]
        BY <2>1 DEF EndWorker, Typed
      <3>2. \A j \in DOMAIN results : results[j][1] # -1
        BY Bounds DEF PlaceInv
      <3> QED
        BY <3>1, <3>2 DEF PlaceInv, Line
    <2> QED
      BY <1>4, <2>1, PlaceTake, PlaceSend DEF Work
  <1> QED
    BY <1>1, <1>2, <1>3, <1>4 DEF Next, Task

\* A pool never has more results than rows.
LEMMA ResultsFit ==
  ASSUME Typed, PlaceInv
  PROVE  Len(results) <= last - first + 1
  <1> DEFINE f == [j \in DOMAIN results |-> results[j][1]]
  <1>1. Len(results) \in Nat /\ DOMAIN results = 1..Len(results)
    BY DEF Typed
  <1>2. f \in Injection(1..Len(results), first..taken)
    BY <1>1 DEF PlaceInv, Injection, IsInjective
  <1>3. IsFiniteSet(first..taken) /\ Cardinality(first..taken) = taken - first + 1
        /\ Cardinality(1..Len(results)) = Len(results)
    <2>1. first \in Int /\ taken \in Int /\ first <= taken + 1
      BY Bounds
    <2>2. 1 \in Int /\ Len(results) \in Int
          /\ Cardinality(1..Len(results)) = IF 1 > Len(results) THEN 0
                                            ELSE Len(results) - 1 + 1
      BY <1>1, FS_Interval
    <2>3. IsFiniteSet(first..taken)
          /\ Cardinality(first..taken) = IF first > taken THEN 0 ELSE taken - first + 1
      BY <2>1, FS_Interval
    <2> QED
      BY <1>1, <2>1, <2>2, <2>3
  <1> HIDE DEF f
  <1>4. Len(results) <= taken - first + 1
    BY <1>2, <1>3, FS_Injection
  <1> QED
    BY <1>1, <1>4, Bounds

-----------------------------------------------------------------------------
(* ReturnInv *)

LEMMA ConcatOnce ==
  ASSUME NEW S, NEW s \in Seq(S), NEW t \in Seq(S)
  PROVE  /\ s \o t \in Seq(S) /\ Len(s \o t) = Len(s) + Len(t)
         /\ DOMAIN (s \o t) = 1..Len(s) + Len(t)
         /\ Range(s \o t) = Range(s) \cup Range(t)
         /\ IsInjective(s) /\ IsInjective(t) /\ Range(s) \cap Range(t) = {}
              => IsInjective(s \o t)
  <1> DEFINE u == s \o t
  <1>1. /\ u \in Seq(S) /\ Len(u) = Len(s) + Len(t)
        /\ \A i \in 1..Len(s) + Len(t) : u[i] = IF i <= Len(s) THEN s[i] ELSE t[i - Len(s)]
    BY ConcatProperties
  <1>2. /\ Len(s) \in Nat /\ Len(t) \in Nat
        /\ DOMAIN s = 1..Len(s) /\ DOMAIN t = 1..Len(t) /\ DOMAIN u = 1..Len(s) + Len(t)
    BY <1>1
  <1> HIDE DEF u
  <1>3. \A i \in DOMAIN u : \/ i \in DOMAIN s /\ u[i] = s[i]
                            \/ i - Len(s) \in DOMAIN t /\ u[i] = t[i - Len(s)]
    BY <1>1, <1>2
  <1>4. /\ \A i \in DOMAIN s : i \in DOMAIN u /\ u[i] = s[i]
        /\ \A i \in DOMAIN t : i + Len(s) \in DOMAIN u /\ u[i + Len(s)] = t[i]
    BY <1>1, <1>2
  <1>5. Range(u) = Range(s) \cup Range(t)
    <2>1. ASSUME NEW y \in Range(u) PROVE y \in Range(s) \cup Range(t)
      BY <1>3, <2>1 DEF Range
    <2>2. ASSUME NEW y \in Range(s) \cup Range(t) PROVE y \in Range(u)
      BY <1>4, <2>2 DEF Range
    <2> QED
      BY <2>1, <2>2
  <1>6. ASSUME IsInjective(s), IsInjective(t), Range(s) \cap Range(t) = {}
        PROVE  IsInjective(u)
    <2> SUFFICES ASSUME NEW i \in DOMAIN u, NEW k \in DOMAIN u, u[i] = u[k]
                 PROVE  i = k
      BY DEF IsInjective
    <2>1. \A j \in DOMAIN s, m \in DOMAIN t : s[j] # t[m]
      BY <1>6 DEF Range
    <2>2. CASE i \in DOMAIN s /\ u[i] = s[i] /\ k \in DOMAIN s /\ u[k] = s[k]
      BY <1>6, <2>2 DEF IsInjective
    <2>3. CASE /\ i - Len(s) \in DOMAIN t /\ u[i] = t[i - Len(s)]
               /\ k - Len(s) \in DOMAIN t /\ u[k] = t[k - Len(s)]
      <3>1. i - Len(s) = k - Len(s)
        BY <1>6, <2>3 DEF IsInjective
      <3> QED
        BY <1>2, <3>1
    <2> QED
      BY <1>3, <2>1, <2>2, <2>3
  <1> QED
    BY <1>1, <1>2, <1>5, <1>6 DEF u

LEMMA ReturnInit == Init => ReturnInv
  <1> SUFFICES ASSUME Init PROVE ReturnInv
    OBVIOUS
  <1>1. invoices = <<>> /\ errors = <<>> /\ kept = {} /\ Through = {}
    BY DEF Init, Through
  <1>2. DOMAIN invoices = {} /\ DOMAIN errors = {}
    BY <1>1
  <1> QED
    BY <1>1, <1>2 DEF ReturnInv, Range, IsInjective

\* A step that leaves what is through and what is returned.
LEMMA ReturnFrame ==
  ASSUME ReturnInv, Through' = Through, UNCHANGED <<file, kept, invoices, errors>>
  PROVE  ReturnInv'
  <1> DEFINE V == {i \in Through : file[i] = "valid"}
             I == {Line(i) : i \in {j \in Through : file[j] = "invalid"}}
  <1>1. V' = V /\ I' = I
    BY DEF Line
  <1>2. kept \cup Range(invoices) = V /\ Range(errors) = I
    BY DEF ReturnInv
  <1>3. Range(invoices)' = Range(invoices) /\ Range(errors)' = Range(errors)
        /\ IsInjective(invoices)' = IsInjective(invoices)
        /\ IsInjective(errors)' = IsInjective(errors)
    BY DEF Range, IsInjective
  <1> QED
    BY <1>1, <1>2, <1>3 DEF ReturnInv

\* The same rows are on their way.
LEMMA SameThrough ==
  ASSUME Typed, taken' = taken, Rows' = Rows,
         strategy' = "sequential" /\ pc' = "done" <=> strategy = "sequential" /\ pc = "done",
         \A i \in 1..taken : Waiting(i)' = Waiting(i)
  PROVE  Through' = Through
  BY DEF Through

LEMMA ReturnSequential ==
  ASSUME Typed, StageInv, PoolInv, ProcessSequentially
  PROVE  ReturnInv'
  <1> DEFINE good == InOrder(RowsOf("valid"))
             bad == InOrder(RowsOf("invalid"))
  <1>1. /\ strategy' = "sequential" /\ pc' = "done" /\ kept' = {} /\ file' = file
        /\ invoices' = good /\ errors' = [j \in DOMAIN bad |-> Line(bad[j])]
    BY DEF ProcessSequentially, StageInv, PoolInv
  <1>2. Through' = Rows
    BY <1>1 DEF Through, Rows
  <1>3. RowsOf("valid") \in SUBSET Rows /\ RowsOf("invalid") \in SUBSET Rows
    BY DEF RowsOf
  <1>4. /\ IsInjective(good) /\ Range(good) = RowsOf("valid")
        /\ IsInjective(bad) /\ Range(bad) = RowsOf("invalid")
    BY <1>3, SomeRows, OrderOf
  <1> HIDE DEF good, bad
  <1>5. \A j \in DOMAIN bad : bad[j] \in Int
    BY <1>3, <1>4, SomeRows DEF Range
  <1>6. IsInjective(errors)'
    BY <1>1, <1>4, <1>5 DEF IsInjective, Line
  <1>7. Range(errors)' = {Line(i) : i \in RowsOf("invalid")}
    BY <1>1, <1>4 DEF Range
  <1>8. (kept \cup Range(invoices) = {i \in Through : file[i] = "valid"})'
    BY <1>1, <1>2, <1>4 DEF Range, RowsOf
  <1>9. (Range(errors) = {Line(i) : i \in {j \in Through : file[j] = "invalid"}})'
    BY <1>1, <1>2, <1>7 DEF RowsOf, Line
  <1> QED
    BY <1>1, <1>4, <1>6, <1>8, <1>9 DEF ReturnInv, IsInjective

\* A worker that takes, ends or sends does not bring a row through.
LEMMA ReturnByWork ==
  ASSUME Typed, StageInv, PoolInv, PlaceInv, ReturnInv, NEW w \in Workers, Work(w)
  PROVE  ReturnInv'
  <1>1. UNCHANGED <<file, kept, invoices, errors, pc, strategy>> /\ Rows' = Rows
    BY DEF Work, TakeJob, SendResult, EndWorker, Rows
  <1>2. CASE TakeJob(w)
    <2>1. /\ taken' = taken + 1 /\ results' = results /\ worker[w] = 0
          /\ \A v \in Workers : worker'[v] = IF v = w THEN taken' ELSE worker[v]
      BY <1>2 DEF TakeJob, Typed
    <2>2. pc # "done"
      BY <1>2, OnlyInPool
    <2>3. ASSUME NEW i \in 1..taken PROVE Waiting(i)' <=> Waiting(i)
      <3>1. i # 0 /\ i # taken'
        BY <2>1, Bounds
      <3> QED
        BY <2>1, <3>1 DEF Waiting
    <2>4. ASSUME NEW i, i = taken' PROVE Waiting(i)'
      BY <2>1, <2>4 DEF Waiting
    <2>5. 1..taken' = 1..taken \cup {taken'}
      BY <2>1, Bounds
    <2>6. {i \in 1..taken' : ~Waiting(i)'} = {i \in 1..taken : ~Waiting(i)}
      BY <2>3, <2>4, <2>5
    <2>7. Through' = Through
      BY <1>1, <2>2, <2>6 DEF Through
    <2> QED
      BY <1>1, <2>7, ReturnFrame
  <1>3. CASE SendResult(w)
    <2>1. /\ taken' = taken
          /\ results' = Append(results, <<worker[w], Number(worker[w])>>)
          /\ \A v \in Workers : worker'[v] = IF v = w THEN 0 ELSE worker[v]
      BY <1>3 DEF SendResult, Typed
    <2>2. results \in Seq(Rows \X Nat)
      BY DEF Typed
    <2>3. /\ DOMAIN results' = DOMAIN results \cup {Len(results) + 1}
          /\ \A j \in DOMAIN results : results'[j] = results[j]
          /\ results'[Len(results) + 1][1] = worker[w]
      BY <2>1, <2>2
    <2>4. ASSUME NEW i \in 1..taken PROVE Waiting(i)' = Waiting(i)
      <3>1. CASE worker[w] = i
        BY <2>3, <3>1 DEF Waiting
      <3>2. CASE worker[w] # i
        <4>1. \A v \in Workers : worker'[v] = i <=> worker[v] = i
          BY <2>1, <3>2
        <4>2. (\E j \in DOMAIN results' : results'[j][1] = i)
                <=> \E j \in DOMAIN results : results[j][1] = i
          BY <2>3, <3>2
        <4> QED
          BY <4>1, <4>2 DEF Waiting
      <3> QED
        BY <3>1, <3>2
    <2> QED
      BY <1>1, <2>1, <2>4, SameThrough, ReturnFrame
  <1>4. CASE EndWorker(w)
    <2>1. /\ taken' = taken /\ results' = results /\ worker[w] = 0
          /\ \A v \in Workers : worker'[v] = IF v = w THEN -1 ELSE worker[v]
      BY <1>4 DEF EndWorker, Typed
    <2>2. ASSUME NEW i \in 1..taken PROVE Waiting(i)' = Waiting(i)
      <3>1. i # 0 /\ i # -1
        BY Bounds
      <3>2. \A v \in Workers : worker'[v] = i <=> worker[v] = i
        BY <2>1, <3>1
      <3> QED
        BY <2>1, <3>2 DEF Waiting
    <2> QED
      BY <1>1, <2>1, <2>2, SameThrough, ReturnFrame
  <1> QED
    BY <1>2, <1>3, <1>4 DEF Work

\* The first result is the only place of its row: now it is through.
LEMMA ThroughCollect ==
  ASSUME Typed, StageInv, PlaceInv, CollectResult
  PROVE  Through' = Through \cup {results[1][1]} /\ results[1][1] \notin Through
  <1> DEFINE row == results[1][1]
  <1>1. /\ UNCHANGED <<taken, worker, strategy>> /\ pc = "collect" /\ pc' = "collect"
    BY DEF CollectResult, pool
  <1>2. /\ DOMAIN results = 1..Len(results) /\ DOMAIN results' = 1..Len(results) - 1
        /\ Len(results) \in Nat \ {0}
        /\ \A j \in DOMAIN results' : results'[j] = results[j + 1]
    BY FirstResult
  <1>3. row \in first..taken /\ row \in 1..taken
    <2>1. row \in first..taken
      BY <1>2 DEF PlaceInv
    <2> QED
      BY <2>1, Bounds
  <1>4. ASSUME NEW i \in 1..taken PROVE Waiting(i)' <=> Waiting(i) /\ i # row
    <2>1. (\E j \in DOMAIN results' : results'[j][1] = i)
            <=> \E k \in DOMAIN results : k # 1 /\ results[k][1] = i
      <3>1. ASSUME NEW k \in DOMAIN results, k # 1
            PROVE  k - 1 \in DOMAIN results' /\ results'[k - 1] = results[k]
        BY <1>2, <3>1
      <3>2. ASSUME NEW j \in DOMAIN results'
            PROVE  j + 1 \in DOMAIN results /\ j + 1 # 1 /\ results'[j] = results[j + 1]
        BY <1>2, <3>2
      <3> QED
        BY <3>1, <3>2
    <2>2. \A k \in DOMAIN results : k # 1 <=> results[k][1] # row
      BY <1>2 DEF PlaceInv
    <2>3. \A w \in Workers : worker[w] # row
      BY <1>2 DEF PlaceInv
    <2> QED
      BY <1>1, <2>1, <2>2, <2>3 DEF Waiting
  <1>5. Waiting(row)
    BY <1>2 DEF Waiting
  <1> QED
    BY <1>1, <1>3, <1>4, <1>5 DEF Through

LEMMA ReturnCollect ==
  ASSUME Typed, StageInv, PlaceInv, ReturnInv, CollectResult
  PROVE  ReturnInv'
  <1> DEFINE row == results[1][1]
             V == {i \in Through : file[i] = "valid"}
             I == {Line(i) : i \in {j \in Through : file[j] = "invalid"}}
             T == Through \cup {row}
  <1>1. /\ row \in Rows /\ results[1][2] = Line(row) /\ Head(results) = results[1]
        /\ row \notin Through /\ Through' = T
    BY FirstResult, ThroughCollect DEF PlaceInv
  <1>2. /\ file' = file
        /\ errors' = IF file[row] = "invalid" THEN Append(errors, Line(row)) ELSE errors
        /\ kept' = IF file[row] = "valid" /\ ByIndex THEN kept \cup {row} ELSE kept
        /\ invoices' = IF file[row] = "valid" /\ ~ByIndex THEN Append(invoices, row)
                                                          ELSE invoices
    BY <1>1 DEF CollectResult
  <1>3. /\ IsInjective(invoices) /\ IsInjective(errors) /\ kept \cap Range(invoices) = {}
        /\ kept \cup Range(invoices) = V /\ Range(errors) = I
        /\ invoices \in Seq(Rows) /\ errors \in Seq(Nat)
    BY DEF ReturnInv, Typed
  <1>4. row \notin kept /\ row \notin Range(invoices)
    BY <1>1, <1>3
  <1>5. Line(row) \in Nat /\ Line(row) \notin Range(errors)
    <2>1. row \in Int /\ row > 0 /\ Through \subseteq Int
      BY <1>1, Bounds DEF Rows, Through
    <2>2. Line(row) \in Nat
      BY <2>1 DEF Line
    <2>3. \A i \in Through : Line(i) # Line(row)
      BY <1>1, <2>1 DEF Line
    <2> QED
      BY <1>3, <2>2, <2>3
  <1>6. /\ (file[row] = "valid" => {i \in T : file[i] = "valid"} = V \cup {row})
        /\ (file[row] # "valid" => {i \in T : file[i] = "valid"} = V)
    OBVIOUS
  <1>7. /\ (file[row] = "invalid" =>
              {Line(i) : i \in {j \in T : file[j] = "invalid"}} = I \cup {Line(row)})
        /\ (file[row] # "invalid" =>
              {Line(i) : i \in {j \in T : file[j] = "invalid"}} = I)
    OBVIOUS
  <1> HIDE DEF row, V, I, T
  <1>8. IsInjective(errors') /\ Range(errors') = IF file[row] = "invalid"
                                THEN Range(errors) \cup {Line(row)} ELSE Range(errors)
    <2>1. CASE file[row] = "invalid"
      BY <1>2, <1>3, <1>5, <2>1, AppendOnce
    <2>2. CASE file[row] # "invalid"
      BY <1>2, <1>3, <2>2
    <2> QED
      BY <2>1, <2>2
  <1>9. IsInjective(invoices')
        /\ Range(invoices') = IF file[row] = "valid" /\ ~ByIndex
                              THEN Range(invoices) \cup {row} ELSE Range(invoices)
    <2>1. CASE file[row] = "valid" /\ ~ByIndex
      BY <1>1, <1>2, <1>3, <1>4, <2>1, AppendOnce
    <2>2. CASE ~(file[row] = "valid" /\ ~ByIndex)
      BY <1>2, <1>3, <2>2
    <2> QED
      BY <2>1, <2>2
  <1>10. kept' \cap Range(invoices') = {}
         /\ kept' \cup Range(invoices') = {i \in T : file[i] = "valid"}
    BY <1>2, <1>3, <1>4, <1>6, <1>9
  <1>11. Range(errors') = {Line(i) : i \in {j \in T : file[j] = "invalid"}}
    BY <1>3, <1>7, <1>8
  <1> QED
    BY <1>1, <1>2, <1>8, <1>9, <1>10, <1>11 DEF ReturnInv, IsInjective, Range, Line

LEMMA ReturnEnd ==
  ASSUME Typed, StageInv, ReturnInv, EndPool
  PROVE  ReturnInv'
  <1> DEFINE t == InOrder(kept)
  <1>1. /\ UNCHANGED <<file, taken, worker, results, strategy, errors>> /\ Rows' = Rows
        /\ invoices' = invoices \o t /\ kept' = {} /\ strategy # "sequential"
    BY DEF EndPool, pool, Rows, StageInv
  <1>2. Through' = Through
    BY <1>1 DEF Through, Waiting
  <1>3. /\ IsInjective(invoices) /\ kept \cap Range(invoices) = {} /\ kept \subseteq Rows
        /\ kept \cup Range(invoices) = {i \in Through : file[i] = "valid"}
        /\ invoices \in Seq(Rows)
    BY DEF ReturnInv, Typed
  <1>4. t \in Seq(Rows) /\ IsInjective(t) /\ Range(t) = kept
    BY <1>3, SomeRows, OrderOf, InOrderOfRows
  <1> HIDE DEF t
  <1>5. IsInjective(invoices') /\ Range(invoices') = Range(invoices) \cup kept
    BY <1>1, <1>3, <1>4, ConcatOnce
  <1>6. (kept \cup Range(invoices) = {i \in Through : file[i] = "valid"})'
    BY <1>1, <1>2, <1>3, <1>5 DEF Range
  <1>7. /\ IsInjective(errors)'
        /\ (Range(errors) = {Line(i) : i \in {j \in Through : file[j] = "invalid"}})'
    <2> DEFINE I == {Line(i) : i \in {j \in Through : file[j] = "invalid"}}
    <2>1. I' = I
      BY <1>1, <1>2 DEF Line
    <2>2. IsInjective(errors) /\ Range(errors) = I
      BY DEF ReturnInv
    <2>3. IsInjective(errors)' = IsInjective(errors) /\ Range(errors)' = Range(errors)
      BY <1>1 DEF IsInjective, Range
    <2> HIDE DEF I
    <2>4. IsInjective(errors)' /\ (Range(errors) = I)'
      BY <2>1, <2>2, <2>3
    <2> QED
      BY <2>4 DEF I
  <1>8. IsInjective(invoices)' /\ (kept \cap Range(invoices) = {})'
    BY <1>1, <1>5 DEF IsInjective
  <1> QED
    BY <1>6, <1>7, <1>8 DEF ReturnInv

LEMMA ReturnStep ==
  ASSUME Typed, StageInv, PoolInv, PlaceInv, ReturnInv, [Next]_vars
  PROVE  ReturnInv'
  <1>1. CASE StartPool
    <2>1. /\ taken' = last /\ taken = last /\ results = <<>> /\ results' = results
          /\ \A w \in Workers : worker[w] = -1 /\ worker'[w] = 0
          /\ UNCHANGED <<file, strategy, kept, invoices, errors>>
          /\ pc # "done" /\ pc' # "done"
      BY <1>1 DEF StartPool, PoolInv, Waited
    <2>2. \A i \in 1..taken : Waiting(i)' = Waiting(i)
      BY <2>1, Bounds DEF Waiting
    <2> QED
      BY <2>1, <2>2, SameFile, SameThrough, ReturnFrame
  <1>2. CASE ChooseStrategy \/ Refuse \/ SendJob \/ CloseJobs \/ CloseResults
             \/ UNCHANGED vars
    <2>1. UNCHANGED <<file, taken, worker, results, kept, invoices, errors>>
      BY <1>2 DEF ChooseStrategy, Refuse, SendJob, CloseJobs, CloseResults, vars, pool
    <2>2. strategy' = "sequential" /\ pc' = "done" <=> strategy = "sequential" /\ pc = "done"
      BY <1>2 DEF ChooseStrategy, Refuse, SendJob, CloseJobs, CloseResults, vars
    <2>3. \A i \in 1..taken : Waiting(i)' = Waiting(i)
      BY <2>1 DEF Waiting
    <2> QED
      BY <2>1, <2>2, <2>3, SameFile, SameThrough, ReturnFrame
  <1>3. CASE ProcessSequentially
    BY <1>3, ReturnSequential
  <1>4. CASE CollectResult
    BY <1>4, ReturnCollect
  <1>5. CASE EndPool
    BY <1>5, ReturnEnd
  <1>6. CASE \E w \in Workers : Work(w)
    BY <1>6, ReturnByWork
  <1> QED
    BY <1>1, <1>2, <1>3, <1>4, <1>5, <1>6 DEF Next, Task

-----------------------------------------------------------------------------
(* OrderInv *)

\* A step that leaves the invoices.
LEMMA OrderFrame ==
  ASSUME OrderInv, UNCHANGED <<invoices, kept, strategy>>,
         strategy # "chunked" /\ pc' # "done" => pc # "done"
  PROVE  OrderInv'
  BY DEF OrderInv, InFileOrder

LEMMA OrderInit == Init => OrderInv
  <1> SUFFICES ASSUME Init PROVE OrderInv
    OBVIOUS
  <1>1. invoices = <<>> /\ kept = {} /\ strategy = "none"
    BY DEF Init
  <1>2. DOMAIN invoices = {}
    BY <1>1
  <1> QED
    BY <1>1, <1>2 DEF OrderInv, InFileOrder

LEMMA OrderCollect ==
  ASSUME Typed, StageInv, ChunkInv, PlaceInv, ReturnInv, OrderInv, CollectResult
  PROVE  OrderInv'
  <1> DEFINE row == results[1][1]
  <1>1. /\ row \in Rows /\ row \in first..taken /\ row \in first..last
        /\ Head(results) = results[1] /\ 1 \in DOMAIN results
    <2>1. row \in Rows /\ 1 \in DOMAIN results /\ Head(results) = results[1]
      BY FirstResult
    <2>2. row \in first..taken
      BY <2>1 DEF PlaceInv
    <2> QED
      BY <2>1, <2>2, Bounds
  <1>2. /\ pc = "collect" /\ pc' = "collect" /\ strategy' = strategy /\ file' = file
        /\ strategy \in {"concurrent", "chunked"}
        /\ kept' = IF file[row] = "valid" /\ ByIndex THEN kept \cup {row} ELSE kept
        /\ invoices' = IF file[row] = "valid" /\ ~ByIndex THEN Append(invoices, row)
                                                          ELSE invoices
    BY <1>1 DEF CollectResult, StageInv
  <1> HIDE DEF row
  <1>3. CASE strategy = "concurrent"
    <2>1. invoices' = invoices
      BY <1>2, <1>3 DEF ByIndex
    <2> QED
      BY <1>2, <1>3, <2>1 DEF OrderInv, InFileOrder
  <1>4. CASE strategy = "chunked" /\ invoices' = invoices
    BY <1>2, <1>4 DEF OrderInv, InFileOrder, ByIndex
  <1>5. CASE strategy = "chunked" /\ invoices' = Append(invoices, row)
    <2>1. invoices \in Seq(Rows) /\ Len(invoices) \in Nat
      BY DEF Typed
    <2>2. /\ DOMAIN invoices = 1..Len(invoices) /\ DOMAIN invoices' = 1..Len(invoices) + 1
          /\ \A j \in DOMAIN invoices' :
               invoices'[j] = IF j = Len(invoices) + 1 THEN row ELSE invoices[j]
      BY <1>1, <1>5, <2>1, AppendElements
    <2>3. ASSUME NEW j \in DOMAIN invoices,
                 (invoices[j] - 1) \div ChunkSize # (row - 1) \div ChunkSize
          PROVE  invoices[j] < row
      <3>1. invoices[j] \in 1..taken
        <4>1. invoices[j] \in Through
          BY DEF ReturnInv, Range
        <4> QED
          BY <1>5, <4>1, <1>2 DEF Through
      <3>2. invoices[j] \notin first..last
        BY <1>1, <1>5, <2>3, RowInChunk
      <3> QED
        BY <1>1, <3>1, <3>2, Bounds
    <2>4. \A j, k \in DOMAIN invoices' :
            j < k /\ (invoices'[j] - 1) \div ChunkSize # (invoices'[k] - 1) \div ChunkSize
              => invoices'[j] < invoices'[k]
      <3> SUFFICES ASSUME NEW j \in DOMAIN invoices', NEW k \in DOMAIN invoices', j < k,
                     (invoices'[j] - 1) \div ChunkSize # (invoices'[k] - 1) \div ChunkSize
                   PROVE  invoices'[j] < invoices'[k]
        OBVIOUS
      <3>1. j \in DOMAIN invoices /\ invoices'[j] = invoices[j]
        BY <2>1, <2>2
      <3>2. CASE k = Len(invoices) + 1
        BY <2>2, <2>3, <3>1, <3>2
      <3>3. CASE k # Len(invoices) + 1
        <4>1. k \in DOMAIN invoices /\ invoices'[k] = invoices[k]
          BY <2>1, <2>2, <3>3
        <4> QED
          BY <1>5, <3>1, <4>1 DEF OrderInv, InFileOrder
      <3> QED
        BY <3>2, <3>3
    <2>5. InFileOrder'
      BY <1>2, <1>5, <2>4 DEF InFileOrder
    <2>6. kept' = {}
      BY <1>2, <1>5 DEF OrderInv, ByIndex
    <2> QED
      BY <1>2, <1>5, <2>5, <2>6 DEF OrderInv
  <1> QED
    BY <1>2, <1>3, <1>4, <1>5

LEMMA OrderStep ==
  ASSUME Typed, StageInv, PoolInv, ChunkInv, PlaceInv, ReturnInv, OrderInv, [Next]_vars
  PROVE  OrderInv'
  <1>1. CASE ChooseStrategy
    <2>1. pc = "count" /\ strategy = "none" /\ kept' = {} /\ invoices' = <<>>
      BY <1>1 DEF ChooseStrategy, StageInv, PoolInv, OrderInv
    <2>2. DOMAIN invoices' = {}
      BY <2>1
    <2> QED
      BY <2>1, <2>2 DEF OrderInv, InFileOrder
  <1>2. CASE ProcessSequentially
    <2>1. /\ strategy' = "sequential" /\ pc' = "done"
          /\ invoices' = InOrder(RowsOf("valid"))
      BY <1>2 DEF ProcessSequentially, StageInv
    <2>2. Increasing(invoices')
      <3>1. RowsOf("valid") \in SUBSET Rows
        BY DEF RowsOf
      <3> QED
        BY <2>1, <3>1, SomeRows, OrderOf
    <2>3. InFileOrder'
      BY <2>2 DEF Increasing, InFileOrder
    <2> QED
      BY <2>1, <2>3 DEF OrderInv
  <1>3. CASE EndPool
    <2>1. strategy' = strategy /\ kept' = {} /\ invoices' = invoices \o InOrder(kept)
          /\ pc = "collect" /\ strategy \in {"concurrent", "chunked"}
      BY <1>3 DEF EndPool, StageInv
    <2>2. kept \subseteq Rows /\ invoices \in Seq(Rows) /\ InOrder(kept) \in Seq(Rows)
      BY InOrderOfRows DEF Typed
    <2>3. CASE strategy = "chunked"
      <3>1. invoices' = invoices
        BY <2>1, <2>2, <2>3, NoneInOrder, ConcatEmptySeq DEF OrderInv
      <3> QED
        BY <2>1, <2>3, <3>1 DEF OrderInv, InFileOrder
    <2>4. CASE strategy = "concurrent"
      <3>1. invoices' = InOrder(kept)
        BY <2>1, <2>2, <2>4, ConcatEmptySeq DEF OrderInv
      <3>2. Increasing(invoices')
        BY <2>2, <3>1, SomeRows, OrderOf
      <3>3. InFileOrder'
        BY <3>2 DEF Increasing, InFileOrder
      <3>4. pc' = "done"
        BY <1>3, <2>1, <2>4 DEF EndPool, ChunkInv
      <3> QED
        BY <2>1, <2>4, <3>3, <3>4 DEF OrderInv
    <2> QED
      BY <2>1, <2>3, <2>4
  <1>4. CASE CollectResult
    BY <1>4, OrderCollect
  <1>5. CASE Refuse \/ StartPool \/ SendJob \/ CloseJobs \/ CloseResults \/ UNCHANGED vars
    <2>1. UNCHANGED <<invoices, kept, strategy>> /\ (pc' # "done" => pc # "done")
      BY <1>5 DEF Refuse, StartPool, SendJob, CloseJobs, CloseResults, vars
    <2> QED
      BY <2>1, OrderFrame
  <1>6. ASSUME NEW w \in Workers, Work(w) PROVE OrderInv'
    <2>1. UNCHANGED <<invoices, kept, strategy, pc>>
      BY <1>6 DEF Work, TakeJob, SendResult, EndWorker
    <2> QED
      BY <2>1, OrderFrame
  <1> QED
    BY <1>1, <1>2, <1>3, <1>4, <1>5, <1>6 DEF Next, Task

-----------------------------------------------------------------------------
(* The theorems *)

LEMMA ParsingInvariant == Spec => []ParsingInv
  <1>1. Init => ParsingInv
    BY TypedInit, StageInit, PoolInit, ChunkInit, PlaceInit, ReturnInit, OrderInit
       DEF ParsingInv
  <1>2. ParsingInv /\ [Next]_vars => ParsingInv'
    <2> SUFFICES ASSUME ParsingInv, [Next]_vars PROVE ParsingInv'
      OBVIOUS
    <2>1. Typed' /\ StageInv' /\ PoolInv'
      BY TypedStep, StageStep, PoolStep DEF ParsingInv
    <2>2. ChunkInv' /\ PlaceInv'
      BY ChunkStep, PlaceStep DEF ParsingInv
    <2>3. ReturnInv' /\ OrderInv'
      BY ReturnStep, OrderStep DEF ParsingInv
    <2> QED
      BY <2>1, <2>2, <2>3 DEF ParsingInv
  <1> QED
    BY <1>1, <1>2, PTL DEF Spec

\* Every reachable state has its type; in particular a pool never holds more
\* results than its channel of as many as it has rows takes, so that no worker
\* ever blocks in the send (csv-validation.go:198-199, 339-340).
THEOREM ParsingTypeCorrect == Spec => []TypeOK
  <1>1. ParsingInv => TypeOK
    BY ResultsFit DEF ParsingInv, Typed, TypeOK
  <1> QED
    BY <1>1, ParsingInvariant, PTL

\* When the task is done all rows are through.
LEMMA AllThrough ==
  ASSUME ParsingInv, pc = "done"
  PROVE  Through = Rows /\ kept = {}
  <1>1. Waited /\ results = <<>> /\ kept = {} /\ taken = last
    BY DEF ParsingInv, PoolInv
  <1>2. CASE strategy = "sequential"
    BY <1>1, <1>2 DEF Through
  <1>3. CASE strategy # "sequential"
    <2>1. last = Len(file)
      BY <1>3 DEF ParsingInv, ChunkInv
    <2>2. DOMAIN results = {} /\ \A w \in Workers : worker[w] = -1
      BY <1>1 DEF Waited
    <2>3. \A i \in 1..taken : ~Waiting(i)
      BY <2>2 DEF Waiting
    <2> QED
      BY <1>1, <1>3, <2>1, <2>3 DEF Through, Rows
  <1> QED
    BY <1>2, <1>3

\* The statistics count the rows that are valid and those that are not.
LEMMA CountedAddsUp ==
  ASSUME Typed
  PROVE  Counted = Cardinality(RowsOf("valid")) + Cardinality(RowsOf("invalid"))
  <1> DEFINE V == RowsOf("valid")
             I == RowsOf("invalid")
  <1>1. file \in [Rows -> Kinds]
    BY FileIsSeq DEF Typed
  <1>2. {i \in Rows : file[i] # "empty"} = V \cup I /\ V \cap I = {}
    BY <1>1 DEF RowsOf, Kinds
  <1>3. V \in SUBSET Rows /\ I \in SUBSET Rows
    BY DEF RowsOf
  <1> HIDE DEF V, I
  <1>4. /\ IsFiniteSet(V) /\ IsFiniteSet(I) /\ Cardinality({}) = 0
        /\ Cardinality(V) \in Int /\ Cardinality(I) \in Int
    BY <1>3, SomeRows, FS_EmptySet, Bounds
  <1>5. Cardinality(V \cup I) = Cardinality(V) + Cardinality(I) - Cardinality(V \cap I)
    BY <1>4, FS_Union
  <1>6. Counted = Cardinality(V \cup I) /\ Cardinality(V \cap I) = 0
    BY <1>2, <1>4 DEF Counted
  <1> QED
    <2>1. Counted = Cardinality(V) + Cardinality(I)
      BY <1>4, <1>5, <1>6
    <2> QED
      BY <2>1 DEF V, I

\* The lines of some rows are as many as the rows.
LEMMA LinesOfRows ==
  ASSUME Typed, NEW rows \in SUBSET Rows
  PROVE  Cardinality({Line(i) : i \in rows}) = Cardinality(rows)
  <1> DEFINE T == {Line(i) : i \in rows}
             f == [i \in rows |-> Line(i)]
  <1>1. IsFiniteSet(rows) /\ rows \in SUBSET Int
    BY SomeRows
  <1>2. f \in Bijection(rows, T)
    BY <1>1 DEF Bijection, Injection, Surjection, IsInjective, Line
  <1>3. ExistsBijection(rows, T)
    BY <1>2 DEF ExistsBijection
  <1> HIDE DEF T
  <1>4. Cardinality(T) = Cardinality(rows)
    BY <1>1, <1>3, FS_Bijection
  <1> QED
    BY <1>4 DEF T

\* However the workers interleave and however many chunks there are, each valid
\* row of the file is one invoice, each invalid row one error with the number of
\* its line, and the statistics add up to both.
THEOREM EveryRowHolds == Spec => []EveryRowOnce
  <1>1. ParsingInv => EveryRowOnce
    <2> SUFFICES ASSUME ParsingInv, pc = "done" PROVE EveryRowOnce
      BY DEF EveryRowOnce
    <2>1. /\ Typed /\ Through = Rows /\ kept = {}
          /\ RowsOf("valid") \in SUBSET Rows /\ RowsOf("invalid") \in SUBSET Rows
      BY AllThrough DEF ParsingInv, RowsOf
    <2>2. /\ IsInjective(invoices) /\ Range(invoices) = RowsOf("valid")
          /\ IsInjective(errors)
          /\ Range(errors) = {Line(i) : i \in RowsOf("invalid")}
      BY <2>1 DEF ParsingInv, ReturnInv, RowsOf
    <2>3. Len(invoices) = Cardinality(RowsOf("valid"))
      BY <2>1, <2>2, LengthOfOnce DEF Typed
    <2>4. Len(errors) = Cardinality(RowsOf("invalid"))
      BY <2>1, <2>2, LengthOfOnce, LinesOfRows DEF Typed
    <2>5. total = Counted
      BY DEF ParsingInv, StageInv
    <2>6. total = Len(invoices) + Len(errors)
      BY <2>1, <2>3, <2>4, <2>5, CountedAddsUp
    <2> QED
      BY <2>2, <2>6 DEF EveryRowOnce, Line
  <1> QED
    BY <1>1, ParsingInvariant, PTL

\* The invoices come in the order of the file, but for those of one chunk.
THEOREM InFileOrderHolds == Spec => []InFileOrder
  <1>1. ParsingInv => InFileOrder
    BY DEF ParsingInv, OrderInv
  <1> QED
    BY <1>1, ParsingInvariant, PTL

-----------------------------------------------------------------------------
(* Every step goes towards the end *)

\* The guards of the steps after the choice of a strategy: somebody can go on.
SomebodyCanGoOn ==
  \/ pc \in {"count", "sequential", "start"}
  \/ pc = "collect" /\ (sent < last \/ ~jobsClosed)           \* SendJob, CloseJobs
  \/ pc = "collect" /\ \E w \in Workers :
       \/ worker[w] = 0 /\ (Jobs # {} \/ Exhausted)           \* TakeJob, EndWorker
       \/ worker[w] > 0 /\ ~resultsClosed                     \* SendResult
  \/ pc = "collect" /\ ~resultsClosed /\ Waited               \* CloseResults
  \/ pc = "collect" /\ (results # <<>> \/ resultsClosed)      \* CollectResult, EndPool

NeverStuck == pc \in {"done", "refused"} \/ SomebodyCanGoOn

\* A pool begins only where rows are left.
RowsLeft == pc = "start" => last < Len(file)

Busy == {w \in Workers : worker[w] > 0}
Alive == {w \in Workers : worker[w] # -1}
Open(closed) == IF closed THEN 0 ELSE 1

\* What a row, and a pool whatever its size, may cost at most.
PerRow == Cardinality(Workers) + 8

\* The steps that are left in a pool: a row that is not sent has four before it
\* (sent, taken, parsed, collected), one that is sent three, and so on; besides
\* there are those that close the channels and end the workers.
Steps(toSend, toTake, toParse, toCollect, toEnd, jobs, out) ==
  4 * toSend + 3 * toTake + 2 * toParse + toCollect + toEnd + jobs + out
InPool == Steps(last - sent, sent - taken, Cardinality(Busy), Len(results),
                Cardinality(Alive), Open(jobsClosed), Open(resultsClosed))

\* A bound on all the steps that are left.
StepsLeft ==
  CASE pc = "count"      -> Len(file) * PerRow + 2
    [] pc = "sequential" -> 1
    [] pc = "start"      -> (Len(file) - last) * PerRow + 1
    [] pc = "collect"    -> (Len(file) - last) * PerRow + InPool + 2
    [] OTHER             -> 0

\* A step towards the end.
Advances == StepsLeft \in Nat /\ StepsLeft' < StepsLeft

LEMMA RowsLeftStep ==
  ASSUME Typed, StageInv, ChunkInv, RowsLeft, [Next]_vars
  PROVE  RowsLeft'
  <1>1. CASE ChooseStrategy
    <2>1. Counted # 0 /\ last' = 0 /\ file' = file
      BY <1>1 DEF ChooseStrategy, pool, StageInv, ChunkInv
    <2>2. Len(file) # 0
      <3>1. ASSUME Len(file) = 0 PROVE FALSE
        <4>1. {i \in Rows : file[i] # "empty"} = {}
          BY <3>1 DEF Rows
        <4> QED
          BY <2>1, <4>1, FS_EmptySet DEF Counted
      <3> QED
        BY <3>1
    <2> QED
      BY <2>1, <2>2, Bounds DEF RowsLeft
  <1>2. CASE EndPool
    <2>1. UNCHANGED <<file, last>> /\ (pc' = "start" => last # Len(file))
      BY <1>2 DEF EndPool, pool
    <2> QED
      BY <2>1, Bounds DEF RowsLeft
  <1>3. CASE Refuse \/ ProcessSequentially \/ StartPool
    BY <1>3 DEF Refuse, ProcessSequentially, StartPool, RowsLeft
  <1>4. CASE SendJob \/ CloseJobs \/ CloseResults \/ CollectResult
    BY <1>4 DEF SendJob, CloseJobs, CloseResults, CollectResult, RowsLeft
  <1>5. CASE \E w \in Workers : Work(w)
    BY <1>5 DEF Work, TakeJob, SendResult, EndWorker, RowsLeft
  <1>6. CASE UNCHANGED vars
    BY <1>6 DEF vars, pool, RowsLeft
  <1> QED
    BY <1>1, <1>2, <1>3, <1>4, <1>5, <1>6 DEF Next, Task

\* The sets of workers are finite, and their sizes numbers.
LEMMA WorkerCounts ==
  /\ IsFiniteSet(Busy) /\ Cardinality(Busy) \in Nat
  /\ IsFiniteSet(Alive) /\ Cardinality(Alive) \in Nat
  /\ Cardinality(Workers) \in Nat /\ PerRow \in Nat
  <1>1. Busy \in SUBSET Workers /\ Alive \in SUBSET Workers
    BY DEF Busy, Alive
  <1>2. IsFiniteSet(Busy) /\ IsFiniteSet(Alive)
    BY <1>1, WorkersAssumption, FS_Subset
  <1>3. Cardinality(Busy) \in Nat /\ Cardinality(Alive) \in Nat /\ Cardinality(Workers) \in Nat
    BY <1>2, WorkersAssumption, FS_CardinalityType
  <1> QED
    BY <1>2, <1>3 DEF PerRow

LEMMA ProductIsNat ==
  ASSUME NEW a \in Nat, NEW b \in Nat
  PROVE  a * b \in Nat
  OBVIOUS

LEMMA SumIsNat ==
  ASSUME NEW a \in Nat, NEW b \in Nat, NEW c \in Nat, NEW d \in Nat, NEW e \in Nat,
         NEW f \in Nat, NEW g \in Nat
  PROVE  Steps(a, b, c, d, e, f, g) \in Nat
  BY DEF Steps

LEMMA InPoolIsCounted ==
  ASSUME Typed
  PROVE  InPool \in Nat
  <1>1. /\ (last - sent) \in Nat /\ (sent - taken) \in Nat /\ Len(results) \in Nat
        /\ Open(jobsClosed) \in Nat /\ Open(resultsClosed) \in Nat
    BY Bounds DEF Typed, Open
  <1> QED
    BY <1>1, WorkerCounts, SumIsNat DEF InPool

LEMMA StepsAreCounted ==
  ASSUME Typed
  PROVE  StepsLeft \in Nat
  <1>1. /\ (Len(file) - last) \in Nat /\ (last - sent) \in Nat /\ (sent - taken) \in Nat
        /\ Len(file) \in Nat
    BY Bounds
  <1>2. (Len(file) - last) * PerRow \in Nat /\ Len(file) * PerRow \in Nat
    BY <1>1, WorkerCounts, ProductIsNat
  <1>3. InPool \in Nat
    BY InPoolIsCounted
  <1> QED
    BY <1>2, <1>3 DEF StepsLeft

\* A step of a pool brings one row, one worker or one channel further.
LEMMA SumDrops ==
  ASSUME NEW a \in Int, NEW b \in Int, NEW c \in Int, NEW d \in Int, NEW e \in Int,
         NEW f \in Int, NEW g \in Int,
         NEW a2, NEW b2, NEW c2, NEW d2, NEW e2, NEW f2, NEW g2,
         \/ /\ a2 = a - 1 /\ b2 = b + 1
            /\ c2 = c /\ d2 = d /\ e2 = e /\ f2 = f /\ g2 = g
         \/ /\ b2 = b - 1 /\ c2 = c + 1
            /\ a2 = a /\ d2 = d /\ e2 = e /\ f2 = f /\ g2 = g
         \/ /\ c2 = c - 1 /\ d2 = d + 1
            /\ a2 = a /\ b2 = b /\ e2 = e /\ f2 = f /\ g2 = g
         \/ /\ d2 = d - 1
            /\ a2 = a /\ b2 = b /\ c2 = c /\ e2 = e /\ f2 = f /\ g2 = g
         \/ /\ e2 = e - 1
            /\ a2 = a /\ b2 = b /\ c2 = c /\ d2 = d /\ f2 = f /\ g2 = g
         \/ /\ f2 = f - 1
            /\ a2 = a /\ b2 = b /\ c2 = c /\ d2 = d /\ e2 = e /\ g2 = g
         \/ /\ g2 = g - 1
            /\ a2 = a /\ b2 = b /\ c2 = c /\ d2 = d /\ e2 = e /\ f2 = f
  PROVE  Steps(a2, b2, c2, d2, e2, f2, g2) = Steps(a, b, c, d, e, f, g) - 1
  BY DEF Steps

LEMMA SumIsLess ==
  ASSUME NEW r \in Int, NEW p \in Int
  PROVE  r + (p - 1) + 2 < r + p + 2
  OBVIOUS

\* A step within a pool leaves the product, so that the rest is linear.
LEMMA PoolShrinks ==
  ASSUME Typed, pc = "collect", pc' = "collect", UNCHANGED <<file, last>>,
         InPool' = InPool - 1
  PROVE  StepsLeft' < StepsLeft
  <1>1. PICK r \in Int : /\ (Len(file) - last) * PerRow = r
                         /\ (Len(file') - last') * PerRow = r
    <2>1. Len(file) - last \in Nat /\ PerRow \in Nat
      BY Bounds, WorkerCounts
    <2> QED
      BY <2>1, ProductIsNat
  <1>2. StepsLeft = r + InPool + 2
    BY <1>1 DEF StepsLeft
  <1>3. StepsLeft' = r + (InPool - 1) + 2
    BY <1>1 DEF StepsLeft, PerRow
  <1>4. r + (InPool - 1) + 2 < r + InPool + 2
    BY InPoolIsCounted, SumIsLess
  <1> QED
    BY <1>2, <1>3, <1>4

LEMMA PoolNumbers ==
  ASSUME Typed
  PROVE  /\ (last - sent) \in Int /\ (sent - taken) \in Int /\ Len(results) \in Int
         /\ Cardinality(Busy) \in Int /\ Cardinality(Alive) \in Int
         /\ Open(jobsClosed) \in Int /\ Open(resultsClosed) \in Int
  BY Bounds, WorkerCounts DEF Typed, Open

LEMMA ChannelsShrink ==
  ASSUME Typed, SendJob \/ CloseJobs \/ CloseResults \/ CollectResult
  PROVE  StepsLeft' < StepsLeft
  <1>1. /\ pc = "collect" /\ pc' = "collect" /\ UNCHANGED <<file, last, taken, worker>>
        /\ Busy' = Busy /\ Alive' = Alive
    BY DEF SendJob, CloseJobs, CloseResults, CollectResult, pool, Busy, Alive
  <1>2. CASE SendJob
    <2>1. /\ last' - sent' = (last - sent) - 1 /\ sent' - taken' = (sent - taken) + 1
          /\ UNCHANGED <<results, jobsClosed, resultsClosed>>
      <3>1. sent' = sent + 1 /\ UNCHANGED <<last, taken, results, jobsClosed, resultsClosed>>
        BY <1>2 DEF SendJob
      <3>2. last \in Int /\ sent \in Int /\ taken \in Int
        BY Bounds
      <3> QED
        BY <3>1, <3>2
    <2>2. InPool' = InPool - 1
      BY <1>1, <2>1, PoolNumbers, SumDrops DEF InPool
    <2> QED
      BY <1>1, <2>2, PoolShrinks
  <1>3. CASE CloseJobs
    <2>1. /\ last' - sent' = last - sent /\ sent' - taken' = sent - taken
          /\ Open(jobsClosed') = Open(jobsClosed) - 1
          /\ UNCHANGED <<results, resultsClosed>>
      BY <1>3, Bounds DEF CloseJobs, Open
    <2>2. InPool' = InPool - 1
      BY <1>1, <2>1, PoolNumbers, SumDrops DEF InPool
    <2> QED
      BY <1>1, <2>2, PoolShrinks
  <1>4. CASE CloseResults
    <2>1. /\ last' - sent' = last - sent /\ sent' - taken' = sent - taken
          /\ Open(resultsClosed') = Open(resultsClosed) - 1
          /\ UNCHANGED <<results, jobsClosed>>
      BY <1>4, Bounds DEF CloseResults, Open
    <2>2. InPool' = InPool - 1
      BY <1>1, <2>1, PoolNumbers, SumDrops DEF InPool
    <2> QED
      BY <1>1, <2>2, PoolShrinks
  <1>5. CASE CollectResult
    <2>1. /\ last' - sent' = last - sent /\ sent' - taken' = sent - taken
          /\ UNCHANGED <<jobsClosed, resultsClosed>>
      BY <1>5 DEF CollectResult, pool
    <2>2. Len(results') = Len(results) - 1
      BY <1>5, FirstResult
    <2>3. InPool' = InPool - 1
      BY <1>1, <2>1, <2>2, PoolNumbers, SumDrops DEF InPool
    <2> QED
      BY <1>1, <2>3, PoolShrinks
  <1> QED
    BY <1>2, <1>3, <1>4, <1>5

LEMMA WorkShrinks ==
  ASSUME Typed, PoolInv, NEW w \in Workers, Work(w)
  PROVE  StepsLeft' < StepsLeft
  <1>1. pc = "collect" /\ pc' = "collect"
        /\ UNCHANGED <<file, last, sent, jobsClosed, resultsClosed>>
    BY OnlyInPool DEF Work, TakeJob, SendResult, EndWorker
  <1>2. worker \in [Workers -> -1..last] /\ -1 # 0
    BY DEF Typed
  <1>3. CASE TakeJob(w)
    <2>1. /\ worker[w] = 0 /\ taken' = taken + 1 /\ taken' > 0 /\ results' = results
          /\ \A v \in Workers : worker'[v] = IF v = w THEN taken' ELSE worker[v]
      BY <1>2, <1>3, Bounds DEF TakeJob
    <2>2. w \notin Busy /\ Busy' = Busy \cup {w} /\ Alive' = Alive
      BY <2>1 DEF Busy, Alive
    <2>3. Cardinality(Busy') = Cardinality(Busy) + 1
      BY <2>2, WorkerCounts, FS_AddElement
    <2>4. last' - sent' = last - sent /\ sent' - taken' = (sent - taken) - 1
      BY <1>1, <2>1, Bounds
    <2>5. InPool' = InPool - 1
      BY <1>1, <2>1, <2>2, <2>3, <2>4, PoolNumbers, SumDrops DEF InPool
    <2> QED
      BY <1>1, <2>5, PoolShrinks
  <1>4. CASE SendResult(w)
    <2>1. /\ worker[w] > 0 /\ taken' = taken
          /\ \A v \in Workers : worker'[v] = IF v = w THEN 0 ELSE worker[v]
      BY <1>2, <1>4 DEF SendResult
    <2>2. w \in Busy /\ Busy' = Busy \ {w} /\ Alive' = Alive
      <3>1. worker[w] # -1 /\ ~(0 > 0) /\ 0 # -1
        BY <2>1, WorkerBounds
      <3> QED
        BY <2>1, <3>1 DEF Busy, Alive
    <2>3. Cardinality(Busy') = Cardinality(Busy) - 1
      BY <2>2, WorkerCounts, FS_RemoveElement
    <2>4. last' - sent' = last - sent /\ sent' - taken' = sent - taken
      BY <1>1, <2>1
    <2>5. Len(results') = Len(results) + 1
      <3>1. results \in Seq(Rows \X Nat)
            /\ results' = Append(results, <<worker[w], Number(worker[w])>>)
        BY <1>4 DEF Typed, SendResult
      <3> QED
        BY <3>1
    <2>6. InPool' = InPool - 1
      BY <1>1, <2>2, <2>3, <2>4, <2>5, PoolNumbers, SumDrops DEF InPool
    <2> QED
      BY <1>1, <2>6, PoolShrinks
  <1>5. CASE EndWorker(w)
    <2>1. /\ worker[w] = 0 /\ taken' = taken /\ results' = results
          /\ \A v \in Workers : worker'[v] = IF v = w THEN -1 ELSE worker[v]
      BY <1>2, <1>5 DEF EndWorker
    <2>2. w \in Alive /\ Alive' = Alive \ {w} /\ Busy' = Busy
      BY <2>1 DEF Busy, Alive
    <2>3. Cardinality(Alive') = Cardinality(Alive) - 1
      BY <2>2, WorkerCounts, FS_RemoveElement
    <2>4. last' - sent' = last - sent /\ sent' - taken' = sent - taken
      BY <1>1, <2>1
    <2>5. InPool' = InPool - 1
      BY <1>1, <2>1, <2>2, <2>3, <2>4, PoolNumbers, SumDrops DEF InPool
    <2> QED
      BY <1>1, <2>5, PoolShrinks
  <1> QED
    BY <1>3, <1>4, <1>5 DEF Work

\* A pool of d rows costs less than the d rows were counted for.
LEMMA PoolIsPaid ==
  ASSUME NEW r \in Nat, NEW d \in Nat \ {0}, NEW n \in Nat
  PROVE  r * (n + 8) + (4 * d + n + 2) + 2 < (r + d) * (n + 8) + 1
  <1>1. PICK e \in Nat : d = e + 1
    <2>1. d - 1 \in Nat /\ d = (d - 1) + 1
      OBVIOUS
    <2> QED
      BY <2>1
  <1>2. PICK x \in Nat : r * (n + 8) = x
    OBVIOUS
  <1>3. PICK y \in Nat : e * n = y
    OBVIOUS
  <1>4. (r + d) * (n + 8) = x + y + n + 8 * d
    <2>1. (r + d) * (n + 8) = r * (n + 8) + d * (n + 8)
      OBVIOUS
    <2>2. d * (n + 8) = d * n + 8 * d
      OBVIOUS
    <2>3. d * n = e * n + n
      BY <1>1
    <2> QED
      BY <1>2, <1>3, <2>1, <2>2, <2>3
  <1> QED
    BY <1>2, <1>4

LEMMA StartShrinks ==
  ASSUME Typed, StageInv, PoolInv, RowsLeft, StartPool
  PROVE  StepsLeft' < StepsLeft
  <1> DEFINE n == Cardinality(Workers)
             r == Len(file) - last'
             d == last' - last
  <1>1. /\ pc = "start" /\ pc' = "collect" /\ file' = file /\ results' = results
        /\ results = <<>> /\ last < Len(file)
        /\ last' = EndOfPool /\ sent' = last /\ taken' = last
        /\ jobsClosed' = FALSE /\ resultsClosed' = FALSE
        /\ worker' = [w \in Workers |-> 0]
    BY DEF StartPool, PoolInv, RowsLeft
  <1>2. last' \in Nat /\ last < last' /\ last' <= Len(file)
    BY <1>1, Bounds DEF EndOfPool
  <1>3. r \in Nat /\ d \in Nat \ {0} /\ n \in Nat /\ Len(file) - last = r + d
    <2>1. last \in Nat /\ Len(file) \in Nat
      BY Bounds
    <2>2. n \in Nat
      BY WorkerCounts
    <2>3. ASSUME NEW a \in Nat, NEW b \in Nat, NEW c \in Nat, a < b, b <= c
          PROVE  c - b \in Nat /\ b - a \in Nat \ {0} /\ c - a = (c - b) + (b - a)
      BY <2>3
    <2> QED
      BY <1>2, <2>1, <2>2, <2>3
  <1>4. Busy' = {} /\ Alive' = Workers
    BY <1>1 DEF Busy, Alive
  <1>5. Cardinality(Busy') = 0 /\ Cardinality(Alive') = n
    BY <1>4, FS_EmptySet
  <1>6. InPool' = Steps(d, 0, 0, 0, n, 1, 1)
    <2>1. last' - sent' = d /\ sent' - taken' = 0 /\ Len(results') = 0
      BY <1>1, Bounds
    <2>2. Open(jobsClosed') = 1 /\ Open(resultsClosed') = 1
      BY <1>1 DEF Open
    <2> QED
      BY <1>5, <2>1, <2>2 DEF InPool
  <1> HIDE DEF r, d, n
  <1>7. Steps(d, 0, 0, 0, n, 1, 1) = 4 * d + n + 2
    BY <1>3 DEF Steps
  <1>8. StepsLeft = (r + d) * (n + 8) + 1
    BY <1>1, <1>3 DEF StepsLeft, PerRow, n
  <1>9. StepsLeft' = r * (n + 8) + (4 * d + n + 2) + 2
    BY <1>1, <1>6, <1>7 DEF StepsLeft, PerRow, n, r
  <1> QED
    BY <1>3, <1>8, <1>9, PoolIsPaid

LEMMA EndsShrink ==
  ASSUME Typed, StageInv, ChunkInv,
         ChooseStrategy \/ Refuse \/ ProcessSequentially \/ EndPool
  PROVE  StepsLeft' < StepsLeft
  <1>1. CASE ChooseStrategy
    <2>1. /\ pc = "count" /\ file' = file /\ last' = 0 /\ pc' \in {"sequential", "start"}
      BY <1>1 DEF ChooseStrategy, pool, StageInv, ChunkInv
    <2>2. PICK r \in Nat : Len(file) * PerRow = r
      BY Bounds, WorkerCounts, ProductIsNat
    <2>3. Len(file') - last' = Len(file)
      BY <2>1, Bounds
    <2>4. StepsLeft = r + 2
      BY <2>1, <2>2 DEF StepsLeft
    <2>5. StepsLeft' = 1 \/ StepsLeft' = r + 1
      BY <2>1, <2>2, <2>3 DEF StepsLeft, PerRow
    <2> QED
      BY <2>4, <2>5
  <1>2. CASE Refuse
    <2>1. PICK r \in Nat : Len(file) * PerRow = r
      BY Bounds, WorkerCounts, ProductIsNat
    <2>2. StepsLeft = r + 2 /\ StepsLeft' = 0
      BY <1>2, <2>1 DEF Refuse, StepsLeft
    <2> QED
      BY <2>2
  <1>3. CASE ProcessSequentially
    BY <1>3 DEF ProcessSequentially, StepsLeft
  <1>4. CASE EndPool
    <2>1. pc = "collect" /\ pc' \in {"done", "start"} /\ UNCHANGED <<file, last>>
      BY <1>4 DEF EndPool, pool
    <2>2. PICK r \in Nat : (Len(file) - last) * PerRow = r
      <3>1. Len(file) - last \in Nat
        BY Bounds
      <3> QED
        BY <3>1, WorkerCounts, ProductIsNat
    <2>3. PICK s \in Nat : InPool = s
      BY InPoolIsCounted
    <2>4. StepsLeft = r + s + 2
      BY <2>1, <2>2, <2>3 DEF StepsLeft
    <2>5. StepsLeft' = 0 \/ StepsLeft' = r + 1
      BY <2>1, <2>2 DEF StepsLeft, PerRow
    <2> QED
      BY <2>4, <2>5
  <1> QED
    BY <1>1, <1>2, <1>3, <1>4

LEMMA RowsLeftInvariant == Spec => []RowsLeft
  <1>1. Init => RowsLeft
    BY DEF Init, RowsLeft
  <1>2. ParsingInv /\ RowsLeft /\ [Next]_vars => RowsLeft'
    BY RowsLeftStep DEF ParsingInv
  <1> QED
    BY <1>1, <1>2, ParsingInvariant, PTL DEF Spec

\* Every step of the task, of the sender and of the workers lowers the bound on
\* the steps that are left, which is linear in the rows: however the goroutines
\* are scheduled the parsing makes so many steps and no more.
THEOREM EveryStepCounts == Spec => [][Advances]_vars
  <1>1. ASSUME ParsingInv, RowsLeft, [Next]_vars
        PROVE  [Advances]_vars
    <2>1. Typed /\ StageInv /\ PoolInv /\ ChunkInv
      BY <1>1 DEF ParsingInv
    <2>2. StepsLeft \in Nat
      BY <2>1, StepsAreCounted
    <2>3. Task => StepsLeft' < StepsLeft
      BY <1>1, <2>1, EndsShrink, StartShrinks, ChannelsShrink DEF Task
    <2>4. Refuse \/ SendJob \/ CloseJobs \/ CloseResults => StepsLeft' < StepsLeft
      BY <2>1, EndsShrink, ChannelsShrink
    <2>5. (\E w \in Workers : Work(w)) => StepsLeft' < StepsLeft
      BY <2>1, WorkShrinks
    <2> QED
      BY <1>1, <2>2, <2>3, <2>4, <2>5 DEF Next, Advances
  <1> QED
    BY <1>1, ParsingInvariant, RowsLeftInvariant, PTL DEF Spec

\* Until the task is done or refused somebody can go on: no worker waits for a
\* job, no collector for a result and nobody for the wait group in vain.
THEOREM ParsingNeverStuck == Spec => []NeverStuck
  <1>1. ParsingInv => NeverStuck
    <2> SUFFICES ASSUME ParsingInv, pc = "collect", ~SomebodyCanGoOn
                 PROVE  FALSE
      BY DEF NeverStuck, SomebodyCanGoOn, ParsingInv, Typed
    <2>1. Typed /\ PoolInv
      BY DEF ParsingInv
    <2>2. jobsClosed
      BY DEF SomebodyCanGoOn
    <2>3. \A w \in Workers : worker[w] # 0
      BY <2>2 DEF SomebodyCanGoOn, Exhausted
    <2>4. resultsClosed => Waited
      BY <2>1 DEF PoolInv
    <2>5. ~resultsClosed /\ ~Waited
      BY <2>4 DEF SomebodyCanGoOn
    <2>6. PICK w \in Workers : worker[w] # -1
      BY <2>5 DEF Waited
    <2>7. worker[w] > 0
      BY <2>1, <2>3, <2>6, WorkerBounds
    <2> QED
      BY <2>5, <2>7 DEF SomebodyCanGoOn
  <1> QED
    BY <1>1, ParsingInvariant, PTL
=============================================================================
