-------------------------- MODULE NnieLayoutProofs --------------------------
(* The layout of EngineNNIE's blobs is right for every shape, not only for  *)
(* those of the models that TLC is given: the blobs' rows may be of any     *)
(* width, and there may be any number of them.                              *)
EXTENDS NnieLayout, Integers, TLAPS

\* No dimension is negative.
Shapes == [c : Nat, h : Nat, w : Nat]

-----------------------------------------------------------------------------
(* Rows and offsets *)

\* Lemma: quotient and remainder say which row an offset is in, and where ...
LEMMA InRow ==
    ASSUME NEW w \in Nat \ {0}, NEW i \in Nat, NEW k \in 0 .. w - 1
    PROVE  (i * w + k) \div w = i /\ (i * w + k) % w = k
OBVIOUS

\* Lemma: ... and every offset is in some row.
LEMMA OfRow ==
    ASSUME NEW w \in Nat \ {0}, NEW d \in Nat
    PROVE  /\ d \div w \in Nat /\ d % w \in 0 .. w - 1
           /\ d = (d \div w) * w + (d % w)
OBVIOUS

\* Lemma: the first rows * w offsets are those of the first rows.
LEMMA FirstRows ==
    ASSUME NEW w \in Nat, NEW rows \in Nat, NEW i \in Nat, NEW k \in 0 .. w - 1
    PROVE  i < rows <=> i * w + k < rows * w
<1>1. ASSUME i < rows PROVE i * w + k < rows * w
  <2>1. PICK n \in Nat : rows = i + 1 + n
    <3>1. rows - i - 1 \in Nat /\ rows = i + 1 + (rows - i - 1)
      BY <1>1
    <3>2. QED BY <3>1
  <2>2. rows * w = i * w + w + n * w /\ n * w \in Nat /\ i * w \in Nat
    BY <2>1
  <2>3. QED
    BY <2>2
<1>2. ASSUME ~(i < rows) PROVE ~(i * w + k < rows * w)
  <2>1. PICK n \in Nat : i = rows + n
    <3>1. i - rows \in Nat /\ i = rows + (i - rows)
      BY <1>2
    <3>2. QED BY <3>1
  <2>2. i * w = rows * w + n * w /\ n * w \in Nat /\ rows * w \in Nat
    BY <2>1
  <2>3. QED
    BY <2>2
<1>3. QED BY <1>1, <1>2

\* A run of values copied one by one.
Copied(dst, src, n) == {<<dst + k, src + k>> : k \in 0 .. n - 1}

\* A run per row.
RowsCopied(rows, w, stride) ==
    UNION {Copied(i * w, i * stride, w) : i \in 0 .. rows - 1}

\* Lemma: the plain loops copy a run per row.
LEMMA PlainRuns ==
    ASSUME NEW w, NEW rows, NEW stride
    PROVE  DequantPlain(rows, w, stride) = RowsCopied(rows, w, stride)
BY DEF DequantPlain, RowsCopied, Copied

\* Lemma: row by row and value by value is what the conversion is for.
LEMMA PlainExact ==
    ASSUME NEW w \in Nat, NEW rows \in Nat, NEW stride \in Nat
    PROVE  DequantPlain(rows, w, stride) = DequantReference(rows, w, stride)
<1> DEFINE place(d) == ((d \div w) * stride) + (d % w)
<1>1. ASSUME NEW i \in 0 .. rows - 1, NEW k \in 0 .. w - 1
      PROVE  i * w + k \in 0 .. rows * w - 1 /\ place(i * w + k) = i * stride + k
  <2>1. w \in Nat \ {0} /\ i \in Nat
    OBVIOUS
  <2>2. (i * w + k) \div w = i /\ (i * w + k) % w = k
    BY <2>1, InRow
  <2>3. i * w + k < rows * w
    BY <2>1, FirstRows
  <2>4. i * w \in Nat /\ rows * w \in Nat
    BY <2>1
  <2>5. i * w + k \in 0 .. rows * w - 1
    BY <2>3, <2>4
  <2>6. QED
    BY <2>2, <2>5
<1>2. ASSUME NEW d \in 0 .. rows * w - 1
      PROVE  \E i \in 0 .. rows - 1, k \in 0 .. w - 1 :
                 d = i * w + k /\ place(d) = i * stride + k
  <2>1. w \in Nat \ {0} /\ d \in Nat
    <3>1. w = 0 => rows * w = 0
      OBVIOUS
    <3>2. rows * w \in Nat
      OBVIOUS
    <3>3. QED BY <3>1, <3>2
  <2>2. /\ d \div w \in Nat /\ d % w \in 0 .. w - 1
        /\ d = (d \div w) * w + (d % w)
    BY <2>1, OfRow
  <2>3. d \div w < rows
    <3>1. rows * w \in Nat
      OBVIOUS
    <3>2. d < rows * w
      BY <3>1
    <3>3. QED BY <2>2, <3>2, FirstRows
  <2>4. d \div w \in 0 .. rows - 1
    BY <2>2, <2>3
  <2>5. QED
    BY <2>2, <2>4, Zenon
<1>3. DequantReference(rows, w, stride) = {<<d, place(d)>> : d \in 0 .. rows * w - 1}
  BY Zenon DEF DequantReference
<1> DEFINE dst(i) == i * w
           src(i) == i * stride
           size == rows * w
<1>4. DequantPlain(rows, w, stride)
          = UNION {{<<dst(i) + k, src(i) + k>> : k \in 0 .. w - 1} : i \in 0 .. rows - 1}
  BY PlainRuns, Zenon DEF RowsCopied, Copied
<1>5. \A i \in 0 .. rows - 1, k \in 0 .. w - 1 :
          dst(i) + k \in 0 .. size - 1 /\ place(dst(i) + k) = src(i) + k
  BY <1>1, Zenon
<1>6. \A d \in 0 .. size - 1 : \E i \in 0 .. rows - 1, k \in 0 .. w - 1 :
          d = dst(i) + k /\ place(d) = src(i) + k
  BY <1>2, Zenon
<1> HIDE DEF place, dst, src, size
<1>7. QED
  BY <1>3, <1>4, <1>5, <1>6 DEF size

-----------------------------------------------------------------------------
(* The assembly *)

\* Lemma: fours and single values make up all there are.
LEMMA AllTurns == ASSUME NEW n \in Nat PROVE Fours(n) \cup Rest(n) = 0 .. n - 1
<1>1. ASSUME NEW x \in 0 .. n - 1 PROVE x \in Fours(n) \cup Rest(n)
  <2>1. CASE x >= n - (n % MinStep)
    BY <2>1 DEF Rest, MinStep
  <2>2. CASE x < n - (n % MinStep)
    <3> DEFINE k == x - (x % 4)
               j == x % 4
    <3>1. x \in Nat /\ j \in 0 .. 3 /\ k \in Nat /\ k % 4 = 0 /\ x = k + j
      OBVIOUS
    <3>2. k + 4 <= n
      BY <2>2 DEF MinStep
    <3>3. k \in Turns(n)
      BY <3>1, <3>2 DEF Turns, MinStep
    <3>4. j \in 0 .. MinStep - 1
      BY <3>1 DEF MinStep
    <3> HIDE DEF k, j
    <3>5. QED
      BY <3>1, <3>3, <3>4 DEF Fours
  <2>3. QED BY <2>1, <2>2 DEF MinStep
<1>2. ASSUME NEW x \in Fours(n) \cup Rest(n) PROVE x \in 0 .. n - 1
  <2>1. CASE x \in Fours(n)
    BY <2>1 DEF Fours, Turns, MinStep
  <2>2. CASE x \in Rest(n)
    BY <2>2 DEF Rest, MinStep
  <2>3. QED BY <2>1, <2>2
<1>3. QED BY <1>1, <1>2

\* Lemma: the assembly copies a run of values as a loop would.
LEMMA RunCopied ==
    ASSUME NEW dst \in Nat, NEW src \in Nat, NEW n \in Nat
    PROVE  Vectorised(dst, src, n) = Copied(dst, src, n)
BY AllTurns DEF Vectorised, Copied

\* Lemma: line by line, the padding of each row is skipped.
LEMMA LinesExact ==
    ASSUME NEW w \in Nat, NEW rows \in Nat, NEW stride \in Nat
    PROVE  DequantLines(rows, w, stride) = DequantReference(rows, w, stride)
<1>1. ASSUME NEW i \in 0 .. rows - 1
      PROVE  Vectorised(i * w, i * stride, w) = Copied(i * w, i * stride, w)
  <2>1. i * w \in Nat /\ i * stride \in Nat
    OBVIOUS
  <2>2. QED BY <2>1, RunCopied, Zenon
<1>2. DequantLines(rows, w, stride) = RowsCopied(rows, w, stride)
  <2>1. {Vectorised(i * w, i * stride, w) : i \in 0 .. rows - 1}
            = {Copied(i * w, i * stride, w) : i \in 0 .. rows - 1}
    BY <1>1, Zenon
  <2>2. QED BY <2>1, Zenon DEF DequantLines, RowsCopied
<1>3. QED
  BY <1>2, PlainRuns, PlainExact, Zenon

\* Lemma: a run of values in batches of 32 and what is left of them.
LEMMA Continuous ==
    ASSUME NEW total \in Nat
    PROVE  DequantContinuous(total) = {<<n, n>> : n \in 0 .. total - 1}
<1> DEFINE batched == (total \div Batch) * Batch
<1>1. batched \in Nat /\ total - batched \in Nat
  BY DEF Batch
<1>2. DequantContinuous(total)
          = {<<n, n>> : n \in 0 .. batched - 1}
                \cup Vectorised(batched, batched, total - batched)
  BY Zenon DEF DequantContinuous
<1> HIDE DEF batched
<1>3. ASSUME NEW n \in 0 .. total - 1
      PROVE  <<n, n>> \in DequantContinuous(total)
  <2>1. CASE n < batched
    BY <1>1, <1>2, <2>1
  <2>2. CASE ~(n < batched)
    <3>1. n - batched \in 0 .. total - batched - 1 /\ n = batched + (n - batched)
      BY <1>1, <2>2
    <3>2. Vectorised(batched, batched, total - batched)
              = Copied(batched, batched, total - batched)
      BY <1>1, RunCopied, Zenon
    <3>3. <<n, n>> \in Copied(batched, batched, total - batched)
      BY <3>1 DEF Copied
    <3>4. QED BY <1>2, <3>2, <3>3, Zenon
  <2>3. QED BY <2>1, <2>2
<1>4. ASSUME NEW e \in DequantContinuous(total)
      PROVE  \E n \in 0 .. total - 1 : e = <<n, n>>
  <2>1. CASE e \in {<<n, n>> : n \in 0 .. batched - 1}
    BY <1>1, <2>1
  <2>2. CASE e \in Vectorised(batched, batched, total - batched)
    <3>1. PICK k \in 0 .. total - batched - 1 : e = <<batched + k, batched + k>>
      <4>1. e \in Copied(batched, batched, total - batched)
        BY <1>1, <2>2, RunCopied, Zenon
      <4>2. QED BY <4>1 DEF Copied
    <3>2. batched + k \in 0 .. total - 1
      BY <1>1
    <3>3. QED BY <3>1, <3>2, Zenon
  <2>3. QED BY <1>2, <2>1, <2>2
<1>5. QED
  BY <1>3, <1>4

\* Lemma: rows without a gap are one run of values.
LEMMA ContinuousExact ==
    ASSUME NEW w \in Nat, NEW rows \in Nat
    PROVE  DequantContinuous(rows * w) = DequantReference(rows, w, w)
<1>1. rows * w \in Nat /\ (w = 0 => rows * w = 0)
  OBVIOUS
<1>2. \A d \in 0 .. rows * w - 1 : ((d \div w) * w) + (d % w) = d
  <2> TAKE d \in 0 .. rows * w - 1
  <2>1. w \in Nat \ {0} /\ d \in Nat
    BY <1>1
  <2>2. QED BY <2>1, OfRow
<1>3. DequantContinuous(rows * w) = {<<n, n>> : n \in 0 .. rows * w - 1}
  BY <1>1, Continuous
<1>4. QED
  BY <1>2, <1>3 DEF DequantReference

-----------------------------------------------------------------------------
(* Both directions *)

\* Lemma: numbers of rows and widths of rows are numbers.
LEMMA Sizes ==
    ASSUME NEW shape \in Shapes
    PROVE  Rows(shape) \in Nat /\ shape.w \in Nat /\ OutputStride(shape) \in Nat
<1>1. shape.c \in Nat /\ shape.h \in Nat /\ shape.w \in Nat
  BY DEF Shapes
<1>2. OutputStride(shape) \in Nat
  BY <1>1 DEF OutputStride, Align, ALIGN_BYTES, FloatSize
<1>3. QED
  BY <1>1, <1>2 DEF Rows

\* Theorem: whichever of its ways IE_HISI_Dequant takes, each value of an output
\* of any shape comes from its place (engine_nnie.cpp:65-230).
THEOREM OutputOfAnyShape == \A shape \in Shapes : OutputExact(shape)
<1> TAKE shape \in Shapes
<1>1. Rows(shape) \in Nat /\ shape.w \in Nat /\ OutputStride(shape) \in Nat
  BY Sizes
<1>2. QED
  BY <1>1, PlainExact, LinesExact, ContinuousExact DEF OutputExact, Dequant

\* Theorem: an image of any size reaches the accelerator as it is, if its width is
\* a multiple of 16 (engine_nnie.cpp:323-328, 564-572).
THEOREM InputOfAlignedShape ==
    \A shape \in Shapes : shape.w % ALIGN_BYTES = 0 => InputExact(shape)
<1> TAKE shape \in Shapes
<1> HAVE shape.w % ALIGN_BYTES = 0
<1>1. Rows(shape) \in Nat /\ shape.w \in Nat
  BY Sizes
<1>2. InputStride(shape) = shape.w
  BY <1>1 DEF InputStride, Align, ALIGN_BYTES
<1>3. \A p \in 0 .. Rows(shape) * shape.w - 1 :
          ((p \div shape.w) * shape.w) + (p % shape.w) = p
  <2> TAKE p \in 0 .. Rows(shape) * shape.w - 1
  <2>1. Rows(shape) * shape.w \in Nat /\ (shape.w = 0 => Rows(shape) * shape.w = 0)
    BY <1>1
  <2>2. shape.w \in Nat \ {0} /\ p \in Nat
    BY <1>1, <2>1
  <2>3. QED BY <2>2, OfRow
<1>4. QED
  BY <1>2, <1>3 DEF InputExact, CopyInput, InputReference
=============================================================================
