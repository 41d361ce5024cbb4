----------------------------- MODULE NnieLayout -----------------------------
(* How EngineNNIE lays out what the accelerator reads and writes            *)
(* (src/engine/engine_nnie.cpp of the infer_engine module): the rows of a   *)
(* blob are aligned, those of an image and of an IE_Blob are not.  A copy is *)
(* the set of pairs <<offset written, offset read>>.  The offsets of an     *)
(* output are in floats, those of the input in bytes.                       *)
EXTENDS Integers

CONSTANT Neon       \* built with __ARM__

ASSUME NeonAssumption == Neon \in BOOLEAN

ALIGN_BYTES == 16
FloatSize == 4
MinStep == 4        \* ALIGN_BYTES / FloatSize
Batch == 32         \* what one turn of the assembly loop converts

\* The least multiple of align from size on.
AlignPastEnd(size, align) == size + (align - (size % align))
Align(size, align) == size + ((align - (size % align)) % align)

\* A blob is a number of rows (its height times its channels) of some width.
Rows(shape) == shape.c * shape.h
InputStride(shape) == Align(shape.w, ALIGN_BYTES)
OutputStride(shape) == Align(shape.w * FloatSize, ALIGN_BYTES) \div FloatSize

\* The values of k in "for (k = 0; k <= n - 4; k += 4)".
Turns(n) == {k \in 0 .. n : k % MinStep = 0 /\ k + MinStep <= n}

\* From src and dst on: fours, then what is left one by one.
Fours(n) == {k + j : k \in Turns(n), j \in 0 .. MinStep - 1}
Rest(n) == (n - (n % MinStep)) .. n - 1
Vectorised(dst, src, n) == {<<dst + k, src + k>> : k \in Fours(n) \cup Rest(n)}

\* Row by row, value by value: narrow blobs, and builds without Neon.
DequantPlain(rows, w, stride) ==
    {<<i * w + k, i * stride + k>> : i \in 0 .. rows - 1, k \in 0 .. w - 1}

\* Rows without a gap are one run of values: batches of 32 first.
DequantContinuous(total) ==
    LET batched == (total \div Batch) * Batch
    IN {<<n, n>> : n \in 0 .. batched - 1}
           \cup Vectorised(batched, batched, total - batched)

DequantLines(rows, w, stride) ==
    UNION {Vectorised(i * w, i * stride, w) : i \in 0 .. rows - 1}

\* Which offset of the accelerator's blob each value of the output comes from.
Dequant(rows, w, stride) ==
    IF w < MinStep \/ ~Neon THEN DequantPlain(rows, w, stride)
    ELSE IF stride = w THEN DequantContinuous(rows * w)
    ELSE DequantLines(rows, w, stride)

\* The memcpy of the image: one run of bytes.
CopyInput(shape) == {<<p, p>> : p \in 0 .. Rows(shape) * shape.w - 1}

-----------------------------------------------------------------------------
(* What the copies are for *)

\* Row i of the accelerator's blob begins at i * stride.
DequantReference(rows, w, stride) ==
    {<<d, ((d \div w) * stride) + (d % w)>> : d \in 0 .. rows * w - 1}

InputReference(shape) ==
    {<<((p \div shape.w) * InputStride(shape)) + (p % shape.w), p>> :
         p \in 0 .. Rows(shape) * shape.w - 1}

OutputExact(shape) ==
    Dequant(Rows(shape), shape.w, OutputStride(shape))
        = DequantReference(Rows(shape), shape.w, OutputStride(shape))

\* The image reaches the accelerator as it is only if its rows need no padding.
InputExact(shape) ==
    CopyInput(shape) = InputReference(shape)
=============================================================================
