------------------------------- MODULE JserVal -------------------------------
(***************************************************************************)
(* Single values of jser: integers of all widths in msgpack (jser/msgpack/ *)
(* writer.hpp, reader.hpp and fmt.hpp), the alternative of a variant an    *)
(* encoded value is read as, and arrays read into vectors, arrays of a     *)
(* fixed size and tuples, packed or not (jser/read.hpp, jser/write.hpp).   *)
(*                                                                         *)
(* The writer and the reader only compare integers with powers of two: the *)
(* integer 2^k + d, d in -1 .. 1, or its negation, is [neg, k, d].         *)
(***************************************************************************)
EXTENDS Integers, Sequences, FiniteSets

VARIABLES
    task, \* "int", "arr"
    in,   \* the input
    out   \* <<what it became>>
vars == <<task, in, out>>

Ints  == [neg : BOOLEAN, k : 0 .. 64, d : -1 .. 1]
Types == [signed : BOOLEAN, bits : {8, 16, 32, 64}]

\* v < 2^m and v < -(2^m)
Below(v, m)    == v.neg \/ v.k < m \/ (v.k = m /\ v.d < 0)
BelowNeg(v, m) == v.neg /\ (v.k > m \/ (v.k = m /\ v.d > 0))

\* Is v a value of the type?
Of(T, v) ==
    IF T.signed THEN Below(v, T.bits - 1) /\ ~BelowNeg(v, T.bits - 1)
    ELSE ~v.neg /\ Below(v, T.bits)

Fixint(v)   == [tag |-> "fixint", bits |-> 7]
Posi(bits)  == [tag |-> "posi", bits |-> bits]
Negi(bits)  == [tag |-> "negi", bits |-> bits]

\* uint8() to uint64()
WriteUint(bits, v) ==
    IF Below(v, 7) THEN Fixint(v)
    ELSE IF bits = 8 \/ Below(v, 8) THEN Posi(8)
    ELSE IF bits = 16 \/ Below(v, 16) THEN Posi(16)
    ELSE IF bits = 32 \/ Below(v, 32) THEN Posi(32)
    ELSE Posi(64)

\* Mutant: negative integers of 9 bits are taken for ones of 8.
WriteIntOffByOne(bits, v) ==
    IF BelowNeg(v, 5)
    THEN IF bits = 64 /\ BelowNeg(v, 31) THEN Negi(64)
         ELSE IF bits >= 32 /\ BelowNeg(v, 15) THEN Negi(32)
         ELSE IF bits >= 16 /\ BelowNeg(v, 8) THEN Negi(16)
         ELSE Negi(8)
    ELSE WriteUint(bits, v)

\* int8() to int64(); int8() has no positive form but the fixint
WriteInt(bits, v) ==
    IF BelowNeg(v, 5)
    THEN IF bits = 64 /\ BelowNeg(v, 31) THEN Negi(64)
         ELSE IF bits >= 32 /\ BelowNeg(v, 15) THEN Negi(32)
         ELSE IF bits >= 16 /\ BelowNeg(v, 7) THEN Negi(16)
         ELSE Negi(8)
    ELSE WriteUint(bits, v)

\* arithmetic() of the writer
Write(T, v) == IF T.signed THEN WriteInt(T.bits, v) ELSE WriteUint(T.bits, v)

\* Does the form keep the value? A negative fixint has 5 bits below zero.
Keeps(f, v) ==
    CASE f.tag = "posi"   -> ~v.neg /\ Below(v, f.bits)
      [] f.tag = "negi"   -> Of([signed |-> TRUE, bits |-> f.bits], v)
      [] f.tag = "fixint" -> Below(v, 7) /\ ~BelowNeg(v, 5)

\* uint() and int_(): the result for the form f of v
Read(T, f, v) ==
    CASE f.tag = "fixint" -> IF v.neg /\ ~T.signed THEN "tag_mismatch" ELSE "ok"
      [] f.bits > T.bits -> "tag_mismatch"
      [] f.tag = "negi" -> IF T.signed THEN "ok" ELSE "tag_mismatch"
      [] f.tag = "posi" -> IF T.signed /\ T.bits = 64 /\ f.bits = 64 /\ ~Below(v, 63) THEN "posi_overflow" ELSE "ok"

\* get_jval_matched_type(): is an integer of form f one of the alternative of type T?
Matches(T, f, v) ==
    CASE f.tag = "fixint" -> T.signed \/ ~v.neg
      [] ~T.signed \/ T.bits >= 32 -> f.tag = "posi" /\ f.bits <= T.bits
      [] OTHER -> f.bits <= T.bits

-----------------------------------------------------------------------------
(* Arrays: n elements are read into d of m elements. *)

Arrs == [kind : {"vector", "fixed", "tuple"}, packed : {"no", "elements", "memcpy"},
         exact : BOOLEAN, n : 0 .. 4, m : 0 .. 4]

\* Mutant: what remains of a packed array is not skipped.
SkippedPacked(a, used) == IF a.packed = "elements" THEN used ELSE a.n

\* skip_remains() of the iterator, or skip_arr_remains() of a packed array: the position after it
Skipped(a, used) == a.n

\* read_jarr_of() and memcpy_to(): the fixed d takes the first elements
ReadArrOf(a) ==
    CASE a.kind = "vector" -> [res |-> "ok", read |-> a.n, pos |-> a.n]
      [] a.m > a.n /\ a.packed = "memcpy" -> [res |-> "invalid_elm_cnt", read |-> 0, pos |-> 0]
      [] a.m > a.n -> [res |-> "out_of_bound", read |-> a.n, pos |-> a.n]
      [] a.packed = "memcpy" -> [res |-> "ok", read |-> a.n, pos |-> a.n + (a.n - a.m)]
      [] OTHER -> [res |-> "ok", read |-> a.m, pos |-> Skipped(a, a.m)]

\* read_jarr() and read_jtuple()
ReadTuple(a) ==
    CASE a.m > a.n -> [res |-> "out_of_bound", read |-> a.n, pos |-> a.n]
      [] a.exact /\ a.n > a.m -> [res |-> "invalid_elm_cnt", read |-> a.m, pos |-> a.m]
      [] OTHER -> [res |-> "ok", read |-> a.m, pos |-> Skipped(a, a.m)]

ReadArr(a) == IF a.kind = "tuple" THEN ReadTuple(a) ELSE ReadArrOf(a)

-----------------------------------------------------------------------------
Init ==
    \/ /\ task = "int"
       /\ \E T \in Types, v \in Ints : Of(T, v) /\ in = [type |-> T, val |-> v]
       /\ out = <<>>
    \/ /\ task = "arr"
       /\ in \in Arrs /\ (in.kind = "tuple" => in.packed # "memcpy")
       /\ out = <<>>

Encode == task = "int" /\ out = <<>> /\ out' = <<Write(in.type, in.val)>> /\ UNCHANGED <<task, in>>

ReadArray == task = "arr" /\ out = <<>> /\ out' = <<ReadArr(in)>> /\ UNCHANGED <<task, in>>

Next == Encode \/ ReadArray
Spec == Init /\ [][Next]_vars

Done == out # <<>>

\* An integer is encoded in a form that keeps it, and is read back by its own type and by int64_t, for every
\* width and at every boundary ("You can use int64_t as general integral type"); only what int64_t has no
\* value for is an overflow.
IntegerRoundTrip ==
    task = "int" /\ Done =>
        LET f == out[1]
            r == Read([signed |-> TRUE, bits |-> 64], f, in.val) IN
        /\ Keeps(f, in.val)
        /\ Read(in.type, f, in.val) = "ok"
        /\ r = IF Below(in.val, 63) THEN "ok" ELSE "posi_overflow"

\* The alternative of a variant that was written is the one that is read, as get_jval_matched_type()
\* says of numbers.
VariantRoundTrip == task = "int" /\ Done => Matches(in.type, out[1], in.val)

\* An array that is read without an error is consumed whole, whatever of it was asked for: what follows is
\* read next.  (A packed array that is longer than the buffer of fixed size it is copied to is not.)
ArrayConsumed ==
    task = "arr" /\ Done /\ out[1].res = "ok" /\ ~(in.packed = "memcpy" /\ in.kind = "fixed" /\ in.m < in.n) =>
        out[1].pos = in.n /\ out[1].read = IF in.kind = "vector" THEN in.n ELSE in.m
=============================================================================
