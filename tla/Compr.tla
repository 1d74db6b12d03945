-------------------------------- MODULE Compr --------------------------------
(***************************************************************************)
(* The streaming compressors and decompressors of dsk/compr: append() of   *)
(* zlib.hpp, bz2.hpp and zstd.hpp, append_multi() and auto_decompressor.   *)
(* Texts are compressed, a stream each, by appends of pieces of any size   *)
(* that may be flushed, and finished; all the streams are then             *)
(* decompressed in chunks of any size.                                     *)
(*                                                                         *)
(* The libraries are external.  A compressor holds symbols back until it   *)
(* has a block of them or is told to flush.  A decompressor takes a unit   *)
(* of the compressed stream and gives its symbols as space permits.  zlib  *)
(* and bz2 end a stream with a unit that has no symbols (a checksum); the  *)
(* last unit of zstd and of raw deflate has some, and zstd alone leaves it *)
(* in the input until its symbols are written.                             *)
(***************************************************************************)
EXTENDS Naturals, Sequences, SequencesExt

CONSTANTS
    Libs,   \* a subset of {"zlib", "raw", "bz2", "zstd"}; raw is zlib
            \* with windowBits < 0
    Texts,  \* what is compressed: sequences of texts
    Incrs   \* the values of bufIncr

VARIABLES
    lib, incr,
    texts,   \* the texts
    phase,   \* "compr", "decompr", "end"
    pc,      \* "idle": between two calls; "loop": in append()
    act,     \* "run", "flush", "finish"
    multi,   \* append_multi() rather than append()
    auto,    \* auto_decompressor: "off", "init", "known", "unknown"
    src,     \* input the caller did not give to append() yet
    s,       \* the stream of the library and its buffers
    coded,   \* the streams compressed so far
    isEnd,   \* decompr_r::isEnd of the last call
    err      \* append() failed
vars == <<lib, incr, texts, phase, pc, act, multi, auto, src, s, coded, isEnd, err>>

BlockSize == 2
Block(syms) == [syms |-> syms, last |-> FALSE]
Final(syms)  == [syms |-> syms, last |-> TRUE]
Gap         == [syms |-> <<0>>, last |-> FALSE]  \* bytes nobody wrote

\* in, out: of the current append; held: symbols the compressor keeps;
\* pend: what is not written yet; last: the last unit was taken; ended: the
\* stream ended; space: avail_out; flushed: a flush was the last thing done.
Stream == [in |-> <<>>, out |-> <<>>, held |-> <<>>, pend |-> <<>>,
           last |-> FALSE, ended |-> FALSE, space |-> 0, flushed |-> FALSE]

(***************************************************************************)
(* The libraries.                                                          *)
(***************************************************************************)
Wrote(t) == [t EXCEPT !.out = Append(@, Head(t.pend)), !.pend = Tail(@),
                      !.space = @ - 1]

\* deflate(), BZ2_bzCompress(), ZSTD_compressStream2()
RECURSIVE Encode(_)
Encode(t) ==
    IF t.pend # <<>> THEN IF t.space = 0 THEN t ELSE Encode(Wrote(t))
    ELSE IF Len(t.held) = BlockSize
         THEN Encode([t EXCEPT !.pend = <<Block(t.held)>>, !.held = <<>>])
    ELSE IF t.in # <<>>
         THEN Encode([t EXCEPT !.held = Append(@, Head(t.in)), !.in = Tail(@),
                               !.flushed = FALSE])
    ELSE IF act = "flush" /\ ~t.flushed
         THEN Encode([t EXCEPT !.pend = <<Block(t.held)>>, !.held = <<>>,
                               !.flushed = TRUE])
    ELSE IF act = "finish" /\ ~t.ended
         THEN Encode([t EXCEPT !.pend = IF lib \in {"zstd", "raw"}
                                        THEN <<Final(t.held)>>
                                        ELSE <<Block(t.held), Final(<<>>)>>,
                               !.held = <<>>, !.ended = TRUE])
    ELSE t

\* inflate(), BZ2_bzDecompress(), ZSTD_decompressStream()
RECURSIVE Decode(_)
Decode(t) ==
    IF t.pend # <<>> THEN IF t.space = 0 THEN t ELSE Decode(Wrote(t))
    ELSE IF t.last
         THEN [t EXCEPT !.last = FALSE, !.ended = TRUE,
                        !.in = IF lib = "zstd" THEN Tail(@) ELSE @]
    ELSE IF t.in # <<>> /\ ~t.ended
         THEN Decode([t EXCEPT !.pend = Head(t.in).syms, !.last = Head(t.in).last,
                               !.in = IF lib = "zstd" /\ Head(t.in).last
                                      THEN @ ELSE Tail(@)])
    ELSE t

(***************************************************************************)
(* append(): the loop around the library.                                  *)
(***************************************************************************)
\* buy_buf_at_least(); what was not used of an earlier buffer stays in the
\* output.  zstd only buys one when the last one is full.
Bought(t) ==
    IF lib = "zstd" /\ t.space > 0 THEN t
    ELSE [t EXCEPT !.out = @ \o [k \in 1 .. t.space |->
                                   IF phase = "compr" THEN Gap ELSE 0],
                   !.space = incr]

\* When the compressors' loop is left
ZlibDone(t) == CASE act = "run"    -> t.in = <<>>
                 [] act = "flush"  -> t.space > 0
                 [] act = "finish" -> t.ended /\ t.pend = <<>>
\* Mutant: the loop ends as soon as all input is taken.
Bz2DoneEarly(t) == t.in = <<>>
Bz2Done(t) == CASE act = "run"    -> t.in = <<>>
                [] act = "flush"  -> t.pend = <<>> /\ t.in = <<>>
                [] act = "finish" -> t.ended /\ t.pend = <<>>
ZstdDone(t) == CASE act = "run" -> t.in = <<>>
                 [] OTHER       -> t.pend = <<>> /\ t.held = <<>> /\ t.in = <<>>
Done(t) == CASE lib \in {"zlib", "raw"} -> ZlibDone(t)
             [] lib = "bz2"             -> Bz2Done(t)
             [] lib = "zstd"            -> ZstdDone(t)

\* One iteration of a compressor's append(); remove_buf_tail() at its end.
ComprLoop ==
    /\ phase = "compr" /\ pc = "loop"
    /\ LET t == Encode(Bought(s)) IN
       IF Done(t) THEN s' = [t EXCEPT !.space = 0] /\ pc' = "idle"
       ELSE s' = t /\ pc' = "loop"
    /\ UNCHANGED <<lib, incr, texts, phase, act, multi, auto, src, coded, isEnd, err>>

\* One iteration of a decompressor's append(): Z_FINISH of the one-shot
\* zlib_decompress_append() makes inflate() return Z_BUF_ERROR, that is,
\* the loop goes on, unless the stream ended.  append_multi() resets the
\* stream at its end and calls append() again until its input is used up.
ZlibDecompr(t) == t.ended \/ (act = "run" /\ t.in = <<>>)
Bz2Decompr(t)  == t.ended \/ t.in = <<>>
ZstdDecompr(t) == t.ended \/ t.in = <<>>
DecomprDone(t) == CASE lib \in {"zlib", "raw"} -> ZlibDecompr(t)
                    [] lib = "bz2"             -> Bz2Decompr(t)
                    [] lib = "zstd"            -> ZstdDecompr(t)

Reset(t) == [t EXCEPT !.space = 0, !.ended = FALSE]

DecomprLoop ==
    /\ phase = "decompr" /\ pc = "loop"
    /\ LET t == Decode(Bought(s)) IN
       IF DecomprDone(t)
       THEN /\ isEnd' = t.ended
            /\ s' = IF multi THEN Reset(t) ELSE [t EXCEPT !.space = 0]
            /\ pc' = IF multi /\ t.in # <<>> THEN "loop" ELSE "idle"
       ELSE s' = t /\ UNCHANGED <<isEnd, pc>>
    /\ UNCHANGED <<lib, incr, texts, phase, act, multi, auto, src, coded, err>>

(***************************************************************************)
(* The callers.                                                            *)
(***************************************************************************)
\* append<Act>(d, in): an empty input is only a call to flush or finish
AppendPiece ==
    /\ phase = "compr" /\ pc = "idle" /\ ~s.ended
    /\ \E n \in 0 .. Len(src), a \in {"run", "flush", "finish"} :
        /\ a = "run" => n > 0
        /\ a = "finish" => n = Len(src)
        /\ a = "flush" => n > 0 \/ ~s.flushed
        /\ act' = a
        /\ s' = [s EXCEPT !.in = SubSeq(src, 1, n), !.flushed = FALSE]
        /\ src' = SubSeq(src, n + 1, Len(src))
    /\ pc' = "loop"
    /\ UNCHANGED <<lib, incr, texts, phase, multi, auto, coded, isEnd, err>>

\* The compressor is finished: the next text with a new one, or all streams
\* are given to a decompressor.
NextText ==
    /\ phase = "compr" /\ pc = "idle" /\ s.ended
    /\ coded' = Append(coded, s.out)
    /\ IF Len(coded') < Len(texts)
       THEN src' = texts[Len(coded') + 1] /\ UNCHANGED <<phase, multi, auto>>
       ELSE /\ phase' = "decompr" /\ src' = FlattenSeq(coded')
            /\ multi' \in {TRUE, Len(texts) > 1}
            /\ auto' \in {"off", "init"}
    /\ s' = [Stream EXCEPT !.pend = IF phase' = "compr" THEN <<Block(<<>>)>> ELSE <<>>]
    /\ UNCHANGED <<lib, incr, texts, pc, act, isEnd, err>>

\* auto_decompressor::init(): the type is told from the first chunk, which
\* is taken for unknown when it is shorter than the magic number
Magic == CASE lib \in {"zlib", "raw"} -> 1 [] lib = "bz2" -> 2 [] lib = "zstd" -> 2
Detected(n) == IF n >= Magic THEN "known" ELSE "unknown"

\* append(d, in) or append_multi(d, in); the first append() of unknown data
\* gives an empty result, the ones after it an error
AppendChunk ==
    /\ phase = "decompr" /\ pc = "idle" /\ src # <<>> /\ ~err
    /\ ~isEnd \/ multi
    /\ \E n \in 1 .. Len(src), a \in {"run", "finish"} :
        /\ a = "finish" => lib = "zlib" /\ n = Len(src) /\ ~multi /\ auto = "off"
                           /\ s.out = <<>>
        /\ act' = a
        /\ auto' = IF auto = "init" THEN Detected(n) ELSE auto
        /\ IF auto' = "unknown"
           THEN err' = (auto = "unknown") /\ UNCHANGED <<s, pc>>
           ELSE s' = [s EXCEPT !.in = SubSeq(src, 1, n)] /\ pc' = "loop"
                /\ UNCHANGED err
        /\ src' = SubSeq(src, n + 1, Len(src))
    /\ UNCHANGED <<lib, incr, texts, phase, multi, coded, isEnd>>

Init ==
    /\ lib \in Libs /\ incr \in Incrs /\ texts \in Texts
    /\ phase = "compr" /\ pc = "idle" /\ act = "run"
    /\ multi = FALSE /\ auto = "off"
    /\ src = Head(texts) /\ s = [Stream EXCEPT !.pend = <<Block(<<>>)>>]
    /\ coded = <<>> /\ isEnd = FALSE /\ err = FALSE

Next == ComprLoop \/ DecomprLoop \/ AppendPiece \/ NextText \/ AppendChunk

Spec == Init /\ [][Next]_vars

(***************************************************************************)
(* Properties.                                                             *)
(***************************************************************************)
AllGiven == phase = "decompr" /\ pc = "idle" /\ src = <<>>

\* Whatever the pieces, the flushes, the chunks and the sizes of the
\* buffers: the decompressor gives back all texts, in order and with
\* nothing in between, and reports the end of the stream.  Only an
\* auto_decompressor whose first chunk was shorter than the magic number
\* fails, and says so no later than at the second chunk.
RoundTrip ==
    AllGiven =>
        IF auto = "unknown" THEN s.out = <<>>
        ELSE s.out = FlattenSeq(texts) /\ isEnd /\ ~err
=============================================================================
