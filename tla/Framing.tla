------------------------------ MODULE Framing ------------------------------
(***************************************************************************)
(* framing.rs of crates/accesskit_remote: payloads behind a little-endian  *)
(* length, put together again from chunks cut anywhere.  Bytes are digits  *)
(* in base ByteValues and a header has HeaderLen of them, so that every    *)
(* length up to the limit and beyond it can be written.  The other end is  *)
(* this code, until it is not: then a header comes that no frame has.      *)
(***************************************************************************)
EXTENDS Integers, Sequences, SequencesExt

CONSTANTS
    HeaderLen,      \* FRAME_HEADER_LEN
    ByteValues,     \* values a byte has
    MaxFrameLen,    \* DEFAULT_MAX_FRAME_LEN
    Payloads,       \* what is framed, too short and too long ones included
    MaxFrames       \* bound: frames written

\* What a byte counts for that has i before it: a length is little-endian.
Weight[i \in 0..HeaderLen] == IF i = 0 THEN 1 ELSE Weight[i - 1] * ByteValues

ASSUME FramingAssumption ==
    /\ {HeaderLen, MaxFrameLen, MaxFrames} \subseteq Nat \ {0} /\ ByteValues \in Nat \ {0, 1}
    /\ MaxFrameLen < Weight[HeaderLen]
    /\ Payloads \subseteq Seq(0..ByteValues - 1)

VARIABLES
    framed,     \* the payloads framed so far
    foreign,    \* whether a header that no frame has was written after them
    bytes,      \* written and not yet read
    reader,     \* FrameReader: buf and pos
    frames,     \* the payloads the reader has returned
    frameError  \* why next_frame failed, or "none"

framingVars == <<framed, foreign, bytes, reader, frames, frameError>>

FramingInit ==
    /\ framed = <<>> /\ foreign = FALSE /\ bytes = <<>>
    /\ reader = [buf |-> <<>>, pos |-> 0] /\ frames = <<>> /\ frameError = "none"

-----------------------------------------------------------------------------
HeaderOf(len) == [i \in 1..HeaderLen |-> (len \div Weight[i - 1]) % ByteValues]
LengthIn(header) ==
    LET upTo[i \in 0..HeaderLen] ==
            IF i = 0 THEN 0 ELSE upTo[i - 1] + header[i] * Weight[i - 1]
    IN  upTo[HeaderLen]

\* frame_into leaves the output alone when it refuses a payload.
FrameInto(payload, out) ==
    IF Len(payload) \in 1..MaxFrameLen THEN out \o HeaderOf(Len(payload)) \o payload ELSE out

CompactNever(r) == r
Compact(r) == [buf |-> SubSeq(r.buf, r.pos + 1, Len(r.buf)), pos |-> 0]

\* next_frame: the reader after it, and what it returns.
NextFrame(r) ==
    LET avail == Len(r.buf) - r.pos
        len   == LengthIn(SubSeq(r.buf, r.pos + 1, r.pos + HeaderLen))
        start == r.pos + HeaderLen
    IN  CASE avail < HeaderLen -> [reader |-> Compact(r), gives |-> "nothing", payload |-> <<>>]
          [] avail >= HeaderLen /\ len = 0 -> [reader |-> r, gives |-> "Empty", payload |-> <<>>]
          [] avail >= HeaderLen /\ len > MaxFrameLen ->
                [reader |-> r, gives |-> "TooLarge", payload |-> <<>>]
          [] OTHER -> IF avail < HeaderLen + len
                      THEN [reader |-> Compact(r), gives |-> "nothing", payload |-> <<>>]
                      ELSE [reader |-> [r EXCEPT !.pos = start + len], gives |-> "frame",
                            payload |-> SubSeq(r.buf, start + 1, start + len)]

\* drain_frames, as long as the session goes on: until nothing or an error.
DrainOne(acc) ==
    LET n == NextFrame(acc.reader)
    IN  IF acc.gives # "frame" THEN acc
        ELSE [reader |-> n.reader, gives |-> n.gives,
              got |-> IF n.gives = "frame" THEN Append(acc.got, n.payload) ELSE acc.got]

DrainFrames(r) ==
    LET after[n \in 0..Len(r.buf) + 1] ==
            IF n = 0 THEN [reader |-> r, gives |-> "frame", got |-> <<>>] ELSE DrainOne(after[n - 1])
    IN  after[Len(r.buf) + 1]

-----------------------------------------------------------------------------
Frame(payload) ==
    /\ ~foreign /\ Len(framed) < MaxFrames
    /\ framed' = IF FrameInto(payload, <<>>) = <<>> THEN framed ELSE Append(framed, payload)
    /\ bytes' = FrameInto(payload, bytes)
    /\ UNCHANGED <<foreign, reader, frames, frameError>>

WriteForeign(len) ==
    /\ ~foreign /\ foreign' = TRUE
    /\ bytes' = bytes \o HeaderOf(len)
    /\ UNCHANGED <<framed, reader, frames, frameError>>

\* A session that failed reads nothing more; what a chunk held before the
\* failure is dropped with it.
ReadChunk(n) ==
    /\ frameError = "none" /\ n \in 1..Len(bytes)
    /\ bytes' = SubSeq(bytes, n + 1, Len(bytes))
    /\ LET d == DrainFrames([reader EXCEPT !.buf = @ \o SubSeq(bytes, 1, n)])
       IN  /\ reader' = d.reader
           /\ frames' = IF d.gives = "nothing" THEN frames \o d.got ELSE frames
           /\ frameError' = IF d.gives = "nothing" THEN "none" ELSE d.gives
    /\ UNCHANGED <<framed, foreign>>

FramingNext ==
    \/ \E payload \in Payloads : Frame(payload)
    \/ \E len \in {0} \cup MaxFrameLen + 1..Weight[HeaderLen] - 1 : WriteForeign(len)
    \/ \E n \in 1..Len(bytes) : ReadChunk(n)

-----------------------------------------------------------------------------
(* Wherever the stream is cut, frames come out as they were put in, all of *)
(* them once their bytes are read; what the reader keeps meanwhile is the  *)
(* unfinished frame alone, never the bytes of those it returned; and no    *)
(* frame of this code is taken for an error (FrameReader).                 *)
FramesExact ==
    /\ IsPrefix(frames, framed)
    /\ frameError = "none" =>
          /\ reader.pos = 0
          /\ Len(reader.buf) < HeaderLen + MaxFrameLen
          /\ bytes = <<>> /\ ~foreign => frames = framed /\ reader.buf = <<>>
    /\ frameError # "none" => foreign
=============================================================================
