--------------------------------- MODULE Framer ---------------------------------
(***************************************************************************)
(* protocol/Framer.ts: complete frames out of a byte stream that keeps no  *)
(* boundaries.  A buffer holds what no frame has claimed yet.  The first   *)
(* error fails the whole step, with the frames found before it.            *)
(***************************************************************************)
EXTENDS Codec

\* What the bytes at the front of a buffer are: too few to tell, a frame, or
\* something no frame begins with.
LengthField(buffer) == Part(buffer, 0, 4)
LengthOf(buffer) == NumberOf(LengthField(buffer))

NamesALength(buffer) == IsDigits(LengthField(buffer)) /\ LengthOf(buffer) >= HeaderLength
IsWhole(buffer) ==
    /\ Len(buffer) >= 4
    /\ NamesALength(buffer)
    /\ Len(buffer) > LengthOf(buffer)
IsMalformed(buffer) ==
    /\ Len(buffer) >= 4
    /\ \/ ~NamesALength(buffer)
       \/ IsWhole(buffer) /\ buffer[LengthOf(buffer) + 1] # Terminator

AfterFrame(buffer) == SubSeq(buffer, LengthOf(buffer) + 2, Len(buffer))

\* takeFrames, one frame at a time.
Rest(buffer) == IF IsWhole(buffer) /\ ~IsMalformed(buffer) THEN AfterFrame(buffer) ELSE buffer

\* takeFrames: a frame is at least HeaderLength + 1 bytes, which bounds how
\* many one buffer holds.
Further(before) ==
    IF Rest(Last(before)) = Last(before) THEN before ELSE Append(before, Rest(Last(before)))
Leftovers(buffer) ==
    LET most == Len(buffer) \div (HeaderLength + 1)
        taken[n \in 0 .. most] ==
            IF n = 0 THEN <<buffer>> ELSE Further(taken[n - 1])
    IN  taken[most]
Framed(left) ==
    [error |-> IsMalformed(Last(left)),
     buffer |-> Last(left),
     frames |-> [n \in 1 .. Len(left) - 1 |-> Part(left[n], 0, LengthOf(left[n]))]]
TakeFrames(buffer) == Framed(Leftovers(buffer))

\* Mutant of Step: what was left over of the chunks before is forgotten.
StepForgets(buffer, chunk) == TakeFrames(chunk)

\* step: latin1 gives every byte the character of its code.
Step(buffer, chunk) == TakeFrames(buffer \o chunk)

=============================================================================
