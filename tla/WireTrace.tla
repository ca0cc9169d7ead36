------------------------------- MODULE WireTrace -------------------------------
(***************************************************************************)
(* transport/WireTrace.ts and WireEscape.ts: every socket operation is     *)
(* told as a chunk, every frame it completed as a frame, both with their   *)
(* bytes written in printable characters.  The tracer frames the stream    *)
(* for itself and starts over where it cannot follow it.                   *)
(***************************************************************************)
EXTENDS Framer

Backslash == 92
LetterX == 120
Named ==
    [code \in {0, 9, 10, 13, Backslash} |->
        CASE code = 0 -> 48 [] code = 9 -> 116 [] code = 10 -> 110 [] code = 13 -> 114
          [] code = Backslash -> Backslash]
HexDigit(value) == IF value < 10 THEN Zero + value ELSE 97 + value - 10
HexValue(char) == IF IsDigit(char) THEN char - Zero ELSE char - 97 + 10
IsPrintable(code) == code \in 32 .. 126

\* tokens: how one byte is written.
Token(code) ==
    IF code \in DOMAIN Named THEN <<Backslash, Named[code]>>
    ELSE IF IsPrintable(code) THEN <<code>>
    ELSE <<Backslash, LetterX, HexDigit(code \div 16), HexDigit(code % 16)>>

\* Mutant of EscapeWire: what is not printable is left out.
EscapePrintable(bytes) == SelectSeq(bytes, IsPrintable)

EscapeWire(bytes) == Joined([i \in DOMAIN bytes |-> Token(bytes[i])])

NamedCode(char) == CHOOSE code \in DOMAIN Named : Named[code] = char

\* escaped, plain, in a text escapeWire wrote: a backslash opens an escape
\* after an even number of others, and \x takes four characters, not two.
OthersBefore(text, i) ==
    CHOOSE k \in 0 .. i - 1 :
       /\ k < i - 1 => text[i - k - 1] # Backslash
       /\ \A m \in 1 .. k : text[i - m] = Backslash
Opens(text, i) == text[i] = Backslash /\ OthersBefore(text, i) % 2 = 0
Width(text, i) == IF text[i + 1] = LetterX THEN 4 ELSE 2
IsToken(text, i) ==
    \A k \in 1 .. Min({3, i - 1}) : Opens(text, i - k) => Width(text, i - k) <= k
Code(text, i) ==
    IF ~Opens(text, i) THEN text[i]
    ELSE IF Width(text, i) = 2 THEN NamedCode(text[i + 1])
    ELSE 16 * HexValue(text[i + 2]) + HexValue(text[i + 3])

UnescapeWire(text) ==
    Joined([i \in DOMAIN text |-> IF IsToken(text, i) THEN <<Code(text, i)>> ELSE <<>>])

\* TextEncoder: a character above 127 takes two bytes.
Utf8(text) ==
    Joined([i \in DOMAIN text |->
                  IF text[i] < 128 THEN <<text[i]>>
                  ELSE <<192 + (text[i] \div 64), 128 + (text[i] % 64)>>])

WireDirection == {"send", "recv"}
WireEventKind == {"chunk", "frame"}
WireEvent ==
    [direction : WireDirection, kind : WireEventKind, bytes : Nat, mid : Seq(0 .. 255),
     raw : Seq(0 .. 127)]

ChunkEvent(direction, bytes) ==
    [direction |-> direction, kind |-> "chunk", bytes |-> Len(bytes), mid |-> <<>>,
     raw |-> EscapeWire(bytes)]

FrameEvent(direction, frame) ==
    [direction |-> direction, kind |-> "frame", bytes |-> Len(frame) + 1,
     mid |-> Part(frame, 4, 8), raw |-> EscapeWire(Utf8(frame \o <<Terminator>>))]

\* observe: the events of one socket operation, and what the tracer holds of
\* that direction afterwards.
Tells(direction, bytes, next) ==
    [events |-> <<ChunkEvent(direction, bytes)>> \o
                [i \in DOMAIN next.frames |-> FrameEvent(direction, next.frames[i])],
     buffer |-> next.buffer]
Observe(direction, buffer, bytes) ==
    Tells(direction, bytes,
          CHOOSE next \in {IF n.error THEN [buffer |-> <<>>, frames |-> <<>>] ELSE n :
                             n \in {Step(buffer, bytes)}} : TRUE)

=============================================================================
