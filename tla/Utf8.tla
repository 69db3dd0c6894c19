-------------------------------- MODULE Utf8 --------------------------------
(***************************************************************************)
(* The conversions of src/utf8.cpp (POSIX, a wchar_t of four bytes)        *)
(* between wide text and UTF-8 or the encoding of the locale: each way is  *)
(* measured first and then done, a character at a time.                    *)
(*                                                                         *)
(* A text is converted to bytes and back; bytes that are given first are   *)
(* measured, converted to a text, and that converted likewise.  Given      *)
(* bytes may be cut off.  The UTF-8 decoder may then read outside of what  *)
(* it was given, which ends here as "astray".  Where mbrtowc() fails, the  *)
(* test for a count above 0 takes the failure, of an unsigned type, for    *)
(* one: the place goes back by one byte, or by two, and so does the size,  *)
(* which is taken for negative here where the program's wraps.             *)
(***************************************************************************)
EXTENDS Integers, Sequences
LOCAL INSTANCE SequencesExt
LOCAL INSTANCE FiniteSetsExt

CONSTANTS
  Texts,          \* wide texts, sequences of code points
  Bytes,          \* given as UTF-8, whole sequences and others
  Natives,        \* given in the encoding of the locale
  Room,           \* for the text of those, when they have not been measured
  CharIsSigned    \* of the platform's char

VARIABLE conv   \* the conversion that is being done

NUL == 0
Subst == 65533     \* utf_subst_val
Unset == -1        \* a wide character that mbrtowc() has not written

\* utf8_data: what a byte is when it comes first.
Lead(c) ==
  CASE c < 128 -> 1
    [] c \in 128..191 -> -1
    [] c \in {192, 193} -> -2
    [] c \in 194..223 -> 2
    [] c = 224 -> -3
    [] c = 237 -> -4
    [] c \in 225..239 \ {237} -> 3
    [] c = 240 -> -5
    [] c = 244 -> -6
    [] c \in 241..243 -> 4
    [] OTHER -> 0

Follows(k) == CASE k = 2 -> 1 [] k \in {3, -3, -4} -> 2 [] k \in {4, -5, -6} -> 3 [] OTHER -> 0

\* The second byte of an overlong sequence or of a reserved value; a signed
\* char is never at least 0x80.
Refused(k, c) ==
  /\ ~CharIsSigned
  /\ c \in CASE k = -3 -> 128..159 [] k = -4 -> 160..191 [] k = -5 -> 128..143 [] k = -6 -> 144..191 [] OTHER -> {}

\* A step of a decoder: what it adds to the text and to the size, the place it
\* goes on at, whether the byte it saw last was NUL, and what went wrong.
Step(units, adds, next, nul) ==
  [units |-> units, adds |-> adds, next |-> next, nul |-> nul,
   outside |-> FALSE, failed |-> FALSE, partial |-> 0]

\* One character of UTF-8.  The bytes that follow are read as far as the first
\* bad one, but the place moves beyond all of them, and beyond the one after an
\* overlong lead, whatever they are.
DecodeOne(in, i) ==
  LET At(j) == IF j \in DOMAIN in THEN in[j] ELSE NUL
      k == Lead(At(i))
      l == Follows(k)
      refused == Refused(k, At(i + 1))
      bad == {j \in 1..l : Lead(At(i + j)) # -1}
      last == i + (IF refused THEN 0 ELSE IF bad = {} THEN l ELSE Min(bad))
      value[j \in 0..3] == IF j = 0 THEN IF l = 0 THEN At(i) ELSE At(i) % (2 ^ (6 - l))
                           ELSE value[j - 1] * 64 + (At(i + j) % 64)
      good == k \notin {0, -1, -2} /\ ~refused /\ bad = {}
  IN  [Step(<<IF good THEN value[l] ELSE Subst>>, 1, i + 1 + (IF k = -2 THEN 1 ELSE l), At(last) = NUL)
         EXCEPT !.outside = last > Len(in)]

\* Mutant: the last code point of two bytes is measured as one of three.
EncodedLengthLong(v) == IF v <= 127 THEN 1 ELSE IF v < 2047 THEN 2 ELSE IF v <= 65535 THEN 3 ELSE IF v <= 1114111 THEN 4 ELSE 3

\* measure_utf8() and to_utf8() of one code point; the test for surrogates
\* that to_utf8() makes is never true.
EncodedLength(v) == IF v <= 127 THEN 1 ELSE IF v <= 2047 THEN 2 ELSE IF v <= 65535 THEN 3 ELSE IF v <= 1114111 THEN 4 ELSE 3

Follow(v) == 128 + (v % 64)

Encoded(v) ==
  CASE v <= 127 -> <<v>>
    [] v \in 128..2047 -> <<192 + (v \div 64), Follow(v)>>
    [] v \in 2048..65535 -> IF v > 55295 /\ v < 3584 THEN <<239, 191, 189>>
                            ELSE <<224 + (v \div 4096), Follow(v \div 64), Follow(v)>>
    [] v \in 65536..1114111 -> <<240 + (v \div 262144), Follow(v \div 4096), Follow(v \div 64), Follow(v)>>
    [] OTHER -> <<239, 191, 189>>

-----------------------------------------------------------------------------
(* wcrtomb() and mbrtowc() of the locale (external): a character is one or *)
(* two bytes, those of two begin above 1000 and end with 1, which alone is *)
(* a character too; no character begins with a byte from 128 to 999.       *)
Unknown(v) == v > 1114111 \/ v \in 55296..57343

Native(v) == IF v < 128 THEN <<v>> ELSE <<1000 + v, 1>>

Fails(n, i, partial) == [Step(<<Unset>>, -n, i - n, FALSE) EXCEPT !.failed = TRUE, !.partial = partial]

\* partial is the first byte of a character whose second has not been seen (its
\* mbstate_t): -2 keeps it, after -1 it is anybody's guess.
NativeOne(in, i, partial) ==
  LET lead == IF partial = 0 THEN in[i] ELSE partial
      j == IF partial = 0 THEN i + 1 ELSE i
  IN  CASE lead < 128 -> {Step(<<lead>>, 1, i + 1, lead = NUL)}
        [] lead \in 128..999 -> {Fails(1, i, 0)}
        [] lead > 999 /\ j > Len(in) -> {Fails(2, i, lead)}
        [] OTHER -> IF in[j] = 1 THEN {Step(<<lead - 1000>>, j + 1 - i, j + 1, FALSE)}
                    ELSE {Fails(1, i, 0), Fails(1, i, lead)}

-----------------------------------------------------------------------------
(* The calls.  A counted text has its length; the other ends with a NUL.   *)
Starts(c, stage, in, room) ==
  [c EXCEPT !.stage = stage, !.in = in, !.room = room, !.at = 1, !.out = <<>>, !.required = 0, !.partial = 0]

\* A text that is not counted is what comes before its first NUL.
TextOf(c, wide) ==
  LET ends == {i \in DOMAIN wide : ~c.counted /\ wide[i] = NUL}
  IN  IF ends = {} THEN wide ELSE SubSeq(wide, 1, CHOOSE i \in ends : \A j \in ends : i <= j)

Init ==
  \E native \in BOOLEAN, counted \in BOOLEAN :
    LET c == [stage |-> "to", native |-> native, counted |-> counted, text |-> <<>>, in |-> <<>>,
              room |-> 0, at |-> 1, out |-> <<>>, required |-> 0, measured |-> 0, partial |-> 0, failed |-> FALSE]
        End(t) == IF counted THEN t ELSE Append(t, NUL)
    IN  \/ \E t \in Texts : conv = Starts([c EXCEPT !.text = TextOf(c, End(t))], "measure_to", End(t), 0)
        \/ ~native /\ \E b \in Bytes : conv = Starts(c, "measure_given", End(b), 0)
        \/ native /\ \E b \in Natives, stage \in {"measure_given", "given"} : conv = Starts(c, stage, End(b), Room)

\* The loops end with the text; those of the locale's also before a character
\* that wcrtomb() refuses.
MoreWide ==
  /\ conv.at <= Len(conv.in)
  /\ ~conv.counted => conv.in[conv.at] # NUL
  /\ conv.native => ~Unknown(conv.in[conv.at])

Takes(n, next, units) ==
  conv' = [conv EXCEPT !.at = next, !.required = @ + n, !.out = @ \o units]

\* The units are written where there is room for one more.
Writes(n, units) == IF conv.required + n < conv.room THEN units ELSE <<>>

\* measure_native() of a wide text that ends with a NUL goes on beyond it: that
\* text is converted without a measure.
MeasureWide ==
  /\ conv.stage = "measure_to" /\ MoreWide /\ ~(conv.native /\ ~conv.counted)
  /\ Takes(IF conv.native THEN Len(Native(conv.in[conv.at])) ELSE EncodedLength(conv.in[conv.at]), conv.at + 1, <<>>)

MeasureWideEnds ==
  /\ conv.stage = "measure_to" /\ (~MoreWide \/ (conv.native /\ ~conv.counted))
  /\ LET n == IF conv.native /\ ~conv.counted THEN 2 * Len(conv.in) - 1
              ELSE conv.required + (IF conv.counted THEN 0 ELSE 1)
     IN  \E room \in {0, n, n + 1} : conv' = Starts([conv EXCEPT !.measured = n], "to", conv.in, room)

\* to_utf8() goes on to measure; to_native() stops where there is no room.
ToUtf8 ==
  /\ conv.stage = "to" /\ MoreWide /\ ~conv.native
  /\ LET e == Encoded(conv.in[conv.at]) IN Takes(Len(e), conv.at + 1, Writes(Len(e), e))

ToNative ==
  /\ conv.stage = "to" /\ MoreWide /\ conv.native
  /\ LET e == Native(conv.in[conv.at])
         end == Len(conv.out) + Len(e)
     IN  IF end > conv.room \/ (~conv.counted /\ end = conv.room)
         THEN conv' = [conv EXCEPT !.required = @ + Len(e), !.stage = "short"]
         ELSE Takes(Len(e), conv.at + 1, e)

ToEnds ==
  /\ conv.stage = "to" /\ ~MoreWide
  /\ conv' = IF conv.counted THEN [conv EXCEPT !.stage = "bytes"]
             ELSE [conv EXCEPT !.stage = "bytes", !.required = @ + 1, !.out = @ \o Writes(1, <<NUL>>)]

\* Bytes that were written whole are converted back.
Whole == Len(conv.out) = conv.required
BytesAreUsed ==
  /\ conv.stage = "bytes" /\ Whole
  /\ conv' = Starts(conv, "measure_from", conv.out, 0)

Reading == conv.stage \in {"measure_given", "measure_from", "given", "from"}
Measuring == conv.stage \in {"measure_given", "measure_from"}

\* The UTF-8 loop is tested after each character, the other before.
Nothing == conv.native /\ conv.in = <<>>

Ones ==
  IF conv.native THEN NativeOne(conv.in, conv.at, conv.partial) ELSE {DecodeOne(conv.in, conv.at)}

\* from_utf8() goes on to measure, from_native() stops when the buffer is full.
After(o) ==
  [conv EXCEPT !.at = o.next, !.required = @ + o.adds, !.partial = o.partial, !.failed = @ \/ o.failed,
               !.out = IF Measuring THEN @ ELSE @ \o (IF conv.native THEN o.units ELSE Writes(1, o.units))]

IsLast(o) ==
  \/ IF conv.counted THEN o.next > Len(conv.in) ELSE o.nul
  \/ conv.native /\ (o.next < 1 \/ (~Measuring /\ Len(conv.out) + 1 = conv.room))

\* What was measured is converted, unless mbrtowc() has failed.
Ended(c) ==
  CASE c.stage = "given" \/ c.failed -> [c EXCEPT !.stage = "text"]
    [] c.stage = "from" -> [c EXCEPT !.stage = "wide"]
    [] OTHER -> Starts([c EXCEPT !.measured = c.required], IF c.stage = "measure_given" THEN "given" ELSE "from",
                       c.in, c.required + 1)

ReadOne ==
  /\ Reading /\ ~Nothing
  /\ \E o \in Ones :
       conv' = IF o.outside THEN [conv EXCEPT !.stage = "astray"]
               ELSE IF IsLast(o) THEN Ended(After(o)) ELSE After(o)

ReadNothing == Reading /\ Nothing /\ conv' = Ended(conv)

\* A sequence that the NUL cuts off takes it: the text then has no end.
Terminated == conv.counted \/ (conv.out # <<>> /\ Last(conv.out) = NUL)

GivenIsText ==
  /\ conv.stage = "text" /\ ~conv.failed /\ Terminated
  /\ conv' = Starts([conv EXCEPT !.text = TextOf(conv, conv.out)], "measure_to", conv.out, 0)

Next == MeasureWide \/ MeasureWideEnds \/ ToUtf8 \/ ToNative \/ ToEnds \/ BytesAreUsed \/ ReadOne \/ ReadNothing \/ GivenIsText

-----------------------------------------------------------------------------
\* The part of a text that has bytes in the encoding, ended as the text is.
Kept ==
  LET refused == {i \in DOMAIN conv.text : conv.native /\ Unknown(conv.text[i])}
  IN  IF refused = {} THEN conv.text
      ELSE SubSeq(conv.text, 1, Min(refused) - 1) \o (IF conv.counted THEN <<>> ELSE <<NUL>>)

\* A decoder is led astray, or loses the NUL, only by no bytes at all, or by a
\* byte that announces more than there is.
Announced(c) == CASE c \in 192..223 -> 1 [] c \in 224..239 -> 2 [] c \in 240..244 -> 3 [] OTHER -> 0
CutOff(in) ==
  in = <<>> \/ \E i \in DOMAIN in : Announced(in[i]) > (IF conv.counted THEN Len(in) - i ELSE Len(in) - 1 - i)

\* A text that was converted to bytes and back is the same, as far as it has
\* bytes, malformed bytes having been replaced once; a conversion needs what was
\* measured for it, and a buffer with one unit more has all of it.  Only bytes
\* that were given lead the decoder astray or make mbrtowc() fail; and then too
\* it writes no further than its buffer.
TextsComeBack ==
  /\ conv.stage = "wide" =>
       conv.out = [i \in DOMAIN Kept |-> IF Kept[i] > 1114111 THEN Subst ELSE Kept[i]]
  /\ conv.stage = "wide" \/ (conv.stage = "text" /\ ~conv.native) => conv.required = conv.measured
  /\ conv.stage = "bytes" =>
       /\ conv.required <= conv.measured /\ (~(conv.native /\ ~conv.counted) => conv.required = conv.measured)
       /\ conv.room > conv.measured => Whole
  /\ conv.stage = "astray" \/ (conv.stage = "text" /\ ~conv.failed /\ ~Terminated) => CutOff(conv.in)
  /\ conv.failed => conv.text = <<>>
  /\ Len(conv.out) <= conv.room
=============================================================================
