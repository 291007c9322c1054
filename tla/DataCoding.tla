----------------------------- MODULE DataCoding -----------------------------
(***************************************************************************)
(* Measurement values in event data (vscphelper.cpp): the integer and the  *)
(* normalized integer coding.  A value to code is a sequence of decimal    *)
(* digits, the first one of weight 10 ^ exp, and a sign; one that was read *)
(* is a mantissa of eight bytes in two's complement and a shift.           *)
(***************************************************************************)
EXTENDS Bytes, SequencesExt

Nothing == <<>>


\* v < 2 ^ (8 k - 1): the first of the k bytes keeps the sign bit clear.
Fits(v, k) == (\A i \in 1 .. 8 - k : v[i] = 0) /\ v[9 - k] < 128

Precision == 6   \* significant digits of "%g"

\* What "%g" keeps of the digits: six, rounded to nearest and half to even,
\* with exp one higher if the first digit overflows, and no zeros at the end.
\* It takes the form with an exponent for exp < -4 and exp >= 6.
Printed(x) ==
  LET kept == IF Len(x.digits) > Precision THEN SubSeq(x.digits, 1, Precision) ELSE x.digits
      rest == SubSeq(x.digits, Precision + 1, Len(x.digits))
      last == kept[Len(kept)]
      up == /\ rest # <<>>
            /\ \/ rest[1] > 5
               \/ rest[1] = 5 /\ (last % 2 = 1 \/ \E i \in 2 .. Len(rest) : rest[i] # 0)
      place == Max({0} \cup {i \in DOMAIN kept : kept[i] # 9})
      rounded == IF ~up THEN kept
                 ELSE IF place = 0 THEN <<1>>
                 ELSE [SubSeq(kept, 1, place) EXCEPT ![place] = @ + 1]
  IN [digits |-> SubSeq(rounded, 1, Max({1} \cup {i \in DOMAIN rounded : rounded[i] # 0})),
      exp |-> IF up /\ place = 0 THEN x.exp + 1 ELSE x.exp]

WithExponent(x) == x.exp < -4 \/ x.exp >= Precision

\* The characters behind the decimal point, those of the exponent (e+06) too.
NDigits(x) ==
  LET p == Printed(x)
      decimals == IF WithExponent(p) THEN Len(p.digits) - 1 ELSE Len(p.digits) - 1 - p.exp
  IN IF decimals <= 0 THEN 0 ELSE IF WithExponent(p) THEN decimals + 4 ELSE decimals

\* The value itself, all of its digits, times 10 ^ n and without its fraction.
Scaled(x, n) ==
  FoldLeft(LAMBDA v, i : MulAdd(v, 10, IF i \in DOMAIN x.digits THEN x.digits[i] ELSE 0),
           Zeros(8), [i \in 1 .. x.exp + 1 + n |-> i])

\* vscp_convertFloatToNormalizedEventData: the codes it may make.  A value of
\* -1 or less is not one that uint64_t has: the conversion, undefined in the
\* language, yields a very large number on some machines and 0 on others.
ConvertToNormalized(x, unit, sensor) ==
  LET n == NDigits(x)
      v == Scaled(x, n)
      values == IF ~x.negative \/ v = Zeros(8) THEN {v} ELSE {Zeros(8), Complement(Zeros(8))}
      sizes(w) == {k \in 1 .. 6 : Fits(w, k)}
      Code(w) == IF sizes(w) = {}
                   THEN Nothing
                   ELSE <<128 + (unit % 4) * 8 + (sensor % 8), 128 + n>>
                          \o LastBytes(w, Min(sizes(w)))
  IN {Code(w) : w \in values}

\* The eight bytes of a value of fewer bytes.
SignExtended(b) ==
  [i \in 1 .. 8 |-> IF i <= 8 - Len(b) THEN IF b[1] >= 128 THEN 255 ELSE 0
                                       ELSE b[i - 8 + Len(b)]]

\* vscp_getDataCodingNormalizedInteger, for data that holds a value.
GetNormalized(code) ==
  [mantissa |-> SignExtended(SubSeq(code, 3, Len(code))),
   shift |-> IF code[2] >= 128 THEN [digits |-> code[2] - 128, left |-> TRUE]
                               ELSE [digits |-> code[2], left |-> FALSE]]

\* vscp_getDataCodingInteger: every byte is shifted in from the right.
GetInteger(code) ==
  LET value[i \in 1 .. Len(code)] ==
        IF i = 1 THEN [j \in 1 .. 8 |-> IF code[2] >= 128 THEN 255 ELSE 0]
                 ELSE MulAdd(value[i - 1], 256, code[i])
  IN value[Len(code)]
=============================================================================
