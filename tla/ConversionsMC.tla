--------------------------- MODULE ConversionsMC ---------------------------
(* Inputs for Conversions: both ends of every field, and what is around the  *)
(* limits of the code.                                                       *)
EXTENDS Conversions

Guid(first, last) == [i \in 1 .. 16 |-> IF i = 16 THEN last ELSE IF i = 1 THEN first ELSE 17]
Ns1 == <<23, 100, 1, 2, 255, 0, 128, 7>>
Moment1 == Moment(2024, 2, 29, 23, 59, 59, 999999)

Event(head, class, type, last, data) ==
  [head |-> head, class |-> class, type |-> type, guid |-> Guid(255, last), data |-> data,
   ns |-> Ns1, moment |-> Moment1]

\* Heads: no priority, all bits, hard coded, no CRC, and the frame versions.
SomeEvents ==
  {Event(h, c, 10, 2, <<1, 2>>) : h \in {0, 224 + 16 + 8, 256 + 96, 256 + 16 + 8, 768 + 32}, c \in {0, 10, 511}}
    \cup {Event(256, 20, t, n, d) : t \in {0, 255}, n \in {0, 255},
                                    d \in {<<>>, <<0>>, <<255, 0, 170, 85, 1, 2, 3, 4>>}}
    \cup {[Event(256, 1024, 300, 7, ToBytes(20, 77)) EXCEPT !.ns = Zeros(8)]}

Pair(c, t, g, p) == [class |-> c, type |-> t, guid |-> g, priority |-> p]
SomeFilters ==
  {[filter |-> f, mask |-> m] :
     f \in {Pair(0, 0, Zeros(16), 0), Pair(10, 10, Guid(255, 2), 3), Pair(511, 255, Guid(1, 255), 7)},
     m \in {Pair(0, 0, Zeros(16), 0), Pair(65535, 0, Zeros(16), 0), Pair(1, 65535, Zeros(16), 0),
            Pair(0, 0, [i \in 1 .. 16 |-> 255], 0), Pair(0, 0, Guid(1, 128), 1), Pair(0, 0, Zeros(16), 255),
            Pair(256, 2, Guid(0, 0), 4)}}

SomeDamages == {1, 8, 16, 128, 255}

\* Whole years, before 1970 and beyond int64_t too, and the days around its ends.
SomeDates ==
  UNION {{<<y, m, d>> : d \in 1 .. DaysIn(y, m)} :
           y \in {1600, 1900, 1969, 1970, 2000, 2023, 2024, 2100, 2400}, m \in 1 .. 12}
    \cup {<<1677, 9, d>> : d \in 20 .. 22} \cup {<<2262, 4, d>> : d \in 10 .. 12}
SomeTimes == {<<0, 0, 0, 0>>, <<23, 59, 59, 999999>>, <<0, 12, 43, 145224>>, <<0, 12, 43, 145225>>,
              <<23, 47, 16, 854775>>, <<23, 47, 16, 854776>>}

\* Values that a double holds exactly: whole numbers around the lengths of the
\* codes and of "%g", and sums of powers of 1/2 from 1/2 to 2 ^ -14, 1 - 2 ^ -25
\* and 10995116 * 2 ^ -40, which rounds to 1e-05.
Decimal(digits, exp) == [digits |-> digits, exp |-> exp, negative |-> FALSE]
SomeValues ==
  LET whole == {<<0>>, <<1>>, <<1, 2, 7>>, <<1, 2, 8>>, <<2, 0, 0>>, <<3, 2, 7, 6, 7>>, <<3, 2, 7, 6, 8>>,
                <<4, 0, 0, 0, 0>>, <<9, 9, 9, 9, 9, 9>>, <<8, 3, 8, 8, 6, 0, 7>>, <<8, 3, 8, 8, 6, 0, 8>>,
                <<1, 0, 0, 0, 0, 0, 0>>, <<2, 1, 0, 0, 0, 0, 0, 0, 0>>, <<9, 0, 0, 0, 0, 0, 0, 0, 0, 0>>,
                <<9, 9, 9, 9, 9, 9, 5>>, <<1, 0, 0, 0, 0, 0, 5>>, <<2, 1, 4, 7, 4, 8, 3, 6, 4, 8>>}
      plain == {Decimal(d, Len(d) - 1) : d \in whole}
                 \cup {Decimal(<<5>>, -1), Decimal(<<2, 5>>, -1), Decimal(<<7, 5>>, -1), Decimal(<<6, 2, 5>>, -2),
                       Decimal(<<1, 2, 5>>, 0), Decimal(<<1, 2, 7, 5>>, 2), Decimal(<<1, 2, 8, 5>>, 2),
                       Decimal(<<4, 8, 8, 2, 8, 1, 2, 5>>, -4), Decimal(<<3, 1, 2, 5>>, -2),
                       Decimal(<<6, 1, 0, 3, 5, 1, 5, 6, 2, 5>>, -5), Decimal(<<1, 2, 3, 4, 5, 6, 5>>, 5),
                       Decimal(<<9, 9, 9, 9, 9, 9, 9, 7, 0, 1, 9, 7, 6, 7, 7, 6, 1, 2, 3, 0, 4, 6, 8, 7, 5>>, -1),
                       Decimal(<<9, 9, 9, 9, 9, 9, 9, 7, 4, 7, 3, 7, 8, 7, 5, 1, 6, 3, 5, 5, 5, 1, 4, 5, 2, 6,
                                 3, 6, 7, 1, 8, 7, 5>>, -6)}
  IN plain \cup {[x EXCEPT !.negative = TRUE] : x \in {y \in plain : y.digits # <<0>>}}

SomeCodes == UNION {[1 .. n -> {0, 1, 127, 128, 255}] : n \in 1 .. 4}
               \cup {[i \in 1 .. n |-> IF i = 1 THEN b ELSE i] : n \in {5, 6}, b \in {0, 127, 128, 255}}

\* Every coding byte, and every extension of the classes.
SomeReadings ==
  {[class |-> Measurement, data |-> <<b, 1, 2>>] : b \in Byte}
    \cup {[class |-> c, data |-> <<b, 2, 3, 96, 7>>] : c \in {MeasureZone, SetValueZone}, b \in {0, 9, 255}}
    \cup {[class |-> c, data |-> SubSeq(ToBytes(8, 16), 1, n)] : c \in LevelOneMeasurements, n \in {4, 8}}

Segment(start, n) == [start |-> start, bytes |-> [i \in 1 .. n |-> start + i]]
SomeImages ==
  {[segs |-> {Segment(r + a, n), Segment(r + b, k)}, range |-> [start |-> r, end |-> r + 40], blockSize |-> z] :
     r \in {0, 64}, a \in {0, 3, 16}, n \in {1, 7, 8, 9}, b \in {25, 28}, k \in {1, 4, 8, 11, 12, 13}, z \in {4, 8}}
=============================================================================
