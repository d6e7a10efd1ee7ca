------------------------------- MODULE Series -------------------------------
(***************************************************************************)
(* The series that is drawn of a query: the points render.rs makes of the  *)
(* rows of the matrix, and the number of crates there were at each of them *)
(* (total.rs), by which a graph of fractions is divided.                   *)
(*                                                                         *)
(*   row    [time, value], the column of the query in the matrix           *)
(*   point  [time, value, total, edges], edges being what is written of a  *)
(*          fraction: [digits, places] stands for digits / 10^places       *)
(***************************************************************************)
EXTENDS Integers, FiniteSets, SequencesExt

CONSTANTS Inputs,    \* what is drawn: [releases, rows]
          PerSecond, \* moments in a second: 10^9
          Mantissa,  \* bits of the significand of a float: 24
          Kept,      \* digits that are kept of a fraction: 4
          MaxTime    \* the last moment at which now may be

\* As b ^ n, by its recursion.
Power(b, n) ==
  LET upto[i \in 0 .. n] == IF i = 0 THEN 1 ELSE b * upto[i - 1]
  IN upto[n]

\* A float holds every number of crates as it is.
ASSUME SeriesAssumption ==
  /\ PerSecond \in Nat \ {0}
  /\ Mantissa \in Nat \ {0}
  /\ Kept \in Nat \ {0}
  /\ MaxTime \in Nat
  /\ \A in \in Inputs :
       /\ in.rows \in Seq([time : Int, value : Nat]) \ {<< >>}
       /\ in.releases \in Seq([crate : { r.crate : r \in ToSet(in.releases) }, time : Int])
       /\ \A i, j \in DOMAIN in.rows : i < j => in.rows[i].time < in.rows[j].time
       /\ \A i, j \in DOMAIN in.releases :
            i < j => in.releases[i].time <= in.releases[j].time
       /\ \A i \in DOMAIN in.rows :
            in.rows[i].value <= Cardinality({ r.crate : r \in
              { x \in ToSet(in.releases) : x.time <= in.rows[i].time } })
       /\ Cardinality({ r.crate : r \in ToSet(in.releases) }) <= Power(2, Mantissa)

VARIABLES releases, rows, now,
          times,   \* Total.times
          next,    \* the row looked at next
          prev,    \* the value drawn last
          points,
          pc
vars == <<releases, rows, now, times, next, prev, points, pc>>

Undrawn == -1

-----------------------------------------------------------------------------
\* Mutant: every release counts.
IndexReleases == [i \in DOMAIN releases |-> releases[i].time]

\* The i-th release is the first of its crate: crate_ids.insert.
IsFirst(R, i) == \A j \in 1 .. i - 1 : R[j].crate # R[i].crate

\* Total::index: the time of the first release of each crate, in order.
FirstTimes(R) ==
  LET upto[i \in 0 .. Len(R)] ==
        IF i = 0 THEN << >>
        ELSE IF IsFirst(R, i) THEN Append(upto[i - 1], R[i].time) ELSE upto[i - 1]
  IN upto[Len(R)]

Index == FirstTimes(releases)

(***************************************************************************)
(* binary_search as std implements it: the range that starts at base is    *)
(* halved until one element is left.                                       *)
(***************************************************************************)
\* The ranges of a vector of n: [size, base].
Ranges(n) == { r \in [size : 1 .. n, base : 1 .. n] : r.base + r.size - 1 <= n }

Half(seq, t, r) ==
  LET mid == r.base + r.size \div 2
  IN [size |-> r.size - r.size \div 2, base |-> IF seq[mid] > t THEN r.base ELSE mid]

Narrowed(seq, t) ==
  LET narrow[r \in Ranges(Len(seq))] == IF r.size = 1 THEN r.base ELSE narrow[Half(seq, t, r)]
  IN narrow[[size |-> Len(seq), base |-> 1]]

\* How many places are up to the one found, or to where t would be.
Search(seq, t) ==
  IF seq = << >> THEN 0
  ELSE LET last == Narrowed(seq, t) IN IF seq[last] > t THEN last - 1 ELSE last

\* Total::eval counts the element found and all before it.
Eval(t) == Search(times, t)

(***************************************************************************)
(* value / total in floats, for 0 < value < total.  A float is mant / 2^exp*)
(* with a mant of Mantissa bits, here the nearest one to the quotient; no  *)
(* quotient of two such numbers is half way between two floats.            *)
(***************************************************************************)
Exponent(value, total) ==
  CHOOSE k \in 0 .. 2 * Mantissa :
    /\ Power(2, k) * value >= Power(2, Mantissa - 1) * total
    /\ Power(2, k) * value < Power(2, Mantissa) * total

Quotient(value, total) ==
  LET k == Exponent(value, total)
  IN [mant |-> (2 * Power(2, k) * value + total) \div (2 * total), exp |-> k]

(***************************************************************************)
(* f32::to_string: of the decimals digits / 10^places that are read as f,  *)
(* those with the fewest places, and of these the nearest to f.  f has exp *)
(* places itself.                                                          *)
(***************************************************************************)
\* Half a unit in the last bit of f, and what digits is away from f, both
\* times 2^(exp + 1) 10^places; below a power of two floats are twice as dense.
ReadAs(digits, places, f) ==
  LET half == Power(10, places)
      away == 2 * Power(2, f.exp) * digits - 2 * half * f.mant
  IN IF f.mant % 2 = 1 THEN -half < away /\ away < half
     ELSE /\ away <= half
          /\ -half <= away * (IF f.mant = Power(2, Mantissa - 1) THEN 2 ELSE 1)

Below(f, places) == (Power(10, places) * f.mant) \div Power(2, f.exp)

\* The decimals next to f that are read as f.
Readable(f, places) ==
  { d \in {Below(f, places), Below(f, places) + 1} : ReadAs(d, places, f) }

Nearest(f, places) ==
  LET down == Below(f, places)
      up   == 2 * ((Power(10, places) * f.mant) % Power(2, f.exp)) >= Power(2, f.exp)
  IN IF down + 1 \in Readable(f, places) /\ (up \/ down \notin Readable(f, places))
       THEN down + 1 ELSE down

Shortest(f) ==
  LET places == CHOOSE j \in 1 .. f.exp : /\ Readable(f, j) # {}
                                          /\ \A i \in 1 .. j - 1 : Readable(f, i) = {}
  IN [digits |-> Nearest(f, places), places |-> places]

(***************************************************************************)
(* write_truncated: of a text, the zeros that lead and Kept digits more,   *)
(* and none of the zeros that end it.                                      *)
(***************************************************************************)
Zero == [digits |-> 0, places |-> 0]

\* The place of the first decimal that is not zero.
FirstNonzero(text) ==
  CHOOSE i \in 1 .. text.places :
    /\ Power(10, i) * text.digits >= Power(10, text.places)
    /\ Power(10, i - 1) * text.digits < Power(10, text.places)

\* The first places of a text.
Cut(text, places) ==
  [digits |-> text.digits \div Power(10, text.places - places), places |-> places]

Trimmed(text) ==
  LET zeros == CHOOSE z \in 0 .. text.places : /\ text.digits % Power(10, z) = 0
                                               /\ text.digits % Power(10, z + 1) # 0
  IN [digits |-> text.digits \div Power(10, zeros), places |-> text.places - zeros]

\* Mutant: as many decimals, leading zeros or not.
CutAnywhere(text) ==
  LET cut == Cut(text, IF Kept < text.places THEN Kept ELSE text.places)
  IN IF cut.digits = 0 THEN Zero ELSE Trimmed(cut)

Truncated(text) ==
  LET places == FirstNonzero(text) + Kept - 1
  IN Trimmed(Cut(text, IF places < text.places THEN places ELSE text.places))

\* What Row writes of a fraction; all of it is drawn as a half.
Fraction(value, total) ==
  IF total = 0 THEN Zero
  ELSE IF value = total THEN [digits |-> 5, places |-> 1]
  ELSE IF value = 0 THEN Zero
  ELSE Truncated(Shortest(Quotient(value, total)))

Point(t, value) ==
  [time |-> t, value |-> value, total |-> Eval(t), edges |-> Fraction(value, Eval(t))]

\* Mutant: the second that t is in.
SecondOf(t) == PerSecond * (t \div PerSecond)

\* The second before: the whole second, or one earlier if t is a whole second.
SecondBefore(t) ==
  LET secs == t \div PerSecond
  IN PerSecond * (IF t % PerSecond = 0 THEN secs - 1 ELSE secs)

-----------------------------------------------------------------------------
Init ==
  /\ \E in \in Inputs : releases = in.releases /\ rows = in.rows
  /\ now \in 0 .. MaxTime
  /\ times = << >>
  /\ next = 1
  /\ prev = Undrawn
  /\ points = << >>
  /\ pc = "index"

IndexTotal ==
  /\ pc = "index"
  /\ times' = Index
  /\ pc' = "draw"
  /\ UNCHANGED <<releases, rows, now, next, prev, points>>

\* The points that a row adds.
Drawn(row) ==
  IF prev = Undrawn
    THEN <<Point(SecondBefore(row.time), 0), Point(row.time, row.value)>>
    ELSE <<Point(row.time, row.value)>>

\* Mutant: no zero is drawn.
SkippedZeros(row) == row.value \in {0, prev}

\* Zeros before the first value, and values that stay, are not drawn.
Skipped(row) == row.value = IF prev = Undrawn THEN 0 ELSE prev

DrawRow ==
  /\ pc = "draw"
  /\ next <= Len(rows)
  /\ IF Skipped(rows[next])
       THEN UNCHANGED <<prev, points>>
       ELSE /\ points' = points \o Drawn(rows[next])
            /\ prev' = rows[next].value
  /\ next' = next + 1
  /\ UNCHANGED <<releases, rows, now, times, pc>>

\* The last value holds until now.
DrawNow ==
  /\ pc = "draw"
  /\ next > Len(rows)
  /\ LET row == Last(rows)
     IN points' = IF row.time < now THEN Append(points, Point(now, row.value)) ELSE points
  /\ pc' = "done"
  /\ UNCHANGED <<releases, rows, now, times, next, prev>>

Next == IndexTotal \/ DrawRow \/ DrawNow

Spec == Init /\ [][Next]_vars

-----------------------------------------------------------------------------
(***************************************************************************)
(* The graph is the matrix: at every moment from the first row to now, the *)
(* last point drawn has the value of the last row, and before its first    *)
(* point a series has nothing but zeros.                                   *)
(***************************************************************************)
ValueAt(seq, t) ==
  LET upto == { i \in DOMAIN seq : seq[i].time <= t }
  IN IF upto = {} THEN 0
     ELSE seq[CHOOSE i \in upto : \A j \in upto : j <= i].value

SeriesIsStep ==
  pc = "done" =>
    \A t \in { r.time : r \in ToSet(rows) } \cup { p.time : p \in ToSet(points) } :
      ValueAt(points, t) = ValueAt(rows, t)

(***************************************************************************)
(* The line is drawn from left to right, rises from zero at most a second  *)
(* before its first value, and reaches now.                                *)
(***************************************************************************)
SeriesAscends ==
  /\ \A i, j \in DOMAIN points : i < j => points[i].time < points[j].time
  /\ prev # Undrawn =>
       /\ points[1].value = 0 /\ points[2].value > 0
       /\ points[2].time - points[1].time \in 1 .. PerSecond
  /\ pc = "done" /\ Last(rows).time < now => Last(points).time = now

(***************************************************************************)
(* A fraction is one of all crates that had been published by then, also   *)
(* if many were published at one moment, and so never above one.           *)
(***************************************************************************)
TotalIsAll ==
  \A p \in ToSet(points) :
    /\ p.total = Cardinality({ r.crate : r \in { x \in ToSet(releases) : x.time <= p.time } })
    /\ p.value <= p.total

(***************************************************************************)
(* What is written of a fraction below one is close to it, however small   *)
(* it is: more by at most what a float is off, 2^-(Mantissa - 1) of it, as *)
(* its decimals may have been rounded up; and less by under one unit of    *)
(* the last digit kept, 10^-(Kept - 1) of it, and what a float is off.     *)
(***************************************************************************)
WrittenIsClose ==
  \A p \in { x \in ToSet(points) : x.value < x.total } :
    LET exact   == Power(10, p.edges.places) * p.value
        written == p.edges.digits * p.total
        float   == Power(2, Mantissa - 1)
        digits  == Power(10, Kept - 1)
    IN /\ float * (written - exact) <= exact
       /\ p.value > 0 => digits * float * (exact - written) < (digits + float) * exact
=============================================================================
