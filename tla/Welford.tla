-------------------------------- MODULE Welford --------------------------------
(***************************************************************************)
(* Running statistics (utils/welford.hpp): each thread adds samples to a   *)
(* summary of its own, and the summaries are combined to one of all        *)
(* samples.  A double is an exact rational <<numerator, denominator>>:     *)
(* what is checked is the algebra, not the rounding.                       *)
(***************************************************************************)
EXTENDS Integers, Sequences, SequencesExt

CONSTANTS Collectors,   \* how many threads collect samples
          Samples,      \* the samples
          MaxSamples    \* how many a thread adds

ASSUME WelfordAssumption == Collectors \in Nat /\ Samples \subseteq Int /\ MaxSamples \in Nat

VARIABLES
    summaries,  \* n_, mean_ and m2_ of each thread
    samples     \* what each has added since the last clear

welfordVars == <<summaries, samples>>

Rational(i)     == <<i, 1>>
Plus(a, b)      == <<a[1] * b[2] + b[1] * a[2], a[2] * b[2]>>
Minus(a, b)     == <<a[1] * b[2] - b[1] * a[2], a[2] * b[2]>>
Times(a, b)     == <<a[1] * b[1], a[2] * b[2]>>
DividedBy(a, n) == <<a[1], a[2] * n>>
Equal(a, b)     == a[1] * b[2] = b[1] * a[2]

\* In lowest terms, so that the numbers stay small.
Divides(d, a) == a[1] % d = 0 /\ a[2] % d = 0
Reduced(a) ==
    LET d == CHOOSE d \in 1 .. a[2] : Divides(d, a) /\ \A e \in d + 1 .. a[2] : ~Divides(e, a)
    IN  <<a[1] \div d, a[2] \div d>>

IntegerSum(seq)  == FoldLeft(LAMBDA x, y : x + y, 0, seq)
RationalSum(seq) == FoldLeft(LAMBDA a, b : Reduced(Plus(a, b)), Rational(0), seq)

EmptySummary == [n |-> 0, mean |-> Rational(0), m2 |-> Rational(0)]

\* welford::add: the second difference is to the new mean.
Added(w, x) ==
    LET delta == Minus(Rational(x), w.mean)
        mean  == Reduced(Plus(w.mean, DividedBy(delta, w.n + 1)))
    IN  [n    |-> w.n + 1,
         mean |-> mean,
         m2   |-> Reduced(Plus(w.m2, Times(delta, Minus(Rational(x), mean))))]

\* welford::from_range, of summaries that are not empty.
FromRange(ws) ==
    LET n    == IntegerSum([i \in 1 .. Len(ws) |-> ws[i].n])
        sum  == RationalSum([i \in 1 .. Len(ws) |-> Times(ws[i].mean, Rational(ws[i].n))])
        mean == Reduced(DividedBy(sum, n))
        d(i) == Minus(ws[i].mean, mean)
    IN  [n |-> n, mean |-> mean,
         m2 |-> RationalSum([i \in 1 .. Len(ws) |-> Plus(ws[i].m2, Times(Rational(ws[i].n), Times(d(i), d(i))))])]

-----------------------------------------------------------------------------

WelfordInit ==
    /\ summaries = [c \in 1 .. Collectors |-> EmptySummary]
    /\ samples = [c \in 1 .. Collectors |-> <<>>]

AddSample(c, x) ==
    /\ Len(samples[c]) < MaxSamples
    /\ summaries' = [summaries EXCEPT ![c] = Added(@, x)]
    /\ samples' = [samples EXCEPT ![c] = Append(@, x)]

ClearSummary(c) ==
    /\ summaries' = [summaries EXCEPT ![c] = EmptySummary]
    /\ samples' = [samples EXCEPT ![c] = <<>>]

WelfordNext == \E c \in 1 .. Collectors : ClearSummary(c) \/ \E x \in Samples : AddSample(c, x)

WelfordSpec == WelfordInit /\ [][WelfordNext]_welfordVars

-----------------------------------------------------------------------------
(* Properties. *)

\* The mean and the sum of the squared distances from it, by their definitions.
Describes(w, xs) ==
    LET mean == <<IntegerSum(xs), Len(xs)>>
        d(i) == Minus(Rational(xs[i]), mean)
    IN  /\ w.n = Len(xs)
        /\ w.n > 0 => /\ Equal(w.mean, mean)
                      /\ Equal(w.m2, RationalSum([i \in 1 .. Len(xs) |-> Times(d(i), d(i))]))

\* The threads that have samples, with their summaries.
Collected == [c \in 1 .. Collectors |-> [summary |-> summaries[c], xs |-> samples[c]]]
Busy      == FoldLeft(LAMBDA acc, part : IF part.xs = <<>> THEN acc ELSE Append(acc, part), <<>>, Collected)
AllOf(parts) == FoldLeft(LAMBDA acc, part : acc \o part.xs, <<>>, parts)

\* In whatever order the samples come, and however they are spread over the
\* threads, each summary describes its samples and the combined one all of
\* them; a thread without samples is left out, for its mean would be refused
\* (welford.hpp:14-22, 45-79).
SummariesExact ==
    /\ \A c \in 1 .. Collectors : Describes(summaries[c], samples[c])
    /\ Busy # <<>> => Describes(FromRange([i \in 1 .. Len(Busy) |-> Busy[i].summary]), AllOf(Busy))

=============================================================================
