----------------------------- MODULE ClockSyncer -----------------------------
(***************************************************************************)
(* ClockSyncer (clock_syncer.h): the windows of clock samples and their    *)
(* averages, as operations on the fields of one syncer; PtpSync has one in *)
(* every car.  The int accumulator and the unsigned division of average()  *)
(* keep their ranges, given by IntLimit and LongLimit (2^31 and 2^63 in    *)
(* the build).  addNtpSample and the form of addPtpSample with four time   *)
(* stamps are never called, so that alg says whether there is a sample.    *)
(***************************************************************************)
EXTENDS Integers, Sequences

CONSTANTS
    IntLimit,       \* one more than the largest int
    LongLimit,      \* one more than the largest long long; size_t has twice as many values
    MaxSamples      \* MAX_SAMPLES_IN_CLOCK_SYNCER

ASSUME WidthAssumption == IntLimit \in Nat \ {0} /\ LongLimit \in Nat /\ LongLimit >= IntLimit
ASSUME WindowAssumption == MaxSamples \in Nat \ {0}

NotDefined == -1
Ptp == 1

\* rtt_samples, offset_samples, avg_rtt and avg_offset.
Syncer ==
    [alg : {NotDefined, Ptp}, rtts : Seq(Int), offsets : Seq(Int), avgRtt : Int, avgOffset : Int]

\* A syncer as it is constructed.
NoSamples == [alg |-> NotDefined, rtts |-> <<>>, offsets |-> <<>>, avgRtt |-> 0, avgOffset |-> 0]

\* Conversion to the signed integers from -limit up to limit - 1.
ToSigned(x, limit) == ((x + limit) % (2 * limit)) - limit

\* The int that std::accumulate holds after each number of samples.
Accumulator(v) ==
    LET sum[i \in 0..Len(v)] == IF i = 0 THEN 0 ELSE ToSigned(sum[i - 1] + v[i], IntLimit)
    IN  sum

\* std::accumulate with the int 0 as initial value.
Accumulate(v) == Accumulator(v)[Len(v)]

\* Mutant: the sum is divided by the size of the full window.
AverageOfWindow(v) ==
    IF v = <<>> THEN 0
    ELSE ToSigned((Accumulate(v) % (2 * LongLimit)) \div MaxSamples, LongLimit)

\* int / size_t: the sum becomes unsigned before it is divided, and the quotient
\* becomes a long long.
Average(v) ==
    IF v = <<>> THEN 0
    ELSE ToSigned((Accumulate(v) % (2 * LongLimit)) \div Len(v), LongLimit)

\* Mutant: one sample too many is kept.
KeepOneMore(v) ==
    IF Len(v) > MaxSamples + 1 THEN SubSeq(v, Len(v) - MaxSamples, Len(v)) ELSE v

\* Only the last MaxSamples samples are kept.
Keep(v) == IF Len(v) > MaxSamples THEN SubSeq(v, Len(v) - MaxSamples + 1, Len(v)) ELSE v

\* The syncer s after addPtpSample(offset, delay), as the DELAY_RESP branch of
\* notify_by_port calls it: addOffsetMeasurement stores the sample, erases old ones
\* and takes the averages.
AddPtpSample(s, offset, delay) ==
    LET rtts    == Keep(Append(s.rtts, delay))
        offsets == Keep(Append(s.offsets, offset))
    IN  [alg |-> Ptp, rtts |-> rtts, offsets |-> offsets,
         avgRtt |-> Average(rtts), avgOffset |-> Average(offsets)]

\* C++ division of integers by a positive one, which truncates.
Quotient(x, n) == IF x >= 0 THEN x \div n ELSE -((-x) \div n)

Remainder(x, n) == x - n * Quotient(x, n)

\* Microseconds of a second.
Million == 1000000

\* adjust_system_time_by_us: the time [sec, usec] moved by an offset, as it is
\* given to settimeofday.
AdjustedTime(tv, offset) ==
    LET sec    == tv.sec + Quotient(offset, Million)
        usec   == tv.usec + Remainder(offset, Million)
        borrow == Quotient(-usec + (Million - 1), Million)
    IN  IF usec >= Million
        THEN [sec |-> sec + Quotient(usec, Million), usec |-> Remainder(usec, Million)]
        ELSE IF usec < 0
             THEN [sec |-> sec - borrow, usec |-> usec + borrow * Million]
             ELSE [sec |-> sec, usec |-> usec]

-----------------------------------------------------------------------------
(* What average() is compared with *)

\* The sum of the first i samples, for every i.
Sums(v) ==
    LET sum[i \in 0..Len(v)] == IF i = 0 THEN 0 ELSE sum[i - 1] + v[i]
    IN  sum

SumOf(v) == Sums(v)[Len(v)]

NonNegative(v) == \A i \in DOMAIN v : v[i] >= 0

FitsInt(v) == SumOf(v) < IntLimit
=============================================================================
