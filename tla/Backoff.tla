------------------------------ MODULE Backoff -------------------------------
(***************************************************************************)
(* The retry delay of system-design/job-queue/dispatcher.go, backoff, with *)
(* the 64-bit arithmetic of time.Duration.                                 *)
(*                                                                         *)
(* A Duration is kept as mant * 2^exp nanoseconds with a signed mant: a    *)
(* second is 5^9 * 2^9 ns, and 5^9 has 21 bits, so that every intermediate *)
(* value stays small.                                                      *)
(***************************************************************************)
EXTENDS Integers

Five9  == 1953125                                      \* 21 bits
cap    == [mant |-> 300 * Five9, exp |-> 9]            \* 5 * time.Minute
second == [mant |-> Five9, exp |-> 9]

\* The signed value of the low w bits of 5^9.
LowBits(w) ==
    IF w > 21 THEN Five9
    ELSE IF w <= 0 THEN 0
    ELSE LET r == Five9 % 2^w IN IF r >= 2^(w - 1) THEN r - 2^w ELSE r

\* base * Duration(math.Pow(2, float64(attempt-1))) modulo 2^64, with k for
\* attempt-1.  Up to k = 62 the conversion is exact and the product keeps the
\* 64 - (k + 9) low bits of 5^9.  From k = 63 on the conversion is out of
\* range: amd64 yields the least int64 and the product is 0, arm64 the
\* greatest and the product is minus one second.
Product(k, overflow) ==
    IF k <= 62 THEN [mant |-> LowBits(55 - k), exp |-> k + 9]
    ELSE IF overflow = "least" THEN [mant |-> 0, exp |-> 9]
    ELSE [mant |-> - Five9, exp |-> 9]

\* d > cap: mant * 2^(exp - 9) exceeds cap's mant.
AboveCap(d) ==
    d.mant > IF d.exp - 9 > 30 THEN 0 ELSE cap.mant \div 2^(d.exp - 9)

Capped(d) == IF AboveCap(d) THEN cap ELSE d

backoff(attempt, overflow) == Capped(Product(attempt - 1, overflow))

\* The comment of dispatcher.go:137-142: 2^(attempt-1) seconds until that
\* exceeds five minutes, and from then on "capped at 5 min".
AsDocumented(delay, attempt) ==
    delay = IF attempt <= 9 THEN [second EXCEPT !.exp = @ + attempt - 1] ELSE cap
=============================================================================
