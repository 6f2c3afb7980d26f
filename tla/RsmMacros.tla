----------------------------- MODULE RsmMacros -----------------------------
(***************************************************************************)
(* The integer macros of rsmimpl.h (src/unnamed/part_000) that the memory  *)
(* subsystem computes with.  Each is written as the arithmetic the macro   *)
(* performs on an unsigned machine word, for values far below the word's   *)
(* top bit: the page counts and byte sizes the allocators pass never come  *)
(* near 2^63, so no shift or addition here wraps.                          *)
(***************************************************************************)
EXTENDS Integers, Bitwise

\* MIN(a,b): a < b ? a : b
MinOf(a, b) == IF a < b THEN a ELSE b
\* XMAX(a,b)
MaxOf(a, b) == IF a > b THEN a ELSE b

\* ALIGN2(x,a): (x + (a-1)) & ~(a-1), a a power of two
ALIGN2(x, a) == (x + (a - 1)) - ((x + (a - 1)) % a)

\* ALIGN2_FLOOR(x,a): ((x - ((a-1) - 1)) + (a-1)) & ~(a-1), which is
\* (x + 1) & ~(a-1): the macro adds one before it masks.
ALIGN2_FLOOR(x, a) == LET y == (x - ((a - 1) - 1)) + (a - 1)
                      IN  y - (y % a)

\* ALIGN_CEIL(x,a): ((x + a) - 1) / a * a, any a > 0
ALIGN_CEIL(x, a) == (((x + a) - 1) \div a) * a

\* IS_ALIGN2(x,a): !(x & (a-1))
IS_ALIGN2(x, a) == x % a = 0

\* IS_POW2(x): (x & (x-1)) == 0, which holds for 0 as well
IS_POW2(x) == x = 0 \/ (x & (x - 1)) = 0

\* FLOOR_POW2(x): the largest power of two <= x; 1 for 0 (x + !x)
RECURSIVE FLOOR_POW2(_)
FLOOR_POW2(x) == IF x <= 1 THEN 1 ELSE 2 * FLOOR_POW2(x \div 2)

\* CEIL_POW2(x): 1 for x <= 1, else 1 << (bits - clz(x-1)), the least
\* power of two >= x (the ~0 branch needs x >= 2^63)
CEIL_POW2(x) == IF x <= 1 THEN 1
                ELSE IF FLOOR_POW2(x) = x THEN x ELSE 2 * FLOOR_POW2(x)

\* ILOG2(n): rsm_fls(n) - 1, the index of the top set bit
ILOG2(n) == CHOOSE k \in 0..n : 2^k <= n /\ n < 2^(k + 1)
=============================================================================
