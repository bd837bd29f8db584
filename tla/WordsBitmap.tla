----------------------------- MODULE WordsBitmap -----------------------------
(***************************************************************************)
(* moses/src/WordsBitmap.h: which words of the source sentence a hypothesis *)
(* has translated.  A bitmap is the set of its true positions.              *)
(***************************************************************************)
EXTENDS Integers, FiniteSets, FiniteSetsExt

CONSTANT m_size   \* the number of words

ASSUME SizeAssumption == m_size \in Nat \ {0}

Positions == 0 .. m_size - 1
Bitmaps == SUBSET Positions

\* Compared with positions only, and greater than every one of them.
NOT_FOUND == m_size + 1

GetFirstGapPos(b) == IF b = Positions THEN NOT_FOUND ELSE Min(Positions \ b)

GetLastPos(b) == IF b = {} THEN NOT_FOUND ELSE Max(b)

IsComplete(b) == b = Positions

\* operator<: memcmp of the arrays, decided at the first position they differ in.
Less(b, c) == b # c /\ Min((b \ c) \cup (c \ b)) \in c

Overlap(b, startPos, endPos) == b \cap (startPos .. endPos) # {}

\* The loop of GetID: the number whose binary digits say which of the
\* n positions up to end are in b, the last position first.
Digits(b, end, n) ==
    LET id[i \in 0 .. n] ==
            IF i = 0 THEN 0
            ELSE 2 * id[i - 1] + (IF end - i + 1 \in b THEN 1 ELSE 0)
    IN IF n > 0 THEN id[n] ELSE 0

\* A variant of Pattern: off by one, the lowest digit is left out.
PatternShort(b, start, end) == Digits(b, end, end - start - 1)

Pattern(b, start, end) == Digits(b, end, end - start)

\* What the id counts from and to: the first gap, or the end of the sentence, and
\* the last translated word.
IdStart(b) == IF IsComplete(b) THEN m_size ELSE GetFirstGapPos(b)
IdEnd(b) == IF b = {} THEN 0 ELSE GetLastPos(b)

\* What GetID insists on (its CHECK): the pattern has no more than 16 digits.
PatternFits(b) == IdEnd(b) < IdStart(b) \/ IdEnd(b) - IdStart(b) <= 16

\* The pattern between the first gap and the last word in the low 16 bits, the
\* number of words before the first gap above them.
GetID(b) == Pattern(b, IdStart(b), IdEnd(b)) + 65536 * IdStart(b)
=============================================================================
