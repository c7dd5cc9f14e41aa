----------------------------- MODULE VersionCmp -----------------------------
(***************************************************************************)
(* bd_utils_version_cmp (src/src/utils/exec.c), the comparison every       *)
(* versioned dependency of a plugin is decided with.                       *)
(*                                                                         *)
(* A version X.Y.Z-R is a sequence of numerals and a revision, a numeral a *)
(* sequence of digits; <<>> stands for "no revision" and NoVersion for a   *)
(* string of any other shape.                                              *)
(***************************************************************************)
EXTENDS Integers, SequencesExt

CONSTANTS
    NoVersion,    \* a string that is no version at all
    MaxUint64     \* G_MAXUINT64, where g_ascii_strtoull saturates

ASSUME WidthAssumption == MaxUint64 \in Nat

\* ^(\d+)(\.\d+)*(-\d)?$
Matches(v) == v # NoVersion /\ Len(v.fields) > 0 /\ Len(v.rev) <= 1

\* g_strsplit_set (ver_string, ".-", 0)
Fields(v) == v.fields \o (IF v.rev = <<>> THEN <<>> ELSE <<v.rev>>)

\* The number a string of digits stands for in a base, up to the first
\* character that is no digit of that base, saturating.
Number(digits, base) ==
    LET valid == {k \in 0 .. Len(digits) : \A j \in 1 .. k : digits[j] < base}
        prefix == SubSeq(digits, 1, Max(valid))
    IN  FoldLeft(LAMBDA n, d : Min({n * base + d, MaxUint64}), 0, prefix)

\* Mutant: only the first digit counts, as if characters were compared.
strtoull_char(digits) == digits[1]

\* g_ascii_strtoull (field, NULL, 0): base 0, so a leading zero means octal.
strtoull(digits) ==
    Number(digits, IF Len(digits) > 1 /\ digits[1] = 0 THEN 8 ELSE 10)

Sign(n) == IF n < 0 THEN -1 ELSE IF n > 0 THEN 1 ELSE 0

\* The first component that differs decides, then the number of components;
\* -2 (and an error) if either string does not match.
version_cmp(v1, v2) ==
    IF ~Matches(v1) \/ ~Matches(v2) THEN -2
    ELSE LET f1 == Fields(v1)
             f2 == Fields(v2)
             differ == {k \in DOMAIN f1 \cap DOMAIN f2 : strtoull(f1[k]) # strtoull(f2[k])}
         IN  IF differ = {} THEN Sign(Len(f1) - Len(f2))
             ELSE Sign(strtoull(f1[Min(differ)]) - strtoull(f2[Min(differ)]))
=============================================================================
