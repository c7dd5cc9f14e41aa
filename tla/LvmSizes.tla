------------------------------ MODULE LvmSizes ------------------------------
(***************************************************************************)
(* Rounding in src/src/plugins/lvm/lvm-common.c, of sizes, which           *)
(* are unsigned integers of 64 bits; the width is a parameter here.        *)
(***************************************************************************)
EXTENDS Naturals

CONSTANTS MaxSize,   \* G_MAXUINT64
          DEFAULT_PE_SIZE

ASSUME SizesAssumption == MaxSize \in Nat /\ DEFAULT_PE_SIZE \in 1 .. MaxSize

RESOLVE_PE_SIZE(size) == IF size = 0 THEN DEFAULT_PE_SIZE ELSE size

\* Mutant: rounding up wraps around.
bd_lvm_round_size_to_pe_wraps(size, pe_size, roundup) ==
    LET pe == RESOLVE_PE_SIZE(pe_size)
        delta == size % pe
    IN  IF delta = 0 THEN size
        ELSE IF roundup THEN (size + (pe - delta)) % (MaxSize + 1)
        ELSE size - delta

bd_lvm_round_size_to_pe(size, pe_size, roundup) ==
    LET pe == RESOLVE_PE_SIZE(pe_size)
        delta == size % pe
    IN  IF delta = 0 THEN size
        ELSE IF roundup /\ MaxSize - (pe - delta) >= size THEN size + (pe - delta)
        ELSE size - delta

bd_lvm_get_lv_physical_size(lv_size, pe_size) ==
    bd_lvm_round_size_to_pe(lv_size, RESOLVE_PE_SIZE(pe_size), TRUE)
=============================================================================
