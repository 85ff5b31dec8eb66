---------------------------- MODULE MCErasureHeal ----------------------------
(* HealFile over four disks with two data blocks, every size up to three    *)
(* blocks of the larger blocksize, and both an even and an odd blocksize.  *)
EXTENDS ErasureHeal

MCDisks == 1..4
MCBlockSizes == {3, 4}
=============================================================================
