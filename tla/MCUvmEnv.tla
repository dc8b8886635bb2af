----------------------------- MODULE MCUvmEnv ------------------------------
(***************************************************************************)
(* Memories of four words over two pools: calls, loads and stores over     *)
(* code, and the halt loop; all polarities of conditions, branches of      *)
(* displacement 0, the self-loop in and out of reach, an undefined word.   *)
(* Some accepted programs exceed the limit of the test.                    *)
(***************************************************************************)
EXTENDS UvmEnv

UvmDepth == 4

StorePool == { 256 * MVRD + 16, 256 * STRR + 18, 256 * LDRR + 33, 256 * CALLA + 255,
               256 * INC + 32, 256 * JRZ + 1, 256 * STC, \h40FF }

BranchPool == { 256 * MVRD + 16, 256 * STRR + 18, 256 * LDRR + 33, 256 * INC + 32,
                256 * JRNZ, 256 * JRZ + 254, 256 * JRC + 1, 256 * DEC + 32, \h40FF,
                256 * \h90, 256 * JR + 254 }

UvmPrograms == [0 .. UvmDepth - 1 -> StorePool] \cup [0 .. UvmDepth - 1 -> BranchPool]
=============================================================================
