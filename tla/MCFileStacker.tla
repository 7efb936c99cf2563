--------------------------- MODULE MCFileStacker ---------------------------
(* FileStacker with the two targets of the shipped profile (NAS, local     *)
(* disk), instructions that may repeat a directory name, and images before,*)
(* during and after them.                                                  *)
EXTENDS FileStacker

CONSTANTS nas, local
NasThenLocal == <<nas, local>>
=============================================================================
