------------------------------ MODULE LoadImage ------------------------------
(***************************************************************************)
(* What elf2hex promises the Verilog machine of Cpu0.  cpu0.hex is read by *)
(* $readmemh, which stores the bytes of the file at consecutive addresses: *)
(* nothing in the file but the position of a byte says where it belongs.   *)
(* The hex text of each input file must therefore grow, byte by byte, into *)
(* the memory image of that file, and must be complete before the next     *)
(* file is begun.                                                          *)
(***************************************************************************)
EXTENDS Naturals

CONSTANTS Addr,             \* the addresses of the memory observed
          Unwritten,        \* the value of a byte the text does not reach yet
          Files(_),         \* the number of files of a command line
          ByteOf(_, _, _),  \* the byte of a file's memory image at an address
          Done(_, _, _)     \* whether so many bytes are the whole image of a file

VARIABLES cmd,     \* the command line
          cur,     \* how many of its files were begun
          n,       \* bytes written for the current file
          mem      \* the memory those bytes make

avars == <<cmd, cur, n, mem>>

\* The memory after the first m bytes of image i were written at 0, 1, ..., m-1.
Written(i, m) == [a \in Addr |-> IF a < m THEN ByteOf(cmd, i, a) ELSE Unwritten]

AInit == /\ cur = 0
         /\ n = 0
         /\ mem = [a \in Addr |-> Unwritten]

BeginFile == /\ cur < Files(cmd)
             /\ cur > 0 => Done(cmd, cur, n)
             /\ cur' = cur + 1
             /\ n' \in Nat
             /\ mem' = Written(cur', n')

Extend == /\ cur > 0
          /\ cur' = cur
          /\ n' \in Nat
          /\ n' > n
          /\ mem' = Written(cur, n')

ANext == UNCHANGED cmd /\ (BeginFile \/ Extend)

ASpec == AInit /\ [][ANext]_avars
=============================================================================
