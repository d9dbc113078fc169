----------------------------- MODULE MCMemCache -----------------------------
(* A small memory for MemCache: two lines of two two-byte words, the       *)
(* second line not there, user space mapped one to one; commands name a    *)
(* byte, a word, and ranges that cross into a second word and a second     *)
(* line.                                                                   *)
EXTENDS MemCache

MCUserMap == [a \in 0 .. 7 |-> a]

MCRanges == {<<1, 1>>, <<2, 2>>, <<1, 2>>, <<2, 3>>}

\* The loop of move_cmd, byte by byte, on a memory where each byte is its own
\* address, and MovedFrom say the same for every pair of blocks.
Loop(s, d, n) ==
  LET after[k \in 0 .. n] ==
        IF k = 0 THEN [x \in Addr |-> x]
        ELSE [after[k - 1] EXCEPT ![d + k - 1] = after[k - 1][s + k - 1]]
  IN  after[n]

ASSUME MovedFromIsTheLoop ==
  \A s, d \in Addr, n \in 1 .. AddrMax + 1 :
    s + n - 1 \in Addr /\ d + n - 1 \in Addr =>
      \A x \in Addr : Loop(s, d, n)[x] = MovedFrom(s, d, n, x)
=============================================================================
