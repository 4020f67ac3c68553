------------------------------ MODULE Scramble ------------------------------
(***************************************************************************)
(* Connection::Scramble (Networking/connection.h): the answer a client     *)
(* gives to the server's 64-bit handshake value.  A uint64_t is its        *)
(* sequence of 16 nibbles, the most significant first, as the constants    *)
(* of the source are written.                                              *)
(***************************************************************************)
EXTENDS Naturals, Sequences

Bit(n, i) == (n \div 2^i) % 2

\* ^ on nibbles
XorNibble(a, b) ==
    LET x(i) == ((Bit(a, i) + Bit(b, i)) % 2) * 2^i
    IN  x(0) + x(1) + x(2) + x(3)

Xor(w, v) == [i \in 1..16 |-> XorNibble(w[i], v[i])]

\* 0xDEADBEEFC0DECAFE and 0xC0DEFACE12345678
First == <<13, 14, 10, 13, 11, 14, 14, 15, 12, 0, 13, 14, 12, 10, 15, 14>>
Last  == <<12, 0, 13, 14, 15, 10, 12, 14, 1, 2, 3, 4, 5, 6, 7, 8>>

\* (out & 0xF0F0F0F0F0F0F0) >> 4 | (out & 0x0F0F0F0F0F0F0F) << 4: the masks
\* have 14 digits, so the most significant byte is cleared
SwapNibbles(w) ==
    [i \in 1..16 |-> IF i <= 2 THEN 0 ELSE IF i % 2 = 1 THEN w[i + 1] ELSE w[i - 1]]

Scrambled(input) == Xor(SwapNibbles(Xor(input, First)), Last)

============================================================================
