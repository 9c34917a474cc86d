------------------------------- MODULE SipHash --------------------------------
(***************************************************************************)
(* maidsafe::SipHash (hash/algorithms/siphash.h, .cc): bytes are hashed as *)
(* they come, in calls of any length; what does not fill a word of eight   *)
(* is kept for the next call.  A state v0..v3 is abstracted to the words   *)
(* compressed into it, the bytes to their positions in the message.        *)
(***************************************************************************)
EXTENDS Integers, Sequences

CONSTANTS
  Lengths,  \* how many bytes one call of Update brings
  MaxBytes  \* bound: length of the message

Word == 8
Byte == 256 \* b is a std::uint8_t

\* words: compressed so far; remainder: remainder_ up to remainder_length_; b; length: bytes
\* so far, history.
VARIABLE hash

Init == hash = [words |-> <<>>, remainder |-> <<>>, b |-> 0, length |-> 0]

Smaller(m, n) == IF m < n THEN m ELSE n

\* The words of a run of bytes, and what is left of it.
WordsOf(in) == [i \in 1..(Len(in) \div Word) |-> SubSeq(in, (i - 1) * Word + 1, i * Word)]
Left(in) == SubSeq(in, Len(in) - (Len(in) % Word) + 1, Len(in))
\* Faulty: the words that are compressed are kept as well.
CompressKeepingAll(h, in) == [h EXCEPT !.words = @ \o WordsOf(in), !.remainder = in]
Compress(h, in) == [h EXCEPT !.words = @ \o WordsOf(in), !.remainder = Left(in)]

Update(n) ==
  /\ hash.length + n <= MaxBytes
  /\ LET in == [i \in 1..n |-> hash.length + i]
         copied == IF hash.remainder = <<>> THEN 0 ELSE Smaller(n, Word - Len(hash.remainder))
         filled == Compress(hash, hash.remainder \o SubSeq(in, 1, copied))
         rest == SubSeq(in, copied + 1, n)
     IN hash' = [Compress(filled, rest) EXCEPT !.remainder = filled.remainder \o Left(rest),
                                                !.b = (@ + n) % Byte, !.length = @ + n]

\* What goes into the last word: the number of bytes, and those that are left.
Finalize(h) == [words |-> h.words, left |-> h.remainder, number |-> (h.b + Len(h.remainder)) % Byte]

Next == \E n \in Lengths : Update(n)

Spec == Init /\ [][Next]_hash

-----------------------------------------------------------------------------
Message == [i \in 1..hash.length |-> i]

\* However a message is cut into calls, the words are those of the whole message, what is
\* kept is less than a word, and b has counted every byte (Update, Compress and the
\* assertions in them).
CutsDoNotMatter ==
  hash.words = WordsOf(Message) /\ hash.remainder = Left(Message) /\ hash.b = hash.length % Byte

\* The result is the one of the reference implementation, whose last word has the length
\* of the message in its highest byte (siphash.cc:32-34, siphash_test.cc:133).
FinalizeIsTheReference ==
  Finalize(hash) = [words |-> WordsOf(Message), left |-> Left(Message), number |-> hash.length % Byte]
=============================================================================
