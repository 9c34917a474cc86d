------------------------------ MODULE Encoding -------------------------------
(***************************************************************************)
(* maidsafe::hex and maidsafe::base64 (encode.h, encode.cc): bytes to text *)
(* and back.  A character of an alphabet is its position there; base64's   *)
(* pad character and anything else are Pad and Other.                      *)
(***************************************************************************)
EXTENDS Integers, Sequences, SequencesExt

CONSTANTS
  Bytes,     \* the bytes that occur, of 0..255
  MaxLength  \* bound: of the input

Pad == 64
Other == 65
Refused == <<-1>> \* invalid_conversion

\* input: bytes; text: characters to decode, which need not be an encoding.
VARIABLE encoded

Init == encoded = [input |-> <<>>, text |-> <<>>]

HexEncode(input) == FlattenSeq([i \in DOMAIN input |-> <<input[i] \div 16, input[i] % 16>>])
HexDecode(text) ==
  IF Len(text) % 2 # 0 THEN Refused
  ELSE [i \in 1..(Len(text) \div 2) |-> text[2 * i - 1] * 16 + text[2 * i]]

\* Three bytes are four digits of six bits; what is left of the input is padded.
Digits(number) == <<number \div 262144, (number \div 4096) % 64, (number \div 64) % 64, number % 64>>
\* Faulty: a byte less is shifted a byte less.
QuantumUnshifted(in) ==
  CASE Len(in) = 3 -> Digits(in[1] * 65536 + in[2] * 256 + in[3])
    [] Len(in) = 2 -> SubSeq(Digits(in[1] * 256 + in[2]), 1, 3) \o <<Pad>>
    [] Len(in) = 1 -> SubSeq(Digits(in[1]), 1, 2) \o <<Pad, Pad>>
Quantum(in) ==
  CASE Len(in) = 3 -> Digits(in[1] * 65536 + in[2] * 256 + in[3])
    [] Len(in) = 2 -> SubSeq(Digits(in[1] * 65536 + in[2] * 256), 1, 3) \o <<Pad>>
    [] Len(in) = 1 -> SubSeq(Digits(in[1] * 65536), 1, 2) \o <<Pad, Pad>>
Part(s, i, size) == SubSeq(s, (i - 1) * size + 1, IF i * size < Len(s) THEN i * size ELSE Len(s))
Base64Encode(input) ==
  FlattenSeq([i \in 1..((Len(input) + 2) \div 3) |-> Quantum(Part(input, i, 3))])

\* One quantum of the text: the bytes, and whether it ends the decoding.  A pad is only
\* good where one or two characters of the whole text are left.
DecodedQuantum(in, last) ==
  LET number(n) == FoldLeft(LAMBDA acc, d : acc * 64 + d, 0, SubSeq(in, 1, n))
      bad == {i \in 1..4 : in[i] >= Pad}
      first == CHOOSE i \in bad : \A j \in bad : i <= j
  IN CASE bad = {} -> <<number(4) \div 65536, (number(4) \div 256) % 256, number(4) % 256>>
       [] bad # {} /\ in[first] = Pad /\ last /\ first = 4 ->
            <<number(3) \div 1024, (number(3) \div 4) % 256>>
       [] bad # {} /\ in[first] = Pad /\ last /\ first = 3 -> <<number(2) \div 16>>
       [] OTHER -> Refused
Base64Decode(text) ==
  LET quanta == Len(text) \div 4
      parts == [i \in 1..quanta |-> DecodedQuantum(Part(text, i, 4), i = quanta)]
  IN IF Len(text) % 4 # 0 \/ Refused \in Range(parts) THEN Refused ELSE FlattenSeq(parts)

Grow(byte) ==
  /\ Len(encoded.input) < MaxLength
  /\ encoded' = [encoded EXCEPT !.input = Append(@, byte)]

\* A text to decode: an encoding with one character changed.
Receive(i, character) ==
  /\ encoded.text = <<>> /\ i \in DOMAIN Base64Encode(encoded.input)
  /\ encoded' = [encoded EXCEPT !.text = [Base64Encode(encoded.input) EXCEPT ![i] = character]]

Next ==
  \/ \E byte \in Bytes : Grow(byte)
  \/ \E i \in 1..(2 * MaxLength), character \in {0, 63, Pad, Other} : Receive(i, character)

Spec == Init /\ [][Next]_encoded

-----------------------------------------------------------------------------
\* What was encoded is what is decoded, in both alphabets and for any length, and what is
\* decoded from a text that is not refused fills a text of its length (Encode, Decode).
DecodedIsWhatWasEncoded ==
  /\ HexDecode(HexEncode(encoded.input)) = encoded.input
  /\ Base64Decode(Base64Encode(encoded.input)) = encoded.input
  /\ LET decoded == Base64Decode(encoded.text)
     IN decoded # Refused => Len(Base64Encode(decoded)) = Len(encoded.text)
=============================================================================
