------------------------------- MODULE Crypto --------------------------------
(***************************************************************************)
(* maidsafe::crypto (crypto.cc) and maidsafe::rsa (rsa.h, rsa.cc): texts   *)
(* are encrypted, signed, compressed, shared, stored and read back, damage *)
(* and wrong keys included.  A value is a term: what it was made of; the   *)
(* arithmetic is that of Crypto++, external.                               *)
(***************************************************************************)
EXTENDS Integers, Sequences, FiniteSets

CONSTANTS
  KeyOwners, \* of RSA key pairs
  Levels,    \* compression levels asked for
  Sharings,  \* <<threshold, number_of_shares>> asked for
  MaxMade    \* bound: values made

kMaxCompressionLevel == 9

Term(kind, of, for) == [kind |-> kind, of |-> of, for |-> for, damaged |-> FALSE]
Error(code) == Term("error", <<>>, <<code>>)
Text(name) == Term("text", <<>>, <<name>>)
Uninitialised == Term("none", <<>>, <<>>)
InvalidKey == Term("invalid", <<>>, <<>>) \* default-constructed, or decoded from anything
Private(owner) == Term("private", <<>>, <<owner>>)
Public(owner) == Term("public", <<>>, <<owner>>)

\* What has been made, and may be kept, passed on and damaged.
VARIABLE made

CryptoInit == made = {Text("a text"), Uninitialised, InvalidKey}

Initialised(x) == x # Uninitialised
Validate(key) == key # InvalidKey
Intact(x, kind) == x.kind = kind /\ ~x.damaged
Failed(x) == x.kind = "error"

SymmEncrypt(input, key) ==
  IF ~Initialised(input) \/ ~Initialised(key) THEN Error("uninitialised")
  ELSE Term("sealed", <<input, key>>, <<>>)
SymmDecrypt(input, key) ==
  IF ~Initialised(input) \/ ~Initialised(key) THEN Error("uninitialised")
  ELSE IF Intact(input, "sealed") /\ input.of[2] = key THEN input.of[1]
  ELSE Error("symmetric_decryption_error")

Compress(input, level) ==
  IF level > kMaxCompressionLevel THEN Error("invalid_argument")
  ELSE IF ~Initialised(input) THEN Error("uninitialised")
  ELSE Term("compressed", <<input>>, <<>>)
\* What comes back: not every byte of a gzip header is looked at, so a damaged value may still
\* give its text; the checksum at its end refuses every other.
Uncompress(input) ==
  IF ~Initialised(input) THEN {Error("uninitialised")}
  ELSE IF Intact(input, "compressed") THEN {input.of[1]}
  ELSE {input.of[1], Error("uncompression_error")}

ArgsAllowed(threshold, shares) == threshold <= shares /\ shares >= 3 /\ threshold >= 2

\* SecretShareData and InfoDisperse; the parts carry their numbers.
Parts(data, threshold, shares) ==
  IF ~ArgsAllowed(threshold, shares) THEN {Error("invalid_argument")}
  ELSE {Term("part", <<data>>, <<threshold, shares, i>>) : i \in 0..(shares - 1)}

\* SecretRecoverData and InfoRetrieve take as many parts as they get for the threshold: too
\* few of them, or parts of several texts, make another text, and no error.
Recover(parts) ==
  IF \A p, q \in parts :
       /\ Intact(p, "part") /\ Cardinality(parts) >= p.for[1]
       /\ p.of = q.of /\ p.for[1] = q.for[1] /\ p.for[2] = q.for[2]
  THEN (CHOOSE p \in parts : TRUE).of[1] ELSE Text("another")

\* A key and IV of their own for every text: random, and named for it here.
LocalKey(data) == Term("key", <<data>>, <<>>)

Encrypt(data, public) ==
  IF ~Validate(public) THEN Error("invalid_public_key")
  ELSE LET sealed == SymmEncrypt(data, LocalKey(data))
       IN IF Failed(sealed) THEN sealed
          ELSE Term("encrypted", <<sealed, Term("wrapped", <<LocalKey(data)>>, public.for)>>, <<>>)

\* Faulty: the key is not the one that was wrapped.
DecryptWithOwnKey(data, private) ==
  IF ~Validate(private) THEN Error("invalid_private_key")
  ELSE IF ~Intact(data, "encrypted") THEN Error("decryption_error")
  ELSE SymmDecrypt(data.of[1], LocalKey(private))

\* What Parse cannot take apart and what the key does not unwrap is a decryption_error; the
\* errors of SymmDecrypt pass the handler, which catches those of Crypto++ only.
Decrypt(data, private) ==
  CASE ~Validate(private) -> Error("invalid_private_key")
    [] Validate(private) /\ ~Intact(data, "encrypted") -> Error("decryption_error")
    [] OTHER ->
         LET wrapped == data.of[2]
         IN IF Intact(wrapped, "wrapped") /\ wrapped.for = private.for
            THEN SymmDecrypt(data.of[1], wrapped.of[1]) ELSE Error("decryption_error")

Sign(data, private) ==
  IF ~Initialised(data) THEN Error("uninitialised")
  ELSE IF ~Validate(private) THEN Error("invalid_private_key")
  ELSE Term("signature", <<data>>, private.for)
CheckSignature(data, signature, public) ==
  IF ~Initialised(data) \/ ~Initialised(signature) THEN Error("uninitialised")
  ELSE IF ~Validate(public) THEN Error("invalid_public_key")
  ELSE signature = Term("signature", <<data>>, public.for)

\* Of the file with this content, or of none.
SignContent(content, private) ==
  IF ~Validate(private) THEN Error("signing_error")
  ELSE IF content = Uninitialised THEN Error("invalid_file")
  ELSE Term("signature", <<content>>, private.for)
CheckFileSignature(content, signature, public) ==
  IF ~Initialised(signature) THEN Error("uninitialised")
  ELSE IF ~Validate(public) THEN Error("invalid_public_key")
  ELSE IF content = Uninitialised THEN Error("invalid_file")
  ELSE signature = Term("signature", <<content>>, public.for)

\* invalid_key: invalid_private_key or invalid_public_key.
EncodeKey(key) ==
  IF ~Validate(key) THEN Error("invalid_key") ELSE Term("encoded", <<key>>, <<>>)
\* Nothing validates what was decoded.
DecodeKey(encoded) ==
  IF ~Initialised(encoded) THEN {Error("uninitialised")}
  ELSE IF Intact(encoded, "encoded") THEN {encoded.of[1]}
  ELSE {Error("invalid_key"), InvalidKey}

GenerateKeyPair(owner) ==
  made' \in {made \cup {Private(owner), Public(owner)}, made \cup {Error("keys_generation_error")}}

Kind(kinds) == {x \in made : x.kind \in kinds}
Texts == Kind({"text", "none"})
PrivateKeys == Kind({"private", "invalid"})
PublicKeys == Kind({"public", "invalid"})

Make(x) == made' = made \cup {x}
CryptoNext ==
  /\ Cardinality(made) < MaxMade
  /\ \/ \E owner \in KeyOwners : GenerateKeyPair(owner)
     \/ \E text \in Texts, public \in PublicKeys : Make(Encrypt(text, public))
     \/ \E x \in Kind({"encrypted"}), private \in PrivateKeys : Make(Decrypt(x, private))
     \/ \E text \in Texts, private \in PrivateKeys : Make(Sign(text, private))
     \/ \E file \in Texts, private \in PrivateKeys : Make(SignContent(file, private))
     \/ \E text \in Texts, level \in Levels : Make(Compress(text, level))
     \/ \E x \in Kind({"compressed", "none"}) : \E y \in Uncompress(x) : Make(y)
     \/ \E text \in Kind({"text"}), sharing \in Sharings :
          made' = made \cup Parts(text, sharing[1], sharing[2])
     \/ \E parts \in (SUBSET Kind({"part"})) \ {{}} : Make(Recover(parts))
     \/ \E key \in Kind({"private", "public", "invalid"}) : Make(EncodeKey(key))
     \/ \E x \in Kind({"encoded", "none"}) : \E key \in DecodeKey(x) : Make(key)
     \/ \E x \in Kind({"encrypted", "signature", "compressed", "encoded", "part"}) :
          Make([x EXCEPT !.damaged = TRUE])
     \/ \E x \in Kind({"encrypted"}), i \in 1..2 : Make([x EXCEPT !.of[i].damaged = TRUE])

CryptoSpec == CryptoInit /\ [][CryptoNext]_made

-----------------------------------------------------------------------------
\* An encrypted text comes back with the private key it was encrypted for, and with any other
\* key or damage anywhere in it Decrypt fails; a signature is accepted, by both checks, for
\* the one text and the one key it was made with, and only undamaged; an undamaged encoded key
\* decodes to that key; a compressed text comes back, or damage is reported; and of the parts
\* a text was split into, as many as the threshold asks for give it back.  Nothing is said of
\* damaged keys and parts, nor of too few parts, of which another value may be made unnoticed
\* (rsa.cc, crypto.cc).
ReadBack ==
  /\ \A x \in made :
       /\ x.kind = "encrypted" =>
            \A private \in PrivateKeys : LET text == Decrypt(x, private) IN
              IF private.for = x.of[2].for /\ ~x.damaged /\ ~x.of[1].damaged /\ ~x.of[2].damaged
              THEN text \in Kind({"text"}) /\ Encrypt(text, Public(private.for[1])) = x
              ELSE Failed(text)
       /\ x.kind = "signature" =>
            \A text \in Kind({"text"}), public \in Kind({"public"}) :
              LET its == ~x.damaged /\ x.of = <<text>> /\ x.for = public.for
              IN /\ CheckSignature(text, x, public) = its
                 /\ CheckFileSignature(text, x, public) = its
       /\ x.kind = "encoded" => x.damaged \/ DecodeKey(x) = {x.of[1]}
       /\ x.kind = "compressed" =>
            \A result \in Uncompress(x) : result = x.of[1] \/ (x.damaged /\ Failed(result))
  /\ \A text \in Kind({"text"}), sharing \in Sharings : ArgsAllowed(sharing[1], sharing[2]) =>
       \A parts \in (SUBSET Parts(text, sharing[1], sharing[2])) \ {{}} :
         Cardinality(parts) >= sharing[1] => Recover(parts) = text
=============================================================================
