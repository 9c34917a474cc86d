----------------------------- MODULE SigningTool ------------------------------
(***************************************************************************)
(* The signing tool (tools/signing_tool.cc): a console menu to create,     *)
(* load, save and use an RSA key pair, and to split the private key among  *)
(* a group of people, any quorum of whom can put it together again.        *)
(* Nothing in it catches an exception: one ends the tool.                  *)
(***************************************************************************)
EXTENDS Integers, FiniteSets, Sequences

CONSTANTS
  GroupNames,            \* the lines that people may enter as a name; each has one keyfile
  FirstWord, NoWord,     \* the first word of each of them, or NoWord if it has none
  Totals,                \* numbers of people asked for
  MaxKeys, MaxSharings   \* bounds: key pairs created, private keys split

ASSUME SigningAssumption ==
  /\ IsFiniteSet(GroupNames) /\ Totals \subseteq Nat
  /\ NoWord \notin GroupNames /\ FirstWord \in [GroupNames -> GroupNames \cup {NoWord}]

GroupKey == 0            \* a key split in an earlier session, as sharing 0
NoKey == -1
Cut == -2                \* what the system has cut does not decode, verify or decrypt

\* private, public: Keys, NoKey while empty; haveKeys: have_private_key and have_public_key,
\* always set together; signedIn; privates, publics: keys on file as they are, each in a
\* file of its own; keyfiles: by name [sharing, part, key, whole]; needed: history of the
\* quorums, by sharing; group: the sharing under way, total of its people a history;
\* signature: the key that signed the file; layers: how often it is encrypted.
VARIABLE tool

NoGroup == [names |-> {}, left |-> {}, key |-> NoKey, total |-> 0]

SigningInit ==
  \E people \in {{}} \cup {p \in SUBSET GroupNames : Cardinality(p) = 3} :
  \E part \in [people -> 0..2] :
    /\ \A m, n \in people : part[m] = part[n] => m = n
    /\ tool = [running |-> TRUE, private |-> NoKey, public |-> NoKey, haveKeys |-> FALSE,
               signedIn |-> FALSE, created |-> 0, privates |-> {}, publics |-> {GroupKey},
               keyfiles |-> [n \in people |-> [sharing |-> 0, part |-> part[n], key |-> GroupKey, whole |-> TRUE]],
               needed |-> <<2>>, group |-> NoGroup, signature |-> NoKey, layers |-> 0]

AtMenu == tool.running /\ tool.group = NoGroup
Ended == [tool EXCEPT !.running = FALSE]
MayFail(next) == tool' \in {tool, next} \* a file cannot be read or written, or a new one is cut

\* What a file holds after WriteFile: it is not opened, written, or cut without a word.
Written(old, new) == {old, new, Cut}

WithKeys(t) == [t EXCEPT !.created = @ + 1, !.private = t.created + 1, !.public = t.created + 1, !.haveKeys = TRUE]

CreateKeys == AtMenu /\ tool.created < MaxKeys /\ tool' = WithKeys(tool)

\* Faulty: whoever has keys may save them.
MaySaveAny(t) == t.haveKeys
MaySave(t) == ~t.signedIn /\ t.haveKeys
SavePrivateKey == AtMenu /\ MayFail(IF MaySave(tool) THEN [tool EXCEPT !.privates = @ \cup {tool.private}] ELSE tool)
SavePublicKey == AtMenu /\ MayFail(IF tool.haveKeys THEN [tool EXCEPT !.publics = @ \cup {tool.public}] ELSE tool)

\* Loading leaves haveKeys alone; what does not decode throws.
LoadPrivateKey == AtMenu /\ (MayFail(Ended) \/ \E key \in tool.privates : tool' = [tool EXCEPT !.private = key])
LoadPublicKey == AtMenu /\ (MayFail(Ended) \/ \E key \in tool.publics : tool' = [tool EXCEPT !.public = key])

\* An invalid key is reported and used all the same: SignFile and CheckFileSignature throw,
\* as they do when the file is not there. Bound: no file is both signed and encrypted.
SignFile ==
  /\ AtMenu /\ tool.layers = 0
  /\ \/ tool' = Ended
     \/ tool.private # NoKey /\ \E s \in Written(tool.signature, tool.private) : tool' = [tool EXCEPT !.signature = s]
ValidateSignature == AtMenu /\ tool.signature # NoKey /\ (tool' = Ended \/ (tool.public # NoKey /\ tool' = tool))

\* An empty file throws, and so does what does not decrypt. Bound: one layer.
EncryptFile ==
  /\ AtMenu /\ tool.layers < 1 /\ tool.signature = NoKey
  /\ \/ tool' = Ended
     \/ \E n \in Written(tool.layers, IF tool.layers = Cut THEN Cut ELSE tool.layers + 1) :
          tool' = [tool EXCEPT !.layers = n]
DecryptFile ==
  /\ AtMenu
  /\ \/ MayFail(Ended)
     \/ tool.layers > 0 /\ \E n \in Written(tool.layers, tool.layers - 1) : tool' = [tool EXCEPT !.layers = n]

\* Too few for a quorum goes back to the menu; fewer than three throws (SecretShareData).
CreateKeyGroup(total, quorum) ==
  /\ AtMenu /\ Len(tool.needed) <= MaxSharings /\ (tool.haveKeys \/ tool.created < MaxKeys)
  /\ LET t == IF tool.haveKeys THEN tool ELSE WithKeys(tool)
     IN tool' = CASE total < quorum \/ quorum < 2 -> tool
                  [] total >= quorum /\ quorum >= 2 /\ total < 3 -> Ended
                  [] total >= quorum /\ quorum >= 2 /\ total >= 3 ->
                       [t EXCEPT !.needed = Append(@, quorum),
                                 !.group = [names |-> {}, left |-> 0..(total - 1), key |-> t.private, total |-> total]]

Unique(name) == name \notin tool.group.names

NextPart == CHOOSE i \in tool.group.left : \A j \in tool.group.left : i <= j
Asked(name) == [tool EXCEPT !.group.names = @ \cup {name}]

\* The whole line is the name of the file.
StoredPart(name, whole) ==
  LET file == [sharing |-> Len(tool.needed) - 1, part |-> NextPart, key |-> tool.group.key, whole |-> whole]
  IN [Asked(name) EXCEPT !.group.left = @ \ {NextPart},
        !.keyfiles = [n \in DOMAIN tool.keyfiles \cup {name} |-> IF n = name THEN file ELSE tool.keyfiles[n]]]

\* The next person: a name whose keyfile was not opened is taken as well, and a part whose
\* file was cut counts as given.
StoreKeyPart(name) ==
  /\ tool.running /\ tool.group.left # {} /\ Unique(name)
  /\ tool' = Asked(name) \/ \E whole \in BOOLEAN : tool' = StoredPart(name, whole)

\* CreateKeyGroup ends by saving the public key, whichever is loaded.
FinishGroup ==
  /\ tool.running /\ tool.group # NoGroup /\ tool.group.left = {}
  /\ \E publics \in {tool.publics, tool.publics \cup {tool.public}} :
       tool' = [tool EXCEPT !.group = NoGroup, !.publics = publics]

\* External: CryptoPP puts the key together from enough different parts of one sharing.
Recovers(people) ==
  \E s \in 0..(Len(tool.needed) - 1) :
    /\ \A n \in people : tool.keyfiles[n].sharing = s /\ tool.keyfiles[n].whole
    /\ Cardinality({tool.keyfiles[n].part : n \in people}) >= tool.needed[s + 1]

\* Of the line that is entered here only the first word is the name of a keyfile; a line
\* without one, or without a keyfile, is asked for again.
CanBeNamed(people) == people \subseteq {FirstWord[line] : line \in GroupNames}

\* Anything but enough different keyfiles and the right passwords throws.
GroupSignIn(people) ==
  /\ AtMenu /\ CanBeNamed(people)
  /\ \/ tool' = Ended
     \/ /\ Recovers(people)
        /\ tool' = [tool EXCEPT !.private = tool.keyfiles[CHOOSE n \in people : TRUE].key, !.signedIn = TRUE]

ExitSigning == AtMenu /\ tool' = Ended

SigningNext ==
  \/ CreateKeys \/ SavePrivateKey \/ SavePublicKey \/ LoadPrivateKey \/ LoadPublicKey
  \/ SignFile \/ ValidateSignature \/ EncryptFile \/ DecryptFile
  \/ \E total \in Totals, quorum \in 1..2 : CreateKeyGroup(total, quorum)
  \/ \E name \in GroupNames : StoreKeyPart(name)
  \/ FinishGroup
  \/ \E people \in SUBSET DOMAIN tool.keyfiles \ {{}} : GroupSignIn(people)
  \/ ExitSigning

SigningSpec == SigningInit /\ [][SigningNext]_tool

-----------------------------------------------------------------------------
\* A private key split in an earlier session, which the tool has only by a sign-in, is
\* never stored as it is, whatever is created, loaded, split again or saved around it
\* (SavePrivateKey, GroupSignIn).
GroupKeyIsNotStored == GroupKey \notin tool.privates

\* When a group is complete, each part was given to one of its people and no two have the
\* same, though names were refused and files could not be opened on the way; and any
\* quorum of those whose keyfile was not cut, and whose name is one word, can sign in.
EveryQuorumSignsIn ==
  LET members == {n \in DOMAIN tool.keyfiles : tool.keyfiles[n].sharing = Len(tool.needed) - 1}
      able == {n \in members : tool.keyfiles[n].whole /\ FirstWord[n] = n}
  IN tool.group # NoGroup /\ tool.group.left = {} =>
       /\ {tool.keyfiles[n].part : n \in members} = 0..(tool.group.total - 1)
       /\ Cardinality(members) = tool.group.total
       /\ \A people \in SUBSET able :
            Cardinality(people) = tool.needed[Len(tool.needed)] => CanBeNamed(people) /\ Recovers(people)

\* The group's key stays with the group (CreateKeyGroup, GroupSignIn).
GroupHoldsItsKey == GroupKeyIsNotStored /\ EveryQuorumSignsIn
=============================================================================
