----------------------------- MODULE DataTypes -------------------------------
(***************************************************************************)
(* ImmutableData and MutableData (data_types/): a name and a value; the    *)
(* name of the first is the hash of its value.  A hash is abstracted to    *)
(* the value it is of.                                                     *)
(***************************************************************************)
EXTENDS Naturals, FiniteSets

CONSTANTS
  Immutables, Mutables, \* the objects
  Values                \* contents; and names, for each value the hash of it

None == "uninitialised"
Emptied == "emptied by a move"  \* initialised still
Bad == "not readable"           \* in an archive: too long or too short for its type

\* objects: name_ and value_; archive: the two as saved, or as damaged since; failed: the
\* last call threw.
VARIABLE data

Objects == Immutables \cup Mutables
ASSUME ObjectsAssumption == Immutables \cap Mutables = {}
ASSUME ValuesAssumption == {None, Emptied, Bad} \cap Values = {}
At(o) == data.objects[o]
IsInitialised(o) == At(o).name # None

DataInit == data = [objects |-> [o \in Objects |-> [name |-> None, value |-> None]],
                archive |-> [name |-> Bad, value |-> Bad], failed |-> FALSE]

Put(o, x) == [data EXCEPT !.objects[o] = x, !.failed = FALSE]
Throws == data' = [data EXCEPT !.failed = TRUE]

Default(o) == data' = Put(o, [name |-> None, value |-> None])

\* A new object, of a value and (MutableData) a name that may not be initialised.
MakeImmutable(o, value) ==
  IF value = None THEN Throws ELSE data' = Put(o, [name |-> value, value |-> value])
MakeMutable(o, name, value) ==
  IF name = None \/ value = None THEN Throws ELSE data' = Put(o, [name |-> name, value |-> value])

SameType(o, p) == o # p /\ (o \in Immutables <=> p \in Immutables)
Copy(o, p) == SameType(o, p) /\ data' = Put(o, At(p))

Left(member) == IF member = None THEN None ELSE Emptied
Move(o, p) ==
  /\ SameType(o, p)
  /\ data' = [Put(o, At(p)) EXCEPT !.objects[p] = [name |-> Left(At(p).name), value |-> Left(At(p).value)]]

\* Data::save throws without a name, value_ without a value; what a move emptied is saved,
\* and cannot be read.
Save(o) ==
  LET written(member) == IF member = Emptied THEN Bad ELSE member
  IN IF None \in {At(o).name, At(o).value} THEN Throws
     ELSE data' = [data EXCEPT !.archive = [name |-> written(At(o).name), value |-> written(At(o).value)],
                               !.failed = FALSE]

Damage(name, value) == data' = [data EXCEPT !.archive = [name |-> name, value |-> value]]

\* Faulty: the name is taken as it comes.
NothingElse(o, x) == TRUE
Accepted(o, x) == o \in Immutables => x.name = x.value

\* The members are read one after another into the object itself, and checked afterwards.
Load(o) ==
  LET x == data.archive
  IN data' = CASE x.name = Bad -> [data EXCEPT !.failed = TRUE]
               [] x.name # Bad /\ x.value = Bad -> [Put(o, [At(o) EXCEPT !.name = x.name]) EXCEPT !.failed = TRUE]
               [] OTHER -> [Put(o, x) EXCEPT !.failed = ~Accepted(o, x)]

DataNext ==
  \/ \E o \in Objects : Default(o) \/ Save(o) \/ Load(o)
  \/ \E o, p \in Objects : Copy(o, p) \/ Move(o, p)
  \/ \E o \in Immutables, value \in Values \cup {None} : MakeImmutable(o, value)
  \/ \E o \in Mutables, name, value \in Values \cup {None} : MakeMutable(o, name, value)
  \/ \E name, value \in Values \cup {Bad} : Damage(name, value)

DataSpec == DataInit /\ [][DataNext]_data

-----------------------------------------------------------------------------
Whole(o, x) ==
  IF o \in Immutables THEN x.name = x.value ELSE x.name = None <=> x.value = None

\* An object stops being whole, the name its value's hash (or both emptied), or both or none
\* of its members initialised, only by a call that threw, or as a copy of one that was not
\* whole (load, constructors, assignments).
AnErrorSpoils ==
  \A o \in Objects :
    Whole(o, At(o)) /\ ~Whole(o, data'.objects[o]) =>
      data'.failed \/ \E p \in Objects : ~Whole(p, At(p)) /\ data'.objects[o] = At(p)
SpoiltOnlyByAnError == [][AnErrorSpoils]_data
=============================================================================
