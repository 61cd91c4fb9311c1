-------------------------------- MODULE Runtime --------------------------------
(***************************************************************************)
(* Who sets up what there is one of in a process, and who takes it down:   *)
(* the options (options.hpp, utils/singleton.hpp), read from the           *)
(* environment (utils/env.hpp), and MPI (mpi/runtime.hpp).  Initialisers   *)
(* are automatic objects: the last one made is the first to go.            *)
(***************************************************************************)
EXTENDS Integers, Sequences, SequencesExt

CONSTANTS Texts,        \* of environment variables: sequences of characters
          SizeLimit,    \* of size_t: sizes are 0 .. SizeLimit - 1
          MaxScopes     \* how many initialisers live at a time

ASSUME RuntimeAssumption == SizeLimit \in Nat \ {0} /\ MaxScopes \in Nat

VARIABLES
    env,        \* the text of each option's variable, or Unset
    option,     \* the instance of each option, {its value}, or None
    registered, \* runtime_options: the option and a copy of its value, in order
    scopes,     \* the initialisers that live, the oldest first
    mpi         \* "none", "hosted" by the program itself, "running", "finalized"; or "died"

runtimeVars == <<env, option, registered, scopes, mpi>>

OptionNames == {"path", "size"}
Unset == <<"unset">>
None  == {}         \* of what may be there, {v}, or not
Blank == "_"
Digits == 0 .. 9

\* The environment is that of the option's type: digits are numbers.
default_value(o) == IF o = "path" THEN {<<"/">>} ELSE {0}

\* What a stream extracts: the first word, or of it the number it begins with;
\* a negative one wraps around.
LengthOfPrefix(text, chars) ==
    CHOOSE n \in 0 .. Len(text) :
        (\A i \in 1 .. n : text[i] \in chars) /\ (n < Len(text) => text[n + 1] \notin chars)
FirstWord(text) ==
    LET rest == SubSeq(text, LengthOfPrefix(text, {Blank}) + 1, Len(text))
    IN  SubSeq(rest, 1, LengthOfPrefix(rest, ToSet(rest) \ {Blank}))
NumberIn(word) ==
    LET minus  == word[1] = "-"
        tail   == IF minus THEN Tail(word) ELSE word
        digits == SubSeq(tail, 1, LengthOfPrefix(tail, {ToString(d) : d \in Digits}))
        number == FoldLeft(LAMBDA n, c : 10 * n + (CHOOSE d \in Digits : ToString(d) = c), 0, digits)
    IN  IF digits = <<>> \/ number >= SizeLimit THEN None
        ELSE {IF minus THEN (SizeLimit - number) % SizeLimit ELSE number}

\* getenv_with_default; None of a text that is not a value.
getenv_with_default(o) ==
    LET word == FirstWord(env[o])
    IN  IF env[o] = Unset THEN default_value(o)
        ELSE IF word = <<>> THEN None
        ELSE IF o = "path" THEN {word} ELSE NumberIn(word)

initialized(o) == option[o] # None

-----------------------------------------------------------------------------

RuntimeInit ==
    /\ env \in [OptionNames -> Texts \cup {Unset}]
    /\ option = [o \in OptionNames |-> None]
    /\ registered = <<>> /\ scopes = <<>>
    /\ mpi \in {"none", "hosted"}

RuntimeIdle ==
    /\ env = [o \in OptionNames |-> Unset] /\ option = [o \in OptionNames |-> None]
    /\ registered = <<>> /\ scopes = <<>> /\ mpi = "none"

Scope(what, owns, pops) == [what |-> what, owns |-> owns, pops |-> pops]
EnterScope(s) == Len(scopes) < MaxScopes /\ scopes' = Append(scopes, s)

\* An option_initializer reads the environment, and if there is no instance it
\* makes one, adds a copy to the list and remembers to take both back.  A bad
\* environment ends the process even if there is an instance.
InitOption(o) ==
    /\ mpi # "died"
    /\ LET val == getenv_with_default(o)
       IN  IF val = None THEN mpi' = "died" /\ UNCHANGED <<option, registered, scopes>>
           ELSE /\ EnterScope(Scope(o, ~initialized(o), ~initialized(o)))
                /\ option' = IF initialized(o) THEN option ELSE [option EXCEPT ![o] = val]
                /\ registered' = IF initialized(o) THEN registered ELSE Append(registered, <<o, val>>)
                /\ UNCHANGED mpi
    /\ UNCHANGED env

\* singleton_initializer of an option by itself: the instance, and no entry.
InitSingleton(o) ==
    /\ mpi # "died"
    /\ EnterScope(Scope(o, ~initialized(o), FALSE))
    /\ option' = IF initialized(o) THEN option ELSE [option EXCEPT ![o] = default_value(o)]
    /\ UNCHANGED <<env, registered, mpi>>

\* mpi::runtime initialises MPI once in the life of the process.
InitMpi ==
    /\ mpi # "died"
    /\ EnterScope(Scope("mpi", mpi = "none", FALSE))
    /\ mpi' = IF mpi = "none" THEN "running" ELSE mpi
    /\ UNCHANGED <<env, option, registered>>

\* A runtime that is made of the youngest one takes over what it has to do.
MoveMpi ==
    /\ mpi # "died"
    /\ scopes # <<>> /\ Last(scopes).what = "mpi" /\ Len(scopes) < MaxScopes
    /\ scopes' = Append([scopes EXCEPT ![Len(scopes)].owns = FALSE], Last(scopes))
    /\ UNCHANGED <<env, option, registered, mpi>>

SetOption(o) ==
    /\ mpi # "died" /\ initialized(o)
    /\ \E val \in {default_value(o), IF o = "path" THEN {<<"x">>} ELSE {1}} :
          option' = [option EXCEPT ![o] = val]
    /\ UNCHANGED <<env, registered, scopes, mpi>>

\* The youngest initialiser goes: it finalises what it has initialised, and
\* takes the last entry from the list if it has added one.
RegisteredWithout_Always(s) ==
    IF s.what # "mpi" /\ registered # <<>> THEN Front(registered) ELSE registered
RegisteredWithout(s) == IF s.pops THEN Front(registered) ELSE registered

Leave ==
    /\ mpi # "died" /\ scopes # <<>>
    /\ LET s == Last(scopes)
       IN  /\ option' = IF s.owns /\ s.what # "mpi" THEN [option EXCEPT ![s.what] = None] ELSE option
           /\ mpi' = IF s.owns /\ s.what = "mpi" THEN "finalized" ELSE mpi
           /\ registered' = RegisteredWithout(s)
    /\ scopes' = Front(scopes)
    /\ UNCHANGED env

RuntimeNext ==
    \/ InitMpi \/ MoveMpi \/ Leave
    \/ \E o \in OptionNames : InitOption(o) \/ InitSingleton(o) \/ SetOption(o)

RuntimeSpec == RuntimeInit /\ [][RuntimeNext]_runtimeVars

-----------------------------------------------------------------------------
(* Properties. *)

Subjects == OptionNames \cup {"mpi"}

\* The initialisers that will finalise what, and those that will take an entry
\* from the list.
Owners(what) == {i \in 1 .. Len(scopes) : scopes[i].what = what /\ scopes[i].owns}
Listing      == {i \in 1 .. Len(scopes) : scopes[i].pops}

\* by numbers the initialisers that have added the entries, in their order.
ListedBy(by) ==
    /\ \A k, l \in 1 .. Len(registered) : k < l => by[k] < by[l]
    /\ \A i \in Listing : \E k \in 1 .. Len(registered) : by[k] = i
    /\ \A k \in 1 .. Len(registered) : registered[k][1] = scopes[by[k]].what

\* However initialisers are nested: an option has an instance, and MPI runs,
\* exactly while the one initialiser lives that has set it up; and the list
\* has the options that were initialised from the environment, in that order
\* (options.hpp:74-86, utils/singleton.hpp:42-53, mpi/runtime.hpp:14-27).
OwnersFinalise ==
    /\ \A what \in Subjects : \A i, j \in Owners(what) : i = j
    /\ \A o \in OptionNames : initialized(o) <=> Owners(o) # {}
    /\ mpi # "died" => (mpi = "running" <=> Owners("mpi") # {})
    /\ \E by \in [1 .. Len(registered) -> Listing] : ListedBy(by)
    /\ \A i \in 1 .. Len(registered) :
          /\ initialized(registered[i][1])
          /\ registered[i][2] = getenv_with_default(registered[i][1])

=============================================================================
