-------------------------- MODULE PropertyRegistry --------------------------
(***************************************************************************)
(* The registry every property puts itself into while the extension's      *)
(* translation units are initialised.  A linker that builds from a static  *)
(* archive keeps an object file only if something refers to it, so         *)
(* LoadInternal calls one anchor per property file.  The units are         *)
(* initialised one after the other in an order nobody fixes; within a unit *)
(* the properties register in the order of the file.                       *)
(***************************************************************************)
EXTENDS Naturals, FiniteSets, SequencesExt

CONSTANTS
    PropertyFiles,   \* the property files, each with its FUZZING_PROPERTY_FILE anchor
    CasesOf          \* the PropertyCases of a file, in the order they appear in it

ASSUME CasesOfAssumption == CasesOf \in [PropertyFiles -> Seq(UNION {ToSet(CasesOf[f]) : f \in PropertyFiles})]

VARIABLES
    linked,       \* the property files whose object is part of the program
    registered,   \* how many properties of a file have been registered
    registry,     \* MutableRegistry(): all properties, in registration order
    loaded        \* whether LoadInternal has run

registryVars == <<linked, registered, registry, loaded>>

\* Mutant of TouchPropertyFiles: the anchor of a file was never added to the list.
TouchPropertyFilesForgetsOne == PropertyFiles \ {CHOOSE f \in PropertyFiles : TRUE}

\* The files whose anchor LoadInternal calls: one call per property file.
TouchPropertyFiles == PropertyFiles

\* (external) The linker may drop any object file to which nothing refers.
Linkable == {objects \in SUBSET PropertyFiles : TouchPropertyFiles \subseteq objects}

Initialised(f) == registered[f] = Len(CasesOf[f])
Started(f) == registered[f] > 0

RegistryInit ==
    /\ linked \in Linkable
    /\ registered = [f \in PropertyFiles |-> 0]
    /\ registry = <<>>
    /\ loaded = FALSE

\* One static initializer of f.  Another unit that has started has finished.
Register(f) ==
    /\ ~loaded
    /\ f \in linked
    /\ ~Initialised(f)
    /\ \A g \in linked \ {f} : Started(g) => Initialised(g)
    /\ registry' = Append(registry, CasesOf[f][registered[f] + 1])
    /\ registered' = [registered EXCEPT ![f] = @ + 1]
    /\ UNCHANGED <<linked, loaded>>

\* Static initialisation is over before the entry point of the extension runs.
LoadInternal ==
    /\ ~loaded
    /\ \A f \in linked : Initialised(f)
    /\ loaded' = TRUE
    /\ UNCHANGED <<linked, registered, registry>>

RegistryNext ==
    \/ \E f \in PropertyFiles : Register(f)
    \/ LoadInternal

\* PropertyRegistry::Suites(): the distinct suite names, in registration order.
Suites ==
    LET upTo[n \in 0..Len(registry)] ==
            IF n = 0 THEN <<>>
            ELSE IF Contains(upTo[n - 1], registry[n].suite) THEN upTo[n - 1]
            ELSE Append(upTo[n - 1], registry[n].suite)
    IN upTo[Len(registry)]

-----------------------------------------------------------------------------
\* Once the extension is loaded every property of every file is registered
\* exactly once and next to the properties of its own file, in the file's
\* order, whatever the linker dropped and whichever order the units ran in, and
\* Suites() names every suite there is, once.
RegistryComplete ==
    loaded =>
        /\ Len(registry) = Cardinality(UNION {{f} \X DOMAIN CasesOf[f] : f \in PropertyFiles})
        /\ \A f \in PropertyFiles : \E i \in 0..Len(registry) :
              /\ i + Len(CasesOf[f]) <= Len(registry)
              /\ SubSeq(registry, i + 1, i + Len(CasesOf[f])) = CasesOf[f]
        /\ IsInjective(Suites)
        /\ ToSet(Suites) = {c.suite : c \in UNION {ToSet(CasesOf[f]) : f \in PropertyFiles}}
=============================================================================
