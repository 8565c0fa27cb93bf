---------------------------- MODULE MCBtor2Aiger ----------------------------
(***************************************************************************)
(* Btor2Aiger on small models.                                             *)
(***************************************************************************)
EXTENDS Btor2Aiger, SmallModels

BitModels == {Parsed(f) : f \in {Counter, Flags, Free, HalfFree, FreeInitial,
                                 InitialOnly, NegatedBad}}
OtherModels == {Parsed(f) : f \in {Swap, Fair}}
AllModels  == BitModels \cup OtherModels

\* What the theorems about the circuit suppose of a model holds of these.
ASSUME ValuedAssumption == \A T \in AllModels : Valued(T)

=============================================================================
