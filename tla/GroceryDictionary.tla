-------------------------- MODULE GroceryDictionary --------------------------
(* The grocery terms that every household shares.  A phrase is a sequence  *)
(* of words, after NFKC, casefold and the collapsing of white space.       *)
EXTENDS Integers, Sequences, FiniteSets

CONSTANTS
  StandardTerms,     \* phrase -> the canonical key it stands for
  CanonicalKeys,
  None

ASSUME TermsAssumption ==
  /\ \A a \in DOMAIN StandardTerms : StandardTerms[a] \in CanonicalKeys
  /\ None \notin CanonicalKeys

(* A mapping that gives a standard term another meaning. *)
Remaps(phrase, key) ==
  phrase \in DOMAIN StandardTerms /\ StandardTerms[phrase] # key

=============================================================================
