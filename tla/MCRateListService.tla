-------------------------- MODULE MCRateListService --------------------------
EXTENDS RateListService, TLC

\* Nothing orders the currencies in this module.
Symmetry == Permutations(Currency)

=============================================================================
