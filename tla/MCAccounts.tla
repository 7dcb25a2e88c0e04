------------------------------ MODULE MCAccounts ------------------------------
\* A small instance of Accounts for TLC.
EXTENDS Accounts, TLC

Symmetry == Permutations(Users) \union Permutations(Slots) \union Permutations(Sockets)
==============================================================================
