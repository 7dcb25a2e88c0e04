-------------------------- MODULE MCTicketLifecycle --------------------------
\* A small instance of TicketLifecycle for TLC.
EXTENDS TicketLifecycle, TLC

Symmetry ==
    Permutations(ApiSlots) \union Permutations(Staff) \union Permutations(Messages)
        \union Permutations(Tickets) \union Permutations(Clients)
==============================================================================
