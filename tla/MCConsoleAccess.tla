--------------------------- MODULE MCConsoleAccess ---------------------------
EXTENDS ConsoleAccess, TLC

MCSymmetry == Permutations(Requests)

==============================================================================
