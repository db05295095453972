------------------------------ MODULE MCAppState ------------------------------
(* Instances of AppState for TLC: a client with transactions where queries *)
(* time out and tasks raise; the same where keys and snapshots go missing; *)
(* and one without transactions, where they do, that verifies macs.  All   *)
(* of them remove, too, and other devices patch the while.                 *)
EXTENDS AppState, TLC
Sheltering ==
    [page |-> 1, maxVersion |-> 3, maxMacs |-> 4, maxWire |-> 2,
     transactional |-> TRUE, verify |-> FALSE, emits |-> TRUE,
     failures |-> TRUE, missingKeys |-> FALSE, conflicts |-> TRUE]
Losing ==
    [page |-> 1, maxVersion |-> 3, maxMacs |-> 3, maxWire |-> 1,
     transactional |-> TRUE, verify |-> TRUE, emits |-> FALSE,
     failures |-> FALSE, missingKeys |-> TRUE, conflicts |-> TRUE]
Verifying ==
    [page |-> 2, maxVersion |-> 2, maxMacs |-> 3, maxWire |-> 1,
     transactional |-> FALSE, verify |-> TRUE, emits |-> FALSE,
     failures |-> FALSE, missingKeys |-> TRUE, conflicts |-> TRUE]
MCModes == {Sheltering, Losing, Verifying}
Symmetry == Permutations(Indexes)
=============================================================================
