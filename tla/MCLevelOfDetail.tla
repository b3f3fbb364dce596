---------------------------- MODULE MCLevelOfDetail ----------------------------
\* Values for TLC: identifiers whose mixed hashes put their due ticks at different phases.
EXTENDS LevelOfDetailSchedule

MCMixedId == [id \in Ids |-> CASE id = 1 -> 3 [] id = 2 -> 5 [] id = 3 -> 1 [] OTHER -> 4]
=============================================================================
