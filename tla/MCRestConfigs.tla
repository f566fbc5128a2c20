--------------------------- MODULE MCRestConfigs ---------------------------
(***************************************************************************)
(* RestConfigs for TLC.                                                    *)
(***************************************************************************)
EXTENDS RestConfigs, TLC

MCTaskId == { << <<"t", 1>> >> }

\* An id that starts like one the store makes and could be taken for a longer
\* path, one that ServeMux cleans away, and one of the form the store makes.
MCClientIds == { pcId(1) \o ConfigsPart, << <<"..">> >>, pcId(3) }

\* With sources and no exclusion, and without sources, everything REST
\* excluded.
MCPolicies ==
  { [excludePrefix |-> <<>>, useIDToken |-> TRUE, access |-> FALSE, id |-> TRUE],
    [excludePrefix |-> <<TasksRoot>>, useIDToken |-> FALSE, access |-> FALSE,
     id |-> FALSE] }

MCSymmetry == Permutations(Client)
=============================================================================
