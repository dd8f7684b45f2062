------------------------- MODULE MCImplementorsPage -------------------------
(***************************************************************************)
(* ImplementorsPage for TLC: the fragment of the repository, fragments    *)
(* that exercise the merge (a regenerated one, a disjoint one, a          *)
(* malformed one), two registrars and a catalogue that names the crates   *)
(* the fragments use.                                                      *)
(***************************************************************************)
EXTENDS ImplementorsPage

CONSTANTS Test, Regenerated, Extra, Broken, NotAList, r1, r2

MCFragments == {Test, Regenerated, Extra, Broken}

MCMalformed == {NotAList}

(***************************************************************************)
(* Test is trait.Test.js as it stands.  Regenerated is the file after a   *)
(* rebuild in which smoke_test lost an implementor: it re-registers a     *)
(* module with another list.  Extra carries a module no other fragment    *)
(* has.  Broken has a good list for a module of Test and then a module    *)
(* that holds no list.                                                     *)
(***************************************************************************)
MCStatements ==
    [f \in MCFragments |->
        CASE f = Test -> TraitTest
          [] f = Regenerated -> << <<"smoke_test", RecordList("smoke_test", 9)>> >>
          [] f = Extra -> << <<"cluster_test", RecordList("cluster_test", 2)>> >>
          [] f = Broken -> << <<"testcases", RecordList("testcases", 4)>>,
                              <<"smoke_test", NotAList>> >>]

MCRegistrars == {r1, r2}

\* A part of the list of crates.js, in its order, with every crate a
\* fragment names.
MCAllCrates ==
    <<"cluster_test", "forge", "jsonrpc_integration_tests", "smoke_test",
      "testcases">>

ASSUME \A f \in DOMAIN MCStatements : \A i \in DOMAIN MCStatements[f] :
          Contains(MCAllCrates, MCStatements[f][i][1])

=============================================================================
