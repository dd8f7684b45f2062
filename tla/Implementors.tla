---------------------------- MODULE Implementors ----------------------------
(***************************************************************************)
(* The data of a rustdoc "implementors" fragment and the operations on it. *)
(*                                                                         *)
(* A fragment such as implementors/forge/interface/test/trait.Test.js      *)
(* builds one JavaScript object, `implementors`, by assigning to one key   *)
(* per crate the list of the types of that crate that implement the       *)
(* trait.  The registrar later merges such objects into the display model *)
(* of the page.                                                           *)
(*                                                                         *)
(* A JavaScript object with string keys is modelled as a sequence of       *)
(* <<key, value>> pairs with distinct keys, in insertion order: that is   *)
(* the order in which the object's own property names are enumerated.     *)
(* An implementor record keeps its three fields.  The implementing type, *)
(* which "types" names by its path and "text" by its markup, is           *)
(* abstracted to the crate and the position in the crate's list.          *)
(***************************************************************************)
EXTENDS Naturals, Sequences, SequencesExt

(***************************************************************************)
(* One element of a crate's list, {"text":..,"synthetic":false,           *)
(* "types":[..]}: every record of trait.Test.js has "synthetic":false and *)
(* a single entry in "types", the type its "text" is about.               *)
(***************************************************************************)
ImplRecord(crate, i) ==
    [text |-> <<crate, i>>, synthetic |-> FALSE, types |-> << <<crate, i>> >>]

\* The list on the right-hand side of one assignment: n records, in the
\* declaration order of the crate.
RecordList(crate, n) == [i \in 1..n |-> ImplRecord(crate, i)]

\* var implementors = {};
EmptyObject == <<>>

\* Reading an object: whether it has a key, and the value of a key.
HasKey(obj, k) == \E i \in DOMAIN obj : obj[i][1] = k

Get(obj, k) == obj[CHOOSE i \in DOMAIN obj : obj[i][1] = k][2]

\* An object is well formed when no key occurs twice.
IsObject(obj) == \A i, j \in DOMAIN obj : obj[i][1] = obj[j][1] => i = j

\* Faulty Assign: the pair is appended even when the key is already there,
\* as if the object were a plain list of entries.
AssignAlwaysAppends(obj, k, v) == Append(obj, <<k, v>>)

(***************************************************************************)
(* obj[k] = v.  An existing key keeps its place and takes the new value;  *)
(* a new key goes to the end.                                              *)
(***************************************************************************)
Assign(obj, k, v) ==
    IF HasKey(obj, k)
    THEN [i \in DOMAIN obj |-> IF obj[i][1] = k THEN <<k, v>> ELSE obj[i]]
    ELSE Append(obj, <<k, v>>)

(***************************************************************************)
(* The body of a fragment up to its last line: the empty object, then the *)
(* assignments stmts = << <<crate, list>>, ... >> in the order written.   *)
(***************************************************************************)
Build(stmts) ==
    FoldLeft(LAMBDA obj, s : Assign(obj, s[1], s[2]), EmptyObject, stmts)

(***************************************************************************)
(* The three assignments of trait.Test.js: 36, 10 and 5 implementors of   *)
(* forge::interface::test::Test.                                           *)
(***************************************************************************)
TraitTest ==
    << <<"jsonrpc_integration_tests",
         RecordList("jsonrpc_integration_tests", 36)>>,
       <<"smoke_test", RecordList("smoke_test", 10)>>,
       <<"testcases", RecordList("testcases", 5)>> >>

-----------------------------------------------------------------------------
(***************************************************************************)
(* The registrar's merge of one delivered object into the display model:  *)
(* every module key of the fragment replaces the model's entry for that   *)
(* key wholesale; the other entries stay.  The written specification      *)
(* files the entries under the fragment's capability; the object of a     *)
(* fragment has no such field, and the model is the module map of the one *)
(* capability of the page, the trait the page is about.                   *)
(***************************************************************************)
Merge(model, obj) ==
    FoldLeft(LAMBDA acc, e : Assign(acc, e[1], e[2]), model, obj)

=============================================================================
