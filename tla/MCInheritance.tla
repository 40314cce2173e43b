--------------------------- MODULE MCInheritance ---------------------------
(***************************************************************************)
(* Instances of Inheritance for TLC: setups of operations on a few objects *)
(* whose primary keys are small numbers.                                   *)
(***************************************************************************)
EXTENDS Inheritance

TopologySetup  == [objects |-> 1..4, initializers |-> {}, maxLinks |-> 4,
                   ops |-> {"add", "add_many", "remove", "rebuild"}]
AppendSetup    == [objects |-> 1..4, initializers |-> {1}, maxLinks |-> 5,
                   ops |-> {"add"}]
DeleteSetup    == [objects |-> 1..4, initializers |-> {}, maxLinks |-> 4,
                   ops |-> {"add", "remove", "delete"}]
RecyclingSetup == [objects |-> 1..3, initializers |-> {}, maxLinks |-> 3,
                   ops |-> {"add", "remove", "rebuild", "recycle", "restore", "stale_save"}]

AllSetups  == {TopologySetup, AppendSetup, DeleteSetup, RecyclingSetup}
OneDeleted == {DeleteSetup}
=============================================================================
