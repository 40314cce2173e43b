-------------------------- MODULE MCAttributeCache --------------------------
(***************************************************************************)
(* Instances of AttributeCache for TLC: an object b that inherits from a,  *)
(* and the setups of tasks, lookups and writes.                            *)
(***************************************************************************)
EXTENDS AttributeCache

CONSTANTS a, b

ParentOfB == [x \in Object |-> IF x = b THEN <<a>> ELSE <<>>]

\* Tasks one after another; both objects are looked up and written.
SerialSetup(kills) ==
    [workers |-> 1, asked |-> {<<a, FALSE>>, <<b, FALSE>>, <<b, TRUE>>},
     written |-> {a, b}, stored |-> {}, kills |-> kills]

\* Two at once: a has the property and b may get one of its own.
RacingSetup ==
    [workers |-> 2, asked |-> {<<b, TRUE>>}, written |-> {a, b}, stored |-> {a}, kills |-> TRUE]

AllSetups == {SerialSetup(TRUE), SerialSetup(FALSE), RacingSetup}
OneRacing == {RacingSetup}
=============================================================================
