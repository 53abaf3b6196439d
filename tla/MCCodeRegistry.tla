---------------------------- MODULE MCCodeRegistry ----------------------------
(* CodeRegistry with a few recipes, for TLC. *)
EXTENDS CodeRegistry

CONSTANTS f, g, sum, alice

Step(call, with) == [call |-> call, with |-> with]

\* A contract with all entry points, one of Empty messages that replaces what it
\* was given, and one with a checksum and without optional entry points.
Full == <<Step("new", f), Step("with_sudo", f), Step("with_migrate", f), Step("with_reply", f),
          Step("with_ibc", f), Step("with_ibc_source_callback", f)>>
Empty == <<Step("new_with_empty", g), Step("with_reply_empty", f), Step("with_migrate_empty", g),
           Step("with_sudo_empty", g), Step("with_reply_empty", g)>>
Small == <<Step("new", f), Step("with_checksum", sum)>>
Late == <<Step("new", f), Step("with_checksum", sum), Step("with_sudo", f)>>

\* Nobody, an account, and the contract that alice instantiates with the salt: its
\* own admin, or another's.
SomeAdmins == {None, alice, Predictable(Generated(1), alice, "salt")}

TwoRecipes == {Full, Empty}
ChecksumRecipes == {Small, Late}
=============================================================================
