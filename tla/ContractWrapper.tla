--------------------------- MODULE ContractWrapper ---------------------------
(***************************************************************************)
(* ContractWrapper of src/contracts.rs: how a contract is put together from *)
(* the functions of its entry points.  Every with_* method builds a new     *)
(* wrapper and hands over each of the fifteen fields of the old one.        *)
(*                                                                          *)
(* A recipe is the sequence of these calls, each with the function or the   *)
(* checksum it is given.                                                    *)
(***************************************************************************)
EXTENDS Naturals, Sequences, SequencesExt

CONSTANTS Functions, \* functions that tests write
          Checksums, \* checksums that tests provide
          None       \* Option::None

WasmEntryPoints == {"execute", "instantiate", "query", "sudo", "reply", "migrate"}
IbcEntryPoints == {"ibc_channel_open", "ibc_channel_connect", "ibc_channel_close",
                   "ibc_packet_receive", "ibc_packet_acknowledge", "ibc_packet_timeout"}
EntryPoints == WasmEntryPoints \cup IbcEntryPoints \cup {"ibc_source_callback"}

\* A function for Empty messages and queries is wrapped in a closure that hands
\* it the same storage and querier and hands on its answer.
Plain(f) == [raw_fn |-> f, customized |-> FALSE]
Customized(f) == [raw_fn |-> f, customized |-> TRUE]
Closures == [raw_fn : Functions, customized : BOOLEAN]

ASSUME NoneAssumption == None \notin Functions \cup Checksums \cup Closures

\* The calls of a recipe.  new and new_with_empty are constructors: a recipe starts
\* with one of them, and only with one.
Constructors == {"new", "new_with_empty"}
Methods == {"with_sudo", "with_sudo_empty", "with_reply", "with_reply_empty", "with_migrate",
            "with_migrate_empty", "with_ibc", "with_ibc_source_callback"}
Calls == [call : Constructors \cup Methods, with : Functions]
             \cup [call : {"with_checksum"}, with : Checksums]
IsRecipe(recipe) ==
    /\ recipe \in Seq(Calls)
    /\ \A i \in DOMAIN recipe : recipe[i].call \in Constructors <=> i = 1

Wrappers == [fns : [EntryPoints -> Closures \cup {None}], checksum : Checksums \cup {None}]

-----------------------------------------------------------------------------
(* The builder *)

Only(entries, closure) ==
    [fns |-> [e \in EntryPoints |-> IF e \in entries THEN closure ELSE None], checksum |-> None]

New(f) == Only({"execute", "instantiate", "query"}, Plain(f))
NewWithEmpty(f) == Only({"execute", "instantiate", "query"}, Customized(f))

WithSudo(wrapper, f) ==
    [wrapper EXCEPT !.fns["sudo"] = Plain(f), !.checksum = None]
WithSudoEmpty(wrapper, f) ==
    [wrapper EXCEPT !.fns["sudo"] = Customized(f), !.checksum = None]

\* Mutant of WithReply: a field is not handed over.
WithReplyForgetsSudo(wrapper, f) ==
    [wrapper EXCEPT !.fns["reply"] = Plain(f), !.fns["sudo"] = None, !.checksum = None]

WithReply(wrapper, f) ==
    [wrapper EXCEPT !.fns["reply"] = Plain(f), !.checksum = None]
WithReplyEmpty(wrapper, f) ==
    [wrapper EXCEPT !.fns["reply"] = Customized(f), !.checksum = None]

WithMigrate(wrapper, f) ==
    [wrapper EXCEPT !.fns["migrate"] = Plain(f), !.checksum = None]
WithMigrateEmpty(wrapper, f) ==
    [wrapper EXCEPT !.fns["migrate"] = Customized(f), !.checksum = None]

WithChecksum(wrapper, checksum) == [wrapper EXCEPT !.checksum = checksum]

WithIbc(wrapper, f) ==
    [fns |-> [e \in EntryPoints |-> IF e \in IbcEntryPoints THEN Plain(f) ELSE wrapper.fns[e]],
     checksum |-> None]
WithIbcSourceCallback(wrapper, f) ==
    [wrapper EXCEPT !.fns["ibc_source_callback"] = Plain(f), !.checksum = None]

With(wrapper, step) ==
    CASE step.call = "new"                      -> New(step.with)
      [] step.call = "new_with_empty"           -> NewWithEmpty(step.with)
      [] step.call = "with_sudo"                -> WithSudo(wrapper, step.with)
      [] step.call = "with_sudo_empty"          -> WithSudoEmpty(wrapper, step.with)
      [] step.call = "with_reply"               -> WithReply(wrapper, step.with)
      [] step.call = "with_reply_empty"         -> WithReplyEmpty(wrapper, step.with)
      [] step.call = "with_migrate"             -> WithMigrate(wrapper, step.with)
      [] step.call = "with_migrate_empty"       -> WithMigrateEmpty(wrapper, step.with)
      [] step.call = "with_checksum"            -> WithChecksum(wrapper, step.with)
      [] step.call = "with_ibc"                 -> WithIbc(wrapper, step.with)
      [] step.call = "with_ibc_source_callback" -> WithIbcSourceCallback(wrapper, step.with)

Nothing == [fns |-> [e \in EntryPoints |-> None], checksum |-> None]
Build(recipe) == FoldLeft(With, Nothing, recipe)

\* The methods of the trait Contract: an entry point without a function is an
\* error, "not implemented for contract".
Implements(wrapper, entry) == wrapper.fns[entry] # None

-----------------------------------------------------------------------------
(* What the calls of a recipe say, read without running the builder *)

\* The entry points that a call gives a function, or the checksum.
Provides(call) ==
    CASE call \in {"new", "new_with_empty"}            -> {"execute", "instantiate", "query"}
      [] call \in {"with_sudo", "with_sudo_empty"}     -> {"sudo"}
      [] call \in {"with_reply", "with_reply_empty"}   -> {"reply"}
      [] call \in {"with_migrate", "with_migrate_empty"} -> {"migrate"}
      [] call = "with_checksum"                        -> {"checksum"}
      [] call = "with_ibc"                             -> IbcEntryPoints
      [] call = "with_ibc_source_callback"             -> {"ibc_source_callback"}

\* What a recipe provides last for an entry point, or as checksum.
Provided(recipe, what) ==
    LET calls == {i \in DOMAIN recipe : what \in Provides(recipe[i].call)}
    IN  IF calls = {} THEN None
        ELSE recipe[CHOOSE i \in calls : \A j \in calls : j <= i].with
=============================================================================
