------------------------------- MODULE Tools -------------------------------
(***************************************************************************)
(* The values tool calls are made of.  They come from outside: the         *)
(* provider spells the name and writes the input, the registry and the     *)
(* user's configuration spell names too.                                   *)
(***************************************************************************)
EXTENDS Naturals

CONSTANTS Tool,      \* tool names, as the provider and the registry spell them
          Input,     \* inputs (JSON texts) a tool may be given
          Lower(_)   \* str::to_lowercase on tool names

ASSUME LowerAssumption == \A t \in Tool : Lower(Lower(t)) = Lower(t)

=============================================================================
