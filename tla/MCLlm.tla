------------------------------- MODULE MCLlm -------------------------------
(* Instances of LlmConfig for TLC.                                         *)
EXTENDS LlmConfig, TLC

CONSTANTS u1, k1, k2

(* One payload of each kind: providers that take, need or do not know a    *)
(* key, with or without an address; the key given, kept or cleared.        *)
SomeOffers ==
    {[provider |-> "ollama", url |-> u, key |-> None] : u \in {u1, Empty}}
    \cup [provider : {"openai"}, url : {Empty}, key : {k1, Empty, None}]
    \cup [provider : {"openai-compatible"}, url : {u1}, key : {k2}]

Symmetry == Permutations(Side) \cup Permutations(Admin)
=============================================================================
