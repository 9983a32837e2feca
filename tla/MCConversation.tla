--------------------------- MODULE MCConversation ---------------------------
(* Instances of Conversation for TLC. *)
EXTENDS Conversation, TLC

Symmetry == Permutations(Chats) \union Permutations(Agents) \union Permutations(Workers)
              \union Permutations(Requests)

\* A bound: executions are followed up to the second write on an outdated read.
FewOverwrites == overwrites < 2
=============================================================================
