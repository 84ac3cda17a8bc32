---------------------------- MODULE VersionChain ----------------------------
(***************************************************************************)
(* What the tables of versioned records promise: the versions of a subject *)
(* are immutable, numbered 1, 2, ... without gap or repetition, and each   *)
(* supersedes the one before it.                                           *)
(***************************************************************************)
EXTENDS Naturals, Sequences

CONSTANT Subject
VARIABLE chain   \* [Subject -> Seq of [version, supersedes]], oldest first

Init == chain = [s \in Subject |-> <<>>]
Extend(s) ==
    LET n == Len(chain[s])
    IN  chain' = [chain EXCEPT ![s] = Append(@, [version |-> n + 1, supersedes |-> n])]
Next == \E s \in Subject : Extend(s)

Spec == Init /\ [][Next]_chain
=============================================================================
