------------------------------ MODULE MCWalker ------------------------------
(* Small trees and thread counts for model checking Walker.               *)
EXTENDS WalkerProps, TLC

TreeTop == <<"r">>

\* The smallest tree in which a task can be lost: a chain of three.
ChainEntry == {"r", "a", "c"}
ChainKind == [e \in ChainEntry |-> "dir"]
ChainListing == [e \in ChainEntry |->
    CASE e = "r" -> <<"a">> [] e = "a" -> <<"c">> [] OTHER -> << >>]

\* A fork: enough for three workers to compete for a stolen batch.
ForkEntry == {"r", "a", "b"}
ForkKind == [e \in ForkEntry |-> "dir"]
ForkListing == [e \in ForkEntry |-> IF e = "r" THEN <<"a", "b">> ELSE << >>]
=============================================================================
